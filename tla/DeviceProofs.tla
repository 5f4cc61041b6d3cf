----------------------------- MODULE DeviceProofs -----------------------------
(***************************************************************************)
(* Proofs about a device: its clock, whatever the width of its counters,    *)
(* and its switch sketch, whatever the width of its numbers.                *)
(*                                                                          *)
(* os_bg keeps its second and timer_delayMS its time because what they      *)
(* subtract is short of one turn of the counter (NotRound): between two     *)
(* looks of os_bg there is at most what a watchdog lets pass and one sleep, *)
(* and when os_bg last looked a second had not gone.  A torn reading is a   *)
(* quarter off (ReadIs), so the two that are subtracted are off by a half   *)
(* of a second at most, however often they were torn before: the time on    *)
(* the clock (SecondInv's m) lags by that of lastTicks_1hz alone.  NapsFit  *)
(* says that the sleep is not too long for all that; with the code's        *)
(* numbers (256, 250, 2^8, 1000 ms, a watchdog of a second) it allows naps  *)
(* of up to 245 quarters, where sleep_powersave takes a byte.               *)
(*                                                                          *)
(* An answer finds the sketch still waiting for its number, or for another, *)
(* but never for the same number used again: each later put of the same     *)
(* life needs a fault or a click while the answer is under way (Early,      *)
(* Queued, Held), so that fewer than 254 of them leave the eight bits of    *)
(* seq unambiguous (NumbersLast).                                           *)
(***************************************************************************)
EXTENDS Device, TLAPS

-----------------------------------------------------------------------------
(* Remainders.                                                              *)

LEMMA ModIs ==
  ASSUME NEW n \in Nat \ {0}, NEW k \in Int, NEW b \in 0..n - 1
  PROVE  (k * n + b) % n = b /\ (k * n + b) \div n = k
OBVIOUS

\* Quotient and remainder of any integer.
LEMMA ModOf ==
  ASSUME NEW a \in Int, NEW n \in Nat \ {0}, NEW k, NEW r, k = a \div n, r = a % n
  PROVE  k \in Int /\ r \in 0..n - 1 /\ a = k * n + r
OBVIOUS

\* One turn, to either side.
LEMMA ModNear ==
  ASSUME NEW n \in Nat \ {0}, NEW b \in 0..n - 1
  PROVE  b % n = b /\ (b + n) % n = b /\ (b - n) % n = b
OBVIOUS

\* Remainders may be taken before or after a sum or a difference.
LEMMA ModPlus ==
  ASSUME NEW n \in Nat \ {0}, NEW a \in Int, NEW b \in Int
  PROVE  /\ ((a % n) + b) % n = (a + b) % n
         /\ ((a % n) - b) % n = (a - b) % n
         /\ (b - (a % n)) % n = (b - a) % n
<1> DEFINE k == a \div n
           g == a % n
<1>1. k \in Int /\ g \in 0..n - 1 /\ a = k * n + g
  BY ModOf
<1> HIDE DEF k, g
<1>2. ASSUME NEW x \in Int, NEW y \in Int, NEW j \in Int, x = j * n + y
      PROVE  x % n = y % n
  <2> DEFINE c == y \div n
             d == y % n
  <2>1. c \in Int /\ d \in 0..n - 1 /\ y = c * n + d
    BY ModOf
  <2> HIDE DEF c, d
  <2>2. j * n + c * n = (j + c) * n /\ j + c \in Int
    BY <1>2, <2>1
  <2>3. x = (j + c) * n + d
    BY <1>2, <2>1, <2>2
  <2>4. x % n = d
    BY <2>1, <2>2, <2>3, ModIs
  <2> QED
    BY <2>4 DEF d
<1>3. /\ a + b = k * n + (g + b) /\ a - b = k * n + (g - b)
      /\ a + b \in Int /\ a - b \in Int /\ g + b \in Int /\ g - b \in Int /\ k \in Int
  BY <1>1
<1>4. b - a = (-k) * n + (b - g) /\ b - a \in Int /\ b - g \in Int /\ -k \in Int
  BY <1>1
<1>5. (a + b) % n = (g + b) % n
  BY <1>2, <1>3
<1>6. (a - b) % n = (g - b) % n
  BY <1>2, <1>3
<1>7. (b - a) % n = (b - g) % n
  BY <1>2, <1>4
<1> QED
  BY <1>5, <1>6, <1>7 DEF g

\* Multiplying keeps the order.
LEMMA TimesOrder ==
  ASSUME NEW a \in Int, NEW b \in Int, NEW n \in Nat
  PROVE  /\ a <= b => a * n <= b * n
         /\ a * n < b * n => a < b
OBVIOUS

-----------------------------------------------------------------------------
(* The clock's arithmetic, for every width of its halves.                   *)

LEMMA WidthIs ==
  /\ TicksQS \in Nat \ {0} /\ MsQS \in Nat \ {0} /\ Quarters \in Nat \ {0} /\ Width \in Nat \ {0}
  /\ MsQS <= TicksQS /\ Width = Quarters * TicksQS /\ Ticks = 0..Width - 1
<1>1. TicksQS \in Nat \ {0} /\ MsQS \in Nat \ {0} /\ Quarters \in Nat \ {0} /\ MsQS <= TicksQS
  BY ClockAssumption
<1> QED
  BY <1>1 DEF Width, Ticks

\* The two halves make a 16-bit count.
LEMMA ValueIs ==
  ASSUME NEW h \in 0..Quarters - 1, NEW l \in 0..TicksQS - 1
  PROVE  Value(h, l) \in Ticks
<1>1. h * TicksQS <= (Quarters - 1) * TicksQS /\ h * TicksQS \in Nat
  BY WidthIs, TimesOrder
<1>2. (Quarters - 1) * TicksQS = Width - TicksQS
  BY WidthIs
<1> QED
  BY <1>1, <1>2, WidthIs DEF Value

\* A tick, whether counted by T2 alone or with the quarter it ends.
LEMMA NextValue ==
  ASSUME NEW h \in 0..Quarters - 1, NEW l \in 0..TicksQS - 1
  PROVE  /\ l # TicksQS - 1 => l + 1 \in 0..TicksQS - 1 /\ Value(h, l + 1) = (Value(h, l) + 1) % Width
         /\ l = TicksQS - 1 => Value((h + 1) % Quarters, 0) = (Value(h, l) + 1) % Width
<1>1. CASE l # TicksQS - 1
  <2>1. l + 1 \in 0..TicksQS - 1
    BY <1>1, WidthIs
  <2>2. Value(h, l + 1) \in Ticks /\ Value(h, l) + 1 = Value(h, l + 1) /\ Value(h, l + 1) \in Int
    BY <2>1, ValueIs, WidthIs DEF Value
  <2>3. Value(h, l + 1) % Width = Value(h, l + 1)
    BY <2>2, WidthIs, ModIs
  <2> QED
    BY <1>1, <2>1, <2>2, <2>3
<1>2. CASE l = TicksQS - 1
  <2>1. Value(h, l) + 1 = (h + 1) * TicksQS
    BY <1>2, WidthIs DEF Value
  <2>2. CASE h + 1 = Quarters
    <3>1. (h + 1) % Quarters = 0
      BY <2>2, WidthIs
    <3>2. Value(0, 0) = 0
      BY WidthIs DEF Value
    <3>3. (1 * Width + 0) % Width = 0
      BY WidthIs, ModIs
    <3>4. Value(h, l) + 1 = 1 * Width + 0
      BY <2>1, <2>2, WidthIs
    <3> QED
      BY <1>2, <3>1, <3>2, <3>3, <3>4
  <2>3. CASE h + 1 # Quarters
    <3>1. (h + 1) % Quarters = h + 1 /\ h + 1 \in 0..Quarters - 1
      BY <2>3, WidthIs
    <3>2. Value(h + 1, 0) = Value(h, l) + 1
      BY <2>1, WidthIs DEF Value
    <3>3. Value(h + 1, 0) \in Ticks
      BY <3>1, ValueIs, WidthIs
    <3>4. Value(h + 1, 0) % Width = Value(h + 1, 0)
      BY <3>3, WidthIs, ModIs
    <3> QED
      BY <1>2, <3>1, <3>2, <3>4
  <2> QED
    BY <2>2, <2>3
<1> QED
  BY <1>1, <1>2

\* A sleep winds the clock on by whole quarters.
LEMMA WoundValue ==
  ASSUME NEW h \in 0..Quarters - 1, NEW l \in 0..TicksQS - 1, NEW q \in Nat
  PROVE  /\ WoundOn(h, q) \in 0..Quarters - 1
         /\ Value(WoundOn(h, q), l) = (Value(h, l) + q * TicksQS) % Width
<1> DEFINE k == (h + q) \div Quarters
           g == (h + q) % Quarters
<1>1. k \in Int /\ g \in 0..Quarters - 1 /\ h + q = k * Quarters + g
  <2>1. h + q \in Int
    BY WidthIs
  <2> QED
    BY <2>1, WidthIs, ModOf
<1> HIDE DEF k, g
<1>2. Value(g, l) \in 0..Width - 1
  BY <1>1, ValueIs, WidthIs
<1>3. (h + q) * TicksQS = (k * Quarters + g) * TicksQS
  BY <1>1
<1>4. (k * Quarters + g) * TicksQS = k * Width + g * TicksQS
  BY <1>1, WidthIs
<1>5. (h + q) * TicksQS = h * TicksQS + q * TicksQS
  BY WidthIs
<1>6. Value(h, l) + q * TicksQS = k * Width + Value(g, l)
  BY <1>1, <1>3, <1>4, <1>5, WidthIs DEF Value
<1>7. (k * Width + Value(g, l)) % Width = Value(g, l)
  BY <1>1, <1>2, WidthIs, ModIs
<1> QED
  BY <1>1, <1>6, <1>7 DEF WoundOn, g

\* A 16-bit difference, in either order of the two.
LEMMA SinceIs ==
  ASSUME NEW old \in Ticks, NEW new \in Ticks
  PROVE  /\ Since(old, new) \in Ticks
         /\ Since(old, new) = IF old <= new THEN new - old ELSE new - old + Width
<1>1. old \in Int /\ new \in Int /\ 0 <= old /\ old < Width /\ 0 <= new /\ new < Width
  BY WidthIs
<1>2. CASE old <= new
  <2>1. new - old \in 0..Width - 1 /\ new - old = 0 * Width + (new - old)
    BY <1>1, <1>2, WidthIs
  <2>2. (0 * Width + (new - old)) % Width = new - old
    BY <2>1, WidthIs, ModIs
  <2> QED
    BY <1>2, <2>1, <2>2, WidthIs DEF Since
<1>3. CASE ~(old <= new)
  <2>1. new - old + Width \in 0..Width - 1 /\ new - old = (new - old + Width) - Width
    BY <1>1, <1>3, WidthIs
  <2>2. ((new - old + Width) - Width) % Width = new - old + Width
    BY <2>1, WidthIs, ModNear
  <2> QED
    BY <1>3, <2>1, <2>2, WidthIs DEF Since
<1> QED
  BY <1>2, <1>3

\* Time passes: by as much, unless it goes round.
LEMMA SinceLater ==
  ASSUME NEW old \in Ticks, NEW now \in Ticks, NEW d \in Nat
  PROVE  LET next == (now + d) % Width
         IN /\ next \in Ticks
            /\ Since(old, now) + d < Width => Since(old, next) = Since(old, now) + d
            /\ Since(old, next) <= Since(old, now) + d
<1> DEFINE next == (now + d) % Width
           k == (now + d) \div Width
           s == Since(old, now)
           j == IF old <= now THEN 0 ELSE 1
<1>1. old \in Int /\ now \in Int
  BY WidthIs
<1>2. k \in Int /\ next \in 0..Width - 1 /\ now + d = k * Width + next
  <2>1. now + d \in Int /\ Width \in Nat \ {0}
    BY <1>1, WidthIs
  <2>2. k = (now + d) \div Width /\ next = (now + d) % Width
    OBVIOUS
  <2> HIDE DEF k, next
  <2> QED
    BY <2>1, <2>2, ModOf
<1>3. s \in 0..Width - 1 /\ s = now - old + j * Width /\ j \in {0, 1}
  <2>1. CASE old <= now
    <3>1. j = 0 /\ s = now - old
      BY <2>1, SinceIs
    <3>2. 0 * Width = 0
      BY WidthIs
    <3> QED
      BY <1>1, <3>1, <3>2, SinceIs, WidthIs
  <2>2. CASE ~(old <= now)
    <3>1. j = 1 /\ s = now - old + Width
      BY <2>2, SinceIs
    <3>2. 1 * Width = Width
      BY WidthIs
    <3> QED
      BY <1>1, <3>1, <3>2, SinceIs, WidthIs
  <2> QED
    BY <2>1, <2>2
<1> HIDE DEF next, k, s, j
<1>4. next - old = (-(k + j)) * Width + (s + d)
  <2>1. s + d = k * Width + next - old + j * Width
    BY <1>1, <1>2, <1>3, WidthIs
  <2>2. (-(k + j)) * Width = -(k * Width) - (j * Width) /\ k * Width \in Int /\ j * Width \in Int
    BY <1>2, <1>3, WidthIs
  <2> HIDE DEF next
  <2> QED
    BY <1>1, <1>2, <1>3, <2>1, <2>2, WidthIs
<1>5. ASSUME s + d < Width PROVE (next - old) % Width = s + d
  <2>1. s + d \in 0..Width - 1 /\ -(k + j) \in Int
    BY <1>2, <1>3, <1>5, WidthIs
  <2> QED
    BY <1>4, <2>1, WidthIs, ModIs
<1>6. Since(old, next) \in 0..Width - 1
  BY <1>2, SinceIs, WidthIs
<1>7. s + d < Width => Since(old, next) = s + d
  BY <1>5 DEF Since
<1>8. Since(old, next) <= s + d
  BY <1>3, <1>6, <1>7, WidthIs
<1> QED
  BY <1>2, <1>7, <1>8, WidthIs DEF next, s

\* timer_toMS subtracts as 32-bit numbers, which adds to a time that goes round
\* but takes nothing away: a second that is over is seen to be.
LEMMA ToMSOver ==
  ASSUME NEW old \in Ticks, NEW new \in Ticks,
         Since(old, new) * MsQS >= (SecondMS + 1) * TicksQS
  PROVE  timer_toMS(old, new) > SecondMS
<1> DEFINE e == Since(old, new)
           m == (e * MsQS) \div TicksQS
           r == (e * MsQS) % TicksQS
<1>0. old \in Int /\ new \in Int /\ e \in 0..Width - 1 /\ e \in Nat /\ SecondMS \in Nat
  BY SinceIs, WidthIs, ClockAssumption
<1>1. e * MsQS \in Nat
  BY <1>0, WidthIs
<1>2. m \in Int /\ r \in 0..TicksQS - 1 /\ e * MsQS = m * TicksQS + r
  <2>1. e * MsQS \in Int /\ TicksQS \in Nat \ {0}
    BY <1>1, WidthIs
  <2>2. m = (e * MsQS) \div TicksQS /\ r = (e * MsQS) % TicksQS
    OBVIOUS
  <2> HIDE DEF m, r, e
  <2> QED
    BY <2>1, <2>2, ModOf
<1>3. e = IF old <= new THEN new - old ELSE new - old + Width
  BY SinceIs
<1>a. e * MsQS >= (SecondMS + 1) * TicksQS
  OBVIOUS
<1> HIDE DEF m, r, e
<1>4. m > SecondMS
  <2>1. (m + 1) * TicksQS = m * TicksQS + TicksQS
    BY <1>2, WidthIs
  <2>2. (SecondMS + 1) * TicksQS < (m + 1) * TicksQS
    BY <1>0, <1>1, <1>2, <1>a, <2>1, WidthIs
  <2>3. SecondMS + 1 < m + 1
    BY <1>0, <1>2, <2>2, WidthIs, TimesOrder
  <2> QED
    BY <1>0, <1>2, <2>3
<1>5. m < Quarters * MsQS
  <2>1. m * TicksQS <= e * MsQS
    BY <1>1, <1>2, WidthIs
  <2>2. e * MsQS < Width * MsQS
    BY <1>0, WidthIs
  <2>3. Width * MsQS = (Quarters * MsQS) * TicksQS
    BY WidthIs
  <2>4. m * TicksQS < (Quarters * MsQS) * TicksQS
    BY <1>1, <1>2, <2>1, <2>2, <2>3, WidthIs
  <2> QED
    BY <1>2, <2>4, WidthIs, TimesOrder
<1>6. Quarters * MsQS <= Width
  BY WidthIs
<1>7. CASE old <= new
  <2>1. (new - old) * MsQS = m * TicksQS + r
    BY <1>2, <1>3, <1>7
  <2>2. ((new - old) * MsQS) \div TicksQS = m
    BY <1>2, <2>1, WidthIs, ModIs
  <2>3. m \in 0..Width - 1
    BY <1>0, <1>2, <1>4, <1>5, <1>6, WidthIs
  <2>4. m % Width = m
    BY <2>3, WidthIs, ModNear
  <2> QED
    BY <1>4, <2>2, <2>4 DEF timer_toMS
<1>8. CASE ~(old <= new)
  <2> DEFINE b == m - Quarters * MsQS + Width
  <2>1. (new - old) * MsQS = (m - Quarters * MsQS) * TicksQS + r
    <3>1. new - old = e - Width
      BY <1>0, <1>3, <1>8, WidthIs
    <3>2. (e - Width) * MsQS = e * MsQS - Width * MsQS
      BY <1>0, WidthIs
    <3>3. Width * MsQS = (Quarters * MsQS) * TicksQS
      BY WidthIs
    <3>4. (m - Quarters * MsQS) * TicksQS = m * TicksQS - (Quarters * MsQS) * TicksQS
      BY <1>2, WidthIs
    <3> QED
      BY <1>1, <1>2, <3>1, <3>2, <3>3, <3>4, WidthIs
  <2>2. ((new - old) * MsQS) \div TicksQS = m - Quarters * MsQS
    <3>1. m - Quarters * MsQS \in Int
      BY <1>2, WidthIs
    <3> QED
      BY <1>2, <2>1, <3>1, WidthIs, ModIs
  <2>3. b \in 0..Width - 1 /\ b >= m
    BY <1>0, <1>2, <1>4, <1>5, <1>6, WidthIs
  <2>4. m - Quarters * MsQS = b - Width
    BY <1>2, WidthIs
  <2> HIDE DEF b
  <2>5. (b - Width) % Width = b
    BY <2>3, WidthIs, ModNear
  <2>6. timer_toMS(old, new) = b
    BY <2>2, <2>4, <2>5 DEF timer_toMS
  <2> QED
    BY <1>0, <1>2, <1>4, <2>3, <2>6
<1> QED
  BY <1>7, <1>8

-----------------------------------------------------------------------------
(* The clock's types.                                                       *)

Now == Value(high, low)

\* No nap is so long that, with a watchdog's time, a second before it and the
\* quarters by which two readings may be off, the counter goes round.
NapsFit == \A q \in Naps \cup {0} :
  (SecondMS + 1 + 2 * MsQS) * TicksQS + (MaxBusy + q * TicksQS) * MsQS <= Width * MsQS

\* What a reading gives, whole or torn by a quarter, and what passes while it is
\* made.
LEMMA ReadIs ==
  ASSUME ClockTypeOK, NEW r \in timer_getTicks, Reads(r)
  PROVE  /\ r.ticks \in Ticks /\ r.torn \in BOOLEAN /\ r.passed \in {0, 1}
         /\ low' \in 0..TicksQS - 1 /\ high' \in 0..Quarters - 1
         /\ busy + r.passed \in 0..MaxBusy
         /\ Now' = (Now + r.passed) % Width
         /\ ~r.torn => r.ticks = Now /\ r.passed = 0 /\ Now' = Now
         /\ r.torn => /\ r.passed = 1 /\ high' # high
                      /\ \E t \in {TicksQS - 1, -TicksQS} : r.ticks = (Now' + t) % Width
<1>0. low \in 0..TicksQS - 1 /\ high \in 0..Quarters - 1 /\ busy \in 0..MaxBusy /\ MaxBusy \in Nat
  BY ClockAssumption DEF ClockTypeOK
<1>1. Now \in Ticks
  BY <1>0, ValueIs DEF Now
<1>2. CASE r = Whole
  <2>1. r.ticks = Now /\ ~r.torn /\ r.torn = FALSE /\ r.passed = 0 /\ low' = low /\ high' = high
    BY <1>2 DEF Whole, Reads, Now
  <2>2. Now' = Now
    BY <2>1 DEF Now, Value
  <2>3. Now % Width = Now /\ Now + 0 = Now
    BY <1>1, WidthIs, ModNear
  <2>4. busy + 0 = busy
    BY <1>0
  <2> QED
    BY <1>0, <1>1, <2>1, <2>2, <2>3, <2>4
<1>3. CASE \E v \in {Value(high, 0), Value(Overflown, low)} : r = TornAt(v)
  <2>1. PICK v \in {Value(high, 0), Value(Overflown, low)} : r = TornAt(v)
    BY <1>3
  <2>2. r.ticks = v /\ r.torn = TRUE /\ r.passed = 1 /\ low' = 0 /\ high' = Overflown
        /\ low = TicksQS - 1 /\ busy < MaxBusy
    BY <2>1 DEF TornAt, Reads, QuarterEnds
  <2>3. 0 \in 0..TicksQS - 1
    BY WidthIs
  <2>4. Overflown \in 0..Quarters - 1
    BY <1>0, WidthIs DEF Overflown
  <2>5. v \in Ticks
    BY <1>0, <2>1, <2>3, <2>4, ValueIs
  <2>6. Value(Overflown, 0) = (Value(high, low) + 1) % Width
    BY <1>0, <2>2, NextValue DEF Overflown
  <2>7. Now' = Value(Overflown, 0)
    BY <2>2 DEF Now, Value
  <2>8. busy + 1 \in 0..MaxBusy
    BY <1>0, <2>2
  <2>9. Overflown # high
    <3>1. CASE high + 1 = Quarters
      BY <1>0, <3>1, ClockAssumption DEF Overflown
    <3>2. CASE high + 1 # Quarters
      BY <1>0, <3>2, WidthIs DEF Overflown
    <3> QED
      BY <3>1, <3>2
  <2>10. \E t \in {TicksQS - 1, -TicksQS} : v = (Value(Overflown, 0) + t) % Width
    <3>1. CASE v = Value(high, 0)
      <4> DEFINE a == Value(high, low) + 1
                 o == Value(Overflown, 0)
                 u == -TicksQS
      <4>1. v = a + u /\ a \in Int /\ u \in Int
        BY <1>0, <2>2, <3>1, WidthIs DEF Value
      <4>2. o = a % Width
        BY <2>6
      <4> HIDE DEF a, o, u
      <4>3. ((a % Width) + u) % Width = (a + u) % Width
        BY <4>1, WidthIs, ModPlus
      <4>4. v % Width = v
        BY <2>5, WidthIs, ModNear
      <4>5. (o + u) % Width = v
        BY <4>1, <4>2, <4>3, <4>4
      <4> QED
        BY <4>5 DEF o, u
    <3>2. CASE v = Value(Overflown, low)
      <4>1. v = Value(Overflown, 0) + (TicksQS - 1)
        BY <2>2, <2>4, <3>2, WidthIs DEF Value
      <4>2. v % Width = v
        BY <2>5, WidthIs, ModNear
      <4> QED
        BY <4>1, <4>2
    <3> QED
      BY <2>1, <3>1, <3>2
  <2> QED
    BY <2>2, <2>3, <2>4, <2>5, <2>6, <2>7, <2>8, <2>9, <2>10 DEF Now
<1> QED
  BY <1>2, <1>3 DEF timer_getTicks

\* A tick adds one to the count.
LEMMA TickIs ==
  ASSUME ClockTypeOK, Tick
  PROVE  /\ low' \in 0..TicksQS - 1 /\ high' \in 0..Quarters - 1
         /\ Now' = (Now + 1) % Width
<1>0. low \in 0..TicksQS - 1 /\ high \in 0..Quarters - 1
  BY DEF ClockTypeOK
<1>1. low' = (low + 1) % TicksQS /\ high' = IF low = TicksQS - 1 THEN Overflown ELSE high
  BY DEF Tick, QuarterEnds
<1>2. Overflown \in 0..Quarters - 1
  BY <1>0, WidthIs DEF Overflown
<1>3. CASE low = TicksQS - 1
  <2>1. low' = 0
    BY <1>1, <1>3, WidthIs
  <2>2. high' = Overflown
    BY <1>1, <1>3
  <2>3. Value(Overflown, 0) = (Value(high, low) + 1) % Width
    BY <1>0, <1>3, NextValue DEF Overflown
  <2> QED
    BY <1>2, <2>1, <2>2, <2>3, WidthIs DEF Now, Value
<1>4. CASE low # TicksQS - 1
  <2>1. low + 1 \in 0..TicksQS - 1 /\ Value(high, low + 1) = (Value(high, low) + 1) % Width
    BY <1>0, <1>4, NextValue
  <2>2. low' = low + 1
    BY <1>1, <2>1, WidthIs, ModNear
  <2>3. high' = high
    BY <1>1, <1>4
  <2> QED
    BY <1>0, <2>1, <2>2, <2>3 DEF Now, Value
<1> QED
  BY <1>3, <1>4

\* A sleep adds its quarters.
LEMMA SleepIs ==
  ASSUME ClockTypeOK, NEW q \in Nat, high' = WoundOn(high, q), low' = low
  PROVE  high' \in 0..Quarters - 1 /\ Now' = (Now + q * TicksQS) % Width
<1>1. low \in 0..TicksQS - 1 /\ high \in 0..Quarters - 1
  BY DEF ClockTypeOK
<1>2. WoundOn(high, q) \in 0..Quarters - 1
      /\ Value(WoundOn(high, q), low) = (Value(high, low) + q * TicksQS) % Width
  BY <1>1, WoundValue
<1> QED
  BY <1>2 DEF Now, Value

\* The fields of torn, which an assignment to one leaves a pair.
LEMMA TornIs ==
  ASSUME torn \in [last : BOOLEAN, start : BOOLEAN], NEW b \in BOOLEAN
  PROVE  /\ [torn EXCEPT !.start = b] \in [last : BOOLEAN, start : BOOLEAN]
         /\ [torn EXCEPT !.start = b].start = b /\ [torn EXCEPT !.start = b].last = torn.last
         /\ [torn EXCEPT !.last = b] \in [last : BOOLEAN, start : BOOLEAN]
         /\ [torn EXCEPT !.last = b].last = b /\ [torn EXCEPT !.last = b].start = torn.start
         /\ torn.last \in BOOLEAN /\ torn.start \in BOOLEAN
OBVIOUS

\* The clock keeps its types.
LEMMA ClockTypes == ClockTypeOK /\ [ClockNext]_clock => ClockTypeOK'
<1> SUFFICES ASSUME ClockTypeOK, [ClockNext]_clock PROVE ClockTypeOK'
  OBVIOUS
<1>0. /\ low \in 0..TicksQS - 1 /\ high \in 0..Quarters - 1
      /\ last \in Ticks /\ start \in Ticks /\ at \in {"app", "delay", "check"}
      /\ busy \in 0..MaxBusy /\ age \in Nat /\ began \in 0..age
      /\ torn \in [last : BOOLEAN, start : BOOLEAN]
  BY DEF ClockTypeOK
<1>1. MaxBusy \in Nat /\ 0 \in Ticks
  BY ClockAssumption, WidthIs
<1>2. CASE Tick
  <2>1. low' \in 0..TicksQS - 1 /\ high' \in 0..Quarters - 1
    BY <1>2, TickIs
  <2>2. busy' \in 0..MaxBusy /\ age' \in Nat /\ began' \in 0..age'
    BY <1>0, <1>1, <1>2 DEF Tick
  <2>3. UNCHANGED <<last, start, at, began, torn>>
    BY <1>2 DEF Tick
  <2> QED
    BY <1>0, <2>1, <2>2, <2>3 DEF ClockTypeOK, Ticks, Width
<1>3. CASE DelayBegins
  <2>1. PICK r \in timer_getTicks :
          /\ Reads(r) /\ start' = r.ticks
          /\ age' = age + r.passed /\ busy' = busy + r.passed /\ began' = age'
          /\ torn' = [torn EXCEPT !.start = r.torn]
    BY <1>3 DEF DelayBegins
  <2>2. /\ r.ticks \in Ticks /\ r.torn \in BOOLEAN /\ r.passed \in {0, 1}
        /\ low' \in 0..TicksQS - 1 /\ high' \in 0..Quarters - 1
        /\ busy + r.passed \in 0..MaxBusy
    BY <2>1, ReadIs
  <2>3. age' \in Nat /\ began' \in 0..age'
    BY <1>0, <2>1, <2>2
  <2>4. torn' \in [last : BOOLEAN, start : BOOLEAN]
    BY <1>0, <2>1, <2>2, TornIs
  <2>5. at' = "delay" /\ last' = last
    BY <1>3 DEF DelayBegins
  <2> QED
    BY <1>0, <2>1, <2>2, <2>3, <2>4, <2>5 DEF ClockTypeOK, Ticks, Width
<1>4. CASE DelayLoops
  <2>1. PICK r \in timer_getTicks :
          /\ Reads(r) /\ age' = age + r.passed /\ busy' = busy + r.passed
          /\ at' = IF Since(start, r.ticks) <= DelayTicks THEN "delay" ELSE "check"
          /\ torn' = [torn EXCEPT !.start = @ \/ r.torn]
    BY <1>4 DEF DelayLoops
  <2>2. /\ r.ticks \in Ticks /\ r.torn \in BOOLEAN /\ r.passed \in {0, 1}
        /\ low' \in 0..TicksQS - 1 /\ high' \in 0..Quarters - 1
        /\ busy + r.passed \in 0..MaxBusy
    BY <2>1, ReadIs
  <2>3. age' \in Nat /\ began \in 0..age'
    BY <1>0, <2>1, <2>2
  <2>4. torn' \in [last : BOOLEAN, start : BOOLEAN]
    <3>1. torn' = [torn EXCEPT !.start = torn.start \/ r.torn]
      BY <2>1
    <3>2. (torn.start \/ r.torn) \in BOOLEAN
      OBVIOUS
    <3> QED
      BY <1>0, <3>1, <3>2, TornIs
  <2>5. at' \in {"app", "delay", "check"} /\ UNCHANGED <<last, start, began>>
    BY <1>4, <2>1 DEF DelayLoops
  <2> QED
    BY <1>0, <2>1, <2>2, <2>3, <2>4, <2>5 DEF ClockTypeOK, Ticks, Width
<1>5. CASE sleep_powersave
  <2>1. PICK q \in Naps : \E slept \in 0..q * TicksQS :
          high' = WoundOn(high, q) /\ age' = age + slept
    BY <1>5 DEF sleep_powersave
  <2>2. PICK slept \in 0..q * TicksQS : high' = WoundOn(high, q) /\ age' = age + slept
    BY <2>1
  <2>3. q \in Nat /\ slept \in Nat
    BY ClockAssumption
  <2>4. high' \in 0..Quarters - 1
    BY <1>5, <2>2, <2>3, SleepIs DEF sleep_powersave
  <2>5. age' \in Nat /\ began \in 0..age'
    BY <1>0, <2>2, <2>3
  <2>6. at' = "check" /\ UNCHANGED <<low, last, start, busy, began, torn>>
    BY <1>5 DEF sleep_powersave
  <2> QED
    BY <1>0, <2>4, <2>5, <2>6 DEF ClockTypeOK, Ticks, Width
<1>6. CASE AppReturns
  <2>1. at' = "check" /\ UNCHANGED <<low, high, last, start, busy, age, began, torn>>
    BY <1>6 DEF AppReturns
  <2> QED
    BY <1>0, <2>1 DEF ClockTypeOK, Ticks, Width
<1>7. CASE os_bg
  <2>1. PICK r \in timer_getTicks :
          /\ Reads(r)
          /\ last' = IF Second(r) THEN r.ticks ELSE last
          /\ age' = IF Second(r) THEN 0 ELSE age + r.passed
          /\ torn' = [torn EXCEPT !.last = IF Second(r) THEN r.torn ELSE @]
    BY <1>7 DEF os_bg
  <2>2. /\ r.ticks \in Ticks /\ r.torn \in BOOLEAN /\ r.passed \in {0, 1}
        /\ low' \in 0..TicksQS - 1 /\ high' \in 0..Quarters - 1
    BY <2>1, ReadIs
  <2>3. last' \in Ticks /\ age' \in Nat
    BY <1>0, <2>1, <2>2
  <2>4. torn' \in [last : BOOLEAN, start : BOOLEAN]
    <3>1. torn' = [torn EXCEPT !.last = IF Second(r) THEN r.torn ELSE torn.last]
      BY <2>1
    <3>2. (IF Second(r) THEN r.torn ELSE torn.last) \in BOOLEAN
      BY <1>0, <2>2, TornIs
    <3> QED
      BY <1>0, <3>1, <3>2, TornIs
  <2>5. at' = "app" /\ start' = 0 /\ began' = 0 /\ busy' = 0
    BY <1>7 DEF os_bg
  <2> QED
    BY <1>1, <2>2, <2>3, <2>4, <2>5 DEF ClockTypeOK, Ticks, Width
<1>8. CASE UNCHANGED clock
  BY <1>0, <1>8 DEF ClockTypeOK, Ticks, Width, clock
<1> QED
  BY <1>2, <1>3, <1>4, <1>5, <1>6, <1>7, <1>8 DEF ClockNext

-----------------------------------------------------------------------------
(* The second.                                                              *)

\* The time on the clock since lastTicks_1hz, of which timer_toMS gets a
\* remainder: it goes round, and is ahead or behind by what was torn.
Elapsed == Since(last, Now)
Shows(m) == Elapsed = m % Width

\* What the clock may lag behind the time that has gone.
Lag == IF torn.last THEN TicksQS ELSE 0

\* m ticks on the clock, of which b since os_bg looked and q quarters slept.
NotYet(m, b, q) == (m - b - q * TicksQS) * MsQS < (SecondMS + 1 + MsQS) * TicksQS

SecondInv ==
  \E m \in Int, q \in Naps \cup {0} :
    /\ Shows(m) /\ age <= m + Lag
    /\ at # "check" => q = 0
    /\ NotYet(m, busy, q)

DelayInv ==
  at = "delay" /\ ~torn.start => Since(start, Now) <= age - began

ClockInv == ClockTypeOK /\ SecondInv /\ DelayInv

\* With no second passed, the counter has not gone round, not even if it is
\* read a quarter ahead.
LEMMA NotRound ==
  ASSUME NapsFit, NEW m \in Int, NEW b \in 0..MaxBusy, NEW q \in Naps \cup {0}, NotYet(m, b, q)
  PROVE  m + TicksQS < Width
<1>1. q \in Nat /\ MaxBusy \in Nat /\ SecondMS \in Nat
  BY ClockAssumption
<1> DEFINE c == q * TicksQS
           s == (SecondMS + 1 + MsQS) * TicksQS
           p == MsQS * TicksQS
<1>2. c \in Nat /\ s \in Int /\ p \in Int
  BY <1>1, WidthIs
<1>3. s + p + (MaxBusy + c) * MsQS <= Width * MsQS
  <2>1. (SecondMS + 1 + 2 * MsQS) * TicksQS = s + p
    BY <1>1, WidthIs
  <2>2. (SecondMS + 1 + 2 * MsQS) * TicksQS + (MaxBusy + c) * MsQS <= Width * MsQS
    BY DEF NapsFit
  <2> QED
    BY <2>1, <2>2
<1>4. (m - b - c) * MsQS < s
  BY DEF NotYet
<1>a. TicksQS * MsQS = p
  BY WidthIs
<1> HIDE DEF c, s, p
<1>5. (b + c) * MsQS <= (MaxBusy + c) * MsQS
  BY <1>1, <1>2, WidthIs, TimesOrder
<1>6. (m + TicksQS) * MsQS = (m - b - c) * MsQS + (b + c) * MsQS + TicksQS * MsQS
  BY <1>1, <1>2, WidthIs
<1>7. (m + TicksQS) * MsQS < Width * MsQS
  <2> DEFINE x == (m - b - c) * MsQS
             y == (b + c) * MsQS
             z == (MaxBusy + c) * MsQS
             w == Width * MsQS
             v == (m + TicksQS) * MsQS
  <2>1. x \in Int /\ y \in Int /\ z \in Int /\ w \in Int /\ v \in Int
    BY <1>1, <1>2, WidthIs
  <2>2. s + p + z <= w /\ x < s /\ y <= z /\ v = x + y + p
    BY <1>3, <1>4, <1>5, <1>6, <1>a
  <2> HIDE DEF x, y, z, w, v
  <2>3. v < w
    BY <1>2, <2>1, <2>2
  <2> QED
    BY <2>3 DEF v, w
<1> QED
  BY <1>7, WidthIs, TimesOrder

\* Time that passes is shown.
LEMMA ShownLater ==
  ASSUME ClockTypeOK, last' = last, NEW d \in Int, Now' = (Now + d) % Width,
         NEW m \in Int, Shows(m)
  PROVE  Shows(m + d)'
<1>1. last \in Int /\ Now \in Int
  BY ValueIs, WidthIs DEF ClockTypeOK, Now
<1> DEFINE n == Now
           l == last
<1>2. (n - l) % Width = m % Width
  BY DEF Shows, Elapsed, Since
<1>3. Elapsed' = (((n + d) % Width) - l) % Width
  BY DEF Elapsed, Since
<1>4. n \in Int /\ l \in Int
  BY <1>1
<1> HIDE DEF n, l
<1>5. (((n + d) % Width) - l) % Width = ((n + d) - l) % Width
  <2> DEFINE z == n + d
  <2>1. z \in Int
    BY <1>4
  <2> HIDE DEF z
  <2>2. ((z % Width) - l) % Width = (z - l) % Width
    BY <1>4, <2>1, WidthIs, ModPlus
  <2> QED
    BY <2>2 DEF z
<1>6. (n + d) - l = (n - l) + d /\ n - l \in Int
  BY <1>4
<1>7. ((n - l) + d) % Width = (((n - l) % Width) + d) % Width
  BY <1>6, WidthIs, ModPlus
<1>8. ((m % Width) + d) % Width = (m + d) % Width
  BY WidthIs, ModPlus
<1>9. Elapsed' = (m + d) % Width
  BY <1>2, <1>3, <1>5, <1>6, <1>7, <1>8
<1> QED
  BY <1>9 DEF Shows

\* The same of a delay, which only has to measure no more.
LEMMA DelayLater ==
  ASSUME ClockTypeOK, start' = start, NEW d \in Nat, Now' = (Now + d) % Width,
         age' = age + d, began' = began, Since(start, Now) <= age - began
  PROVE  Since(start', Now') <= age' - began'
<1>1. start \in Ticks /\ Now \in Ticks /\ age \in Nat /\ began \in Int
  BY ValueIs DEF ClockTypeOK, Now
<1>2. Since(start, (Now + d) % Width) <= Since(start, Now) + d
      /\ Since(start, (Now + d) % Width) \in Int
  <2>1. (Now + d) % Width \in Ticks /\ Since(start, (Now + d) % Width) <= Since(start, Now) + d
    BY <1>1, SinceLater
  <2> QED
    BY <1>1, <2>1, SinceIs, WidthIs
<1>3. Since(start, Now) \in Int
  BY <1>1, SinceIs, WidthIs
<1> QED
  BY <1>1, <1>2, <1>3

\* A tick, or a reading torn by one, before os_bg has looked.
LEMMA SecondTicks ==
  ASSUME ClockTypeOK, SecondInv, last' = last, torn'.last = torn.last,
         NEW p \in Nat, Now' = (Now + p) % Width, age' = age + p, busy' = busy + p,
         at' # "check" => at # "check"
  PROVE  SecondInv'
<1>1. age \in Nat /\ busy \in Int /\ Lag' = Lag /\ Lag \in Nat
  BY WidthIs DEF ClockTypeOK, Lag
<1>2. PICK m \in Int, q \in Naps \cup {0} :
        /\ Shows(m) /\ age <= m + Lag
        /\ at # "check" => q = 0
        /\ NotYet(m, busy, q)
  BY DEF SecondInv
<1>3. (m + p) - (busy + p) = m - busy /\ m + p \in Int
  BY <1>1
<1>4. NotYet(m + p, busy + p, q)
  BY <1>2, <1>3 DEF NotYet
<1>5. Shows(m + p)'
  BY <1>2, ShownLater
<1>6. age' <= m + p + Lag'
  BY <1>1, <1>2
<1> QED
  BY <1>2, <1>3, <1>4, <1>5, <1>6 DEF SecondInv, NotYet

\* What os_bg reads is t ticks off.
LEMMA ReadOff ==
  ASSUME ClockTypeOK, ClockTypeOK', NEW r \in timer_getTicks, Reads(r)
  PROVE  \E t \in -TicksQS..TicksQS - 1 :
           /\ r.ticks = (Now' + t) % Width
           /\ Now' = (Now + r.passed) % Width /\ r.passed \in {0, 1} /\ r.torn \in BOOLEAN
           /\ busy + r.passed \in 0..MaxBusy
           /\ ~r.torn => t = 0
           /\ r.torn => r.passed = 1 /\ high' # high
<1>1. CASE r.torn
  BY <1>1, ReadIs, WidthIs
<1>2. CASE ~r.torn
  <2>1. r.ticks = Now /\ Now' = Now
    BY <1>2, ReadIs
  <2>2. PICK n \in Ticks : n = Now'
    BY ValueIs DEF ClockTypeOK, Now
  <2>3. (n + 0) % Width = n /\ 0 \in -TicksQS..TicksQS - 1
    BY WidthIs, ModNear
  <2> QED
    BY <2>1, <2>2, <2>3, ReadIs
<1> QED
  BY <1>1, <1>2, ReadIs

\* If that is a second, the clock shows -t from then on.
LEMMA SecondRead ==
  ASSUME ClockTypeOK', NEW t \in Int, last' = (Now' + t) % Width
  PROVE  Shows(-t)'
<1>1. Now' \in Int
  BY ValueIs, WidthIs DEF ClockTypeOK, Now
<1>2. PICK n \in Int : n = Now'
  BY <1>1
<1>3. Elapsed' = (n - ((n + t) % Width)) % Width
  BY <1>2 DEF Elapsed, Since
<1>4. (n - ((n + t) % Width)) % Width = (n - (n + t)) % Width
  BY WidthIs, ModPlus
<1>5. n - (n + t) = -t
  OBVIOUS
<1> QED
  BY <1>3, <1>4, <1>5 DEF Shows

\* A second that is over on the clock, and by t ticks more if it is read t
\* behind, is seen to be.
LEMMA SecondSeen ==
  ASSUME NEW old \in Ticks, NEW n \in Ticks, NEW m \in Int, Since(old, n) = m % Width,
         NEW t \in -TicksQS..TicksQS - 1, NEW v, v = (n + t) % Width,
         m + t < Width, m + t >= 0, (m + t) * MsQS >= (SecondMS + 1) * TicksQS
  PROVE  timer_toMS(old, v) > SecondMS
<1>1. old \in Int /\ n \in Int /\ t \in Int /\ n + t \in Int
  BY WidthIs
<1>2. v \in Ticks
  BY <1>1, WidthIs
<1>3. Since(old, v) = (m + t) % Width
  <2>1. Since(old, v) = (((n + t) % Width) - old) % Width /\ (n - old) % Width = m % Width
    BY DEF Since
  <2>2. (((n + t) % Width) - old) % Width = ((n + t) - old) % Width
    <3> DEFINE z == n + t
    <3>1. z \in Int
      BY <1>1
    <3> HIDE DEF z
    <3>2. ((z % Width) - old) % Width = (z - old) % Width
      BY <1>1, <3>1, WidthIs, ModPlus
    <3> QED
      BY <3>2 DEF z
  <2>3. (n + t) - old = (n - old) + t /\ n - old \in Int
    BY <1>1
  <2>4. ((n - old) + t) % Width = (((n - old) % Width) + t) % Width
    BY <1>1, <2>3, WidthIs, ModPlus
  <2>5. ((m % Width) + t) % Width = (m + t) % Width
    BY <1>1, WidthIs, ModPlus
  <2> QED
    BY <2>1, <2>2, <2>3, <2>4, <2>5
<1>4. m + t \in 0..Width - 1
  BY <1>1, WidthIs
<1>5. Since(old, v) = m + t
  BY <1>3, <1>4, WidthIs, ModNear
<1> QED
  BY <1>2, <1>5, ToMSOver

\* So when os_bg sees no second, none is over by what it read, and less than a
\* second and a quarter on the clock.
LEMMA SecondNotYet ==
  ASSUME NapsFit, ClockTypeOK, ClockTypeOK', NEW m \in Int, last' = last,
         NEW p \in {0, 1}, Shows(m + p)', busy + p \in 0..MaxBusy,
         NEW q \in Naps \cup {0}, NotYet(m, busy, q),
         NEW t \in -TicksQS..TicksQS - 1, NEW v, v = (Now' + t) % Width,
         ~(timer_toMS(last, v) > SecondMS)
  PROVE  /\ (m + p + t) * MsQS < (SecondMS + 1) * TicksQS
         /\ (m + p) * MsQS < (SecondMS + 1 + MsQS) * TicksQS
<1> DEFINE e == m + p
           s == (SecondMS + 1) * TicksQS
           u == (SecondMS + 1 + MsQS) * TicksQS
<1>0. busy \in Int /\ t \in Int /\ e \in Int /\ last \in Ticks
  BY WidthIs DEF ClockTypeOK
<1>1. e + TicksQS < Width
  <2>1. (m + p) - (busy + p) = m - busy
    BY <1>0
  <2>2. NotYet(m + p, busy + p, q)
    BY <2>1 DEF NotYet
  <2> QED
    BY <1>0, <2>2, NotRound
<1>2. PICK n \in Ticks : n = Now'
  BY ValueIs DEF ClockTypeOK, Now
<1>3. Since(last, n) = e % Width
  BY <1>2 DEF Shows, Elapsed, Since
<1>4. s \in Nat /\ s > 0 /\ u \in Int /\ u = s + TicksQS * MsQS /\ TicksQS * MsQS \in Int
  BY ClockAssumption, WidthIs
<1>5. e * MsQS \in Int /\ (e + t) * MsQS \in Int /\ (e + TicksQS) * MsQS \in Int
  BY <1>0, WidthIs
<1>a. ~(e + t >= 0 /\ (e + t) * MsQS >= s)
  <2>1. e + t < Width
    BY <1>0, <1>1, WidthIs
  <2> QED
    BY <1>0, <1>2, <1>3, <2>1, SecondSeen
<1> HIDE DEF e, s, u
<1>6. (e + t) * MsQS < s
  <2>1. CASE e + t >= 0
    BY <1>4, <1>5, <1>a, <2>1
  <2>2. CASE ~(e + t >= 0)
    <3>1. (e + t) * MsQS <= 0 * MsQS
      BY <1>0, <2>2, WidthIs, TimesOrder
    <3>2. 0 * MsQS = 0
      BY WidthIs
    <3> QED
      BY <1>4, <1>5, <3>1, <3>2
  <2> QED
    BY <2>1, <2>2
<1>7. e * MsQS = (e + t) * MsQS - t * MsQS /\ t * MsQS \in Int
  BY <1>0, WidthIs
<1>8. -(t * MsQS) <= TicksQS * MsQS
  <2>1. (-t) * MsQS <= TicksQS * MsQS
    BY <1>0, WidthIs, TimesOrder
  <2>2. (-t) * MsQS = -(t * MsQS)
    BY <1>0, WidthIs
  <2> QED
    BY <2>1, <2>2
<1>9. e * MsQS < u
  BY <1>4, <1>5, <1>6, <1>7, <1>8
<1> QED
  BY <1>6, <1>9 DEF e, s, u

\* The invariant of the clock is inductive.
LEMMA ClockKept == NapsFit /\ ClockInv /\ [ClockNext]_clock => ClockInv'
<1> SUFFICES ASSUME NapsFit, ClockInv, [ClockNext]_clock PROVE ClockInv'
  OBVIOUS
<1>1. ClockTypeOK'
  BY ClockTypes DEF ClockInv
<1>0. /\ ClockTypeOK /\ SecondInv /\ DelayInv
      /\ age \in Nat /\ began \in 0..age /\ last \in Ticks /\ start \in Ticks
      /\ busy \in 0..MaxBusy /\ MaxBusy \in Nat /\ Naps \subseteq Nat
      /\ torn \in [last : BOOLEAN, start : BOOLEAN] /\ Now \in Ticks
  BY ClockAssumption, ValueIs DEF ClockInv, ClockTypeOK, Now
<1>2. CASE Tick
  <2>1. /\ busy < MaxBusy /\ busy' = busy + 1 /\ age' = age + 1
        /\ UNCHANGED <<last, start, at, began, torn>> /\ busy + 1 \in 0..MaxBusy
    BY <1>0, <1>2 DEF Tick
  <2>2. Now' = (Now + 1) % Width
    BY <1>0, <1>2, TickIs
  <2>3. SecondInv'
    BY <1>0, <2>1, <2>2, SecondTicks
  <2>4. DelayInv'
    <3> SUFFICES ASSUME at' = "delay", ~torn'.start
                 PROVE  Since(start', Now') <= age' - began'
      BY DEF DelayInv, Since
    <3>1. Since(start, Now) <= age - began
      BY <1>0, <2>1 DEF DelayInv
    <3> QED
      BY <1>0, <2>1, <2>2, <3>1, DelayLater
  <2> QED
    BY <1>1, <2>3, <2>4 DEF ClockInv
<1>3. CASE DelayBegins
  <2>1. PICK r \in timer_getTicks :
          /\ Reads(r) /\ start' = r.ticks
          /\ age' = age + r.passed /\ busy' = busy + r.passed /\ began' = age'
          /\ torn' = [torn EXCEPT !.start = r.torn]
    BY <1>3 DEF DelayBegins
  <2>2. at = "app" /\ at' = "delay" /\ last' = last
    BY <1>3 DEF DelayBegins
  <2>3. /\ r.ticks \in Ticks /\ r.torn \in BOOLEAN /\ r.passed \in {0, 1} /\ r.passed \in Nat
        /\ busy + r.passed \in 0..MaxBusy /\ Now' = (Now + r.passed) % Width
        /\ ~r.torn => r.ticks = Now /\ r.passed = 0 /\ Now' = Now
    BY <1>0, <2>1, ReadIs
  <2>4. torn'.start = r.torn /\ torn'.last = torn.last
    BY <1>0, <2>1, <2>3, TornIs
  <2>5. SecondInv'
    BY <1>0, <2>1, <2>2, <2>3, <2>4, SecondTicks
  <2>6. DelayInv'
    <3> SUFFICES ASSUME ~torn'.start
                 PROVE  Since(start', Now') <= age' - began'
      BY DEF DelayInv, Since
    <3>1. start' = Now /\ Now' = Now /\ age' - began' = 0
      BY <1>0, <2>1, <2>3, <2>4
    <3>2. Since(Now, Now) = 0
      BY <1>0, SinceIs, WidthIs
    <3> QED
      BY <3>1, <3>2
  <2> QED
    BY <1>1, <2>5, <2>6 DEF ClockInv
<1>4. CASE DelayLoops
  <2>1. PICK r \in timer_getTicks :
          /\ Reads(r) /\ age' = age + r.passed /\ busy' = busy + r.passed
          /\ at' = IF Since(start, r.ticks) <= DelayTicks THEN "delay" ELSE "check"
          /\ torn' = [torn EXCEPT !.start = @ \/ r.torn]
    BY <1>4 DEF DelayLoops
  <2>2. at = "delay" /\ UNCHANGED <<last, start, began>>
    BY <1>4 DEF DelayLoops
  <2>3. /\ r.ticks \in Ticks /\ r.torn \in BOOLEAN /\ r.passed \in {0, 1} /\ r.passed \in Nat
        /\ busy + r.passed \in 0..MaxBusy /\ Now' = (Now + r.passed) % Width
        /\ ~r.torn => r.ticks = Now /\ r.passed = 0 /\ Now' = Now
    BY <1>0, <2>1, ReadIs
  <2>4. torn'.start = (torn.start \/ r.torn) /\ torn'.last = torn.last
    <3>1. torn' = [torn EXCEPT !.start = torn.start \/ r.torn]
      BY <2>1
    <3>2. (torn.start \/ r.torn) \in BOOLEAN
      OBVIOUS
    <3> QED
      BY <1>0, <3>1, <3>2, TornIs
  <2>5. SecondInv'
    BY <1>0, <2>1, <2>2, <2>3, <2>4, SecondTicks
  <2>6. DelayInv'
    <3> SUFFICES ASSUME at' = "delay", ~torn'.start
                 PROVE  Since(start', Now') <= age' - began'
      BY DEF DelayInv, Since
    <3>1. ~torn.start
      BY <2>4
    <3>2. Since(start, Now) <= age - began
      BY <1>0, <2>2, <3>1 DEF DelayInv
    <3> QED
      BY <1>0, <2>1, <2>2, <2>3, <3>2, DelayLater
  <2> QED
    BY <1>1, <2>5, <2>6 DEF ClockInv
<1>5. CASE sleep_powersave
  <2>1. PICK n \in Naps : \E slept \in 0..n * TicksQS :
          high' = WoundOn(high, n) /\ age' = age + slept
    BY <1>5 DEF sleep_powersave
  <2>2. PICK slept \in 0..n * TicksQS : high' = WoundOn(high, n) /\ age' = age + slept
    BY <2>1
  <2>3. at = "app" /\ at' = "check" /\ UNCHANGED <<low, last, start, busy, began, torn>>
    BY <1>5 DEF sleep_powersave
  <2>4. n \in Nat /\ n * TicksQS \in Nat
    BY <1>0, WidthIs
  <2>5. Now' = (Now + n * TicksQS) % Width
    BY <1>0, <2>2, <2>3, <2>4, SleepIs
  <2>6. SecondInv'
    <3>1. PICK m \in Int : Shows(m) /\ age <= m + Lag /\ NotYet(m, busy, 0)
      <4>1. PICK m \in Int, q \in Naps \cup {0} :
              Shows(m) /\ age <= m + Lag /\ NotYet(m, busy, q) /\ q = 0
        BY <1>0, <2>3 DEF SecondInv
      <4> QED
        BY <4>1
    <3>2. Lag' = Lag /\ Lag \in Nat
      BY <2>3, WidthIs DEF Lag
    <3> DEFINE c == n * TicksQS
    <3>3. (m + c) - busy - c = m - busy - 0 * TicksQS /\ m + c \in Int
      BY <1>0, <2>4, WidthIs
    <3>4. NotYet(m + c, busy, n)
      BY <3>1, <3>3 DEF NotYet
    <3>5. Shows(m + c)'
      BY <1>0, <2>3, <2>4, <2>5, <3>1, ShownLater
    <3>6. slept <= c /\ slept \in Int /\ c \in Nat
      BY <2>4
    <3> HIDE DEF c
    <3>7. age' <= m + c + Lag'
      BY <1>0, <2>2, <3>1, <3>2, <3>6
    <3> QED
      BY <2>3, <3>3, <3>4, <3>5, <3>7 DEF SecondInv, NotYet
  <2>7. DelayInv'
    BY <2>3 DEF DelayInv
  <2> QED
    BY <1>1, <2>6, <2>7 DEF ClockInv
<1>6. CASE AppReturns
  <2>1. /\ at = "app" /\ at' = "check"
        /\ UNCHANGED <<low, high, last, start, busy, age, began, torn>>
    BY <1>6 DEF AppReturns
  <2>2. Now' = Now /\ Elapsed' = Elapsed
    BY <2>1 DEF Now, Elapsed, Value, Since
  <2>3. SecondInv'
    BY <1>0, <2>1, <2>2 DEF SecondInv, NotYet, Shows, Lag
  <2>4. DelayInv'
    BY <2>1 DEF DelayInv
  <2> QED
    BY <1>1, <2>3, <2>4 DEF ClockInv
<1>7. CASE os_bg
  <2>1. PICK r \in timer_getTicks :
          /\ Reads(r)
          /\ last' = IF Second(r) THEN r.ticks ELSE last
          /\ age' = IF Second(r) THEN 0 ELSE age + r.passed
          /\ torn' = [torn EXCEPT !.last = IF Second(r) THEN r.torn ELSE @]
    BY <1>7 DEF os_bg
  <2>2. at = "check" /\ at' = "app" /\ busy' = 0
    BY <1>7 DEF os_bg
  <2>3. PICK t \in -TicksQS..TicksQS - 1 :
          /\ r.ticks = (Now' + t) % Width
          /\ Now' = (Now + r.passed) % Width /\ r.passed \in {0, 1} /\ r.torn \in BOOLEAN
          /\ busy + r.passed \in 0..MaxBusy
          /\ ~r.torn => t = 0
    BY <1>0, <1>1, <2>1, ReadOff
  <2>4. torn'.last = IF Second(r) THEN r.torn ELSE torn.last
    <3>1. torn' = [torn EXCEPT !.last = IF Second(r) THEN r.torn ELSE torn.last]
      BY <2>1
    <3>2. (IF Second(r) THEN r.torn ELSE torn.last) \in BOOLEAN
      BY <1>0, <2>3, TornIs
    <3> QED
      BY <1>0, <3>1, <3>2, TornIs
  <2>5. SecondInv'
    <3>1. CASE Second(r)
      <4>1. Shows(-t)'
        BY <1>0, <1>1, <2>1, <2>3, <3>1, SecondRead
      <4>2. age' <= -t + Lag'
        BY <2>1, <2>3, <2>4, <3>1, WidthIs DEF Lag
      <4>3. (-t - 0 - 0 * TicksQS) * MsQS < (SecondMS + 1 + MsQS) * TicksQS
        <5>1. -t - 0 - 0 * TicksQS = -t /\ -t \in Int
          BY WidthIs
        <5>2. (-t) * MsQS <= TicksQS * MsQS
          BY WidthIs, <5>1, TimesOrder
        <5>3. (SecondMS + 1 + MsQS) * TicksQS = (SecondMS + 1) * TicksQS + TicksQS * MsQS
          BY ClockAssumption, WidthIs
        <5>4. (SecondMS + 1) * TicksQS > 0 /\ TicksQS * MsQS \in Int /\ (-t) * MsQS \in Int
              /\ (SecondMS + 1) * TicksQS \in Int
          BY <5>1, ClockAssumption, WidthIs
        <5> HIDE DEF Second
        <5> QED
          BY <5>1, <5>2, <5>3, <5>4
      <4> QED
        BY <2>2, <4>1, <4>2, <4>3 DEF SecondInv, NotYet
    <3>2. CASE ~Second(r)
      <4>1. last' = last /\ age' = age + r.passed /\ Lag' = Lag
        BY <2>1, <2>4, <3>2 DEF Lag
      <4>2. PICK m \in Int, q \in Naps \cup {0} :
              Shows(m) /\ age <= m + Lag /\ NotYet(m, busy, q)
        BY <1>0 DEF SecondInv
      <4>3. Shows(m + r.passed)'
        BY <1>0, <2>3, <4>1, <4>2, ShownLater
      <4>4. Lag \in Nat /\ m + r.passed \in Int
        BY <2>3, WidthIs DEF Lag
      <4>5. age' <= m + r.passed + Lag'
        BY <1>0, <2>3, <4>1, <4>2, <4>4
      <4>6. (m + r.passed) * MsQS < (SecondMS + 1 + MsQS) * TicksQS
        <5>1. PICK p \in {0, 1} : p = r.passed
          BY <2>3
        <5>2. ~(timer_toMS(last, r.ticks) > SecondMS)
          BY <3>2 DEF Second
        <5>3. Shows(m + p)' /\ busy + p \in 0..MaxBusy
          BY <2>3, <4>3, <5>1 DEF Shows
        <5> QED
          BY <1>0, <1>1, <2>3, <4>1, <4>2, <5>1, <5>2, <5>3, SecondNotYet
      <4>7. NotYet(m + r.passed, 0, 0)
        <5>1. (m + r.passed) - 0 - 0 * TicksQS = m + r.passed
          BY <4>4, WidthIs
        <5> QED
          BY <4>6, <5>1 DEF NotYet
      <4> QED
        BY <2>2, <4>3, <4>4, <4>5, <4>7 DEF SecondInv, NotYet
    <3> QED
      BY <3>1, <3>2
  <2>6. DelayInv'
    BY <2>2 DEF DelayInv
  <2> QED
    BY <1>1, <2>5, <2>6 DEF ClockInv
<1>8. CASE UNCHANGED clock
  <2>1. UNCHANGED <<low, high, last, start, at, busy, age, began, torn>>
    BY <1>8 DEF clock
  <2>2. Now' = Now /\ Elapsed' = Elapsed
    BY <2>1 DEF Now, Elapsed, Value, Since
  <2>3. SecondInv' /\ DelayInv'
    BY <1>0, <2>1, <2>2 DEF SecondInv, DelayInv, NotYet, Since, Shows, Lag
  <2> QED
    BY <1>1, <2>3 DEF ClockInv
<1> QED
  BY <1>2, <1>3, <1>4, <1>5, <1>6, <1>7, <1>8 DEF ClockNext

-----------------------------------------------------------------------------
(* A step of the device is one of its clock or one of its switch sketch.    *)

ClockStep == [ClockNext]_clock
SketchStep == [SketchNext]_sketch

\* A step of the device moves the clock, or the sketch.
LEMMA StepIs == [Next]_vars => ClockStep /\ SketchStep /\ UNCHANGED sketchfile
<1> SUFFICES ASSUME [Next]_vars PROVE ClockStep /\ SketchStep /\ UNCHANGED sketchfile
  OBVIOUS
<1>1. CASE UNCHANGED vars
  BY <1>1 DEF vars, ClockStep, SketchStep
<1>2. CASE Next
  BY <1>2, Zenon DEF Next, ClockStep, SketchStep
<1> QED
  BY <1>1, <1>2

\* timer_init and os.c's statics: nothing has passed and nothing is slept.
LEMMA ClockStarts == ClockInit => ClockInv
<1> SUFFICES ASSUME ClockInit PROVE ClockInv
  OBVIOUS
<1>1. 0 \in Ticks /\ 0 \in 0..TicksQS - 1 /\ 0 \in 0..Quarters - 1 /\ 0 \in 0..MaxBusy
  BY ClockAssumption, WidthIs
<1>2. ClockTypeOK
  BY <1>1 DEF ClockInit, ClockTypeOK
<1>3. Now = 0 /\ last = 0 /\ at = "app" /\ age = 0 /\ busy = 0
  BY WidthIs DEF ClockInit, Now, Value
<1>4. Elapsed = 0
  BY <1>1, <1>3, SinceIs DEF Elapsed
<1>5. NotYet(0, 0, 0)
  <2>1. 0 - 0 - 0 * TicksQS = 0 /\ 0 * MsQS = 0
    BY WidthIs
  <2>2. (SecondMS + 1 + MsQS) * TicksQS > 0
    BY ClockAssumption, WidthIs
  <2> QED
    BY <2>1, <2>2 DEF NotYet
<1>6. SecondInv
  <2>1. 0 % Width = 0
    BY <1>1, WidthIs, ModNear
  <2>2. Shows(0) /\ age <= 0 + Lag
    BY <1>3, <1>4, <2>1, WidthIs DEF Shows, Lag
  <2> QED
    BY <1>3, <1>5, <2>2 DEF SecondInv
<1>7. DelayInv
  BY <1>3 DEF DelayInv
<1> QED
  BY <1>2, <1>6, <1>7 DEF ClockInv

\* What os_bg and a delay find, from the invariant.
LEMMA ClockKeeps ==
  ASSUME NapsFit, ClockInv, ClockStep
  PROVE  [/\ Turned => InTime
          /\ DelayOver /\ ~torn'.start => age' - began > DelayTicks]_clock
<1>0. /\ ClockTypeOK /\ SecondInv /\ DelayInv /\ ClockTypeOK'
      /\ age \in Nat /\ began \in 0..age /\ last \in Ticks /\ start \in Ticks
      /\ torn \in [last : BOOLEAN, start : BOOLEAN] /\ Now \in Ticks
  BY ClockTypes, ValueIs DEF ClockInv, ClockStep, ClockTypeOK, Now
<1> SUFFICES ASSUME ClockNext
             PROVE  /\ Turned => InTime
                    /\ DelayOver /\ ~torn'.start => age' - began > DelayTicks
  BY DEF ClockStep
<1>1. ASSUME Turned, age * MsQS > (SecondMS + 1 + Off) * TicksQS
      PROVE  age' = 0
  <2>1. os_bg
    BY <1>1 DEF Turned, ClockNext, Tick, DelayBegins, DelayLoops, sleep_powersave, AppReturns
  <2>2. PICK r \in timer_getTicks :
          /\ Reads(r)
          /\ last' = IF Second(r) THEN r.ticks ELSE last
          /\ age' = IF Second(r) THEN 0 ELSE age + r.passed
    BY <2>1 DEF os_bg
  <2>3. SUFFICES ASSUME ~Second(r) PROVE FALSE
    BY <2>2
  <2>4. PICK t \in -TicksQS..TicksQS - 1 :
          /\ r.ticks = (Now' + t) % Width
          /\ Now' = (Now + r.passed) % Width /\ r.passed \in {0, 1} /\ r.torn \in BOOLEAN
          /\ busy + r.passed \in 0..MaxBusy
          /\ ~r.torn => t = 0
          /\ r.torn => r.passed = 1 /\ high' # high
    BY <1>0, <2>2, ReadOff
  <2>5. PICK m \in Int, q \in Naps \cup {0} :
          Shows(m) /\ age <= m + Lag /\ NotYet(m, busy, q)
    BY <1>0 DEF SecondInv
  <2>6. Shows(m + r.passed)' /\ last' = last
    BY <1>0, <2>2, <2>3, <2>4, <2>5, ShownLater
  <2>7. (m + r.passed + t) * MsQS < (SecondMS + 1) * TicksQS
    BY <1>0, <2>2, <2>3, <2>4, <2>5, <2>6, SecondNotYet DEF Second
  <2> DEFINE tear == IF r.torn THEN TicksQS ELSE 0
             x == m + r.passed + t
             y == age - Lag - tear
             s == (SecondMS + 1) * TicksQS
  <2>8. t \in Int /\ Lag \in Nat /\ tear \in Nat /\ x \in Int /\ y \in Int /\ s \in Int
    BY <1>0, <2>4, ClockAssumption, WidthIs DEF Lag
  <2>9. y <= x
    <3>1. CASE r.torn
      BY <1>0, <2>4, <2>5, <2>8, <3>1, WidthIs
    <3>2. CASE ~r.torn
      BY <1>0, <2>4, <2>5, <2>8, <3>2, WidthIs
    <3> QED
      BY <3>1, <3>2
  <2>10. y * MsQS <= x * MsQS /\ y * MsQS \in Int /\ x * MsQS \in Int
    <3> HIDE DEF x, y, s
    <3> QED
      BY <2>8, <2>9, WidthIs, TimesOrder
  <2>11. s + (Lag + tear) * MsQS <= (SecondMS + 1 + Off) * TicksQS
    <3>1. (SecondMS + 1 + Off) * TicksQS = s + Off * TicksQS /\ Off * TicksQS \in Int
      BY ClockAssumption, WidthIs DEF Off
    <3>2. (Lag + tear) * MsQS <= Off * TicksQS /\ (Lag + tear) * MsQS \in Int
      <4>1. Lag * MsQS = (IF torn.last THEN MsQS ELSE 0) * TicksQS
        BY WidthIs DEF Lag
      <4>2. tear * MsQS <= (IF high' # high THEN MsQS ELSE 0) * TicksQS
        BY <2>4, WidthIs
      <4>3. (Lag + tear) * MsQS = Lag * MsQS + tear * MsQS /\ (Lag + tear) * MsQS \in Int
            /\ Lag * MsQS \in Int /\ tear * MsQS \in Int
        BY <2>8, WidthIs
      <4>4. Off * TicksQS = (IF torn.last THEN MsQS ELSE 0) * TicksQS
                            + (IF high' # high THEN MsQS ELSE 0) * TicksQS
        BY WidthIs DEF Off
      <4> QED
        BY <4>1, <4>2, <4>3, <4>4, WidthIs
    <3> HIDE DEF s, tear
    <3> QED
      BY <2>8, <3>1, <3>2
  <2>12. age * MsQS = y * MsQS + (Lag + tear) * MsQS
         /\ (Lag + tear) * MsQS \in Int /\ (SecondMS + 1 + Off) * TicksQS \in Int
    <3>1. age = y + (Lag + tear)
      BY <1>0, <2>8
    <3>2. (SecondMS + 1 + Off) * TicksQS \in Int
      BY ClockAssumption, WidthIs DEF Off
    <3> HIDE DEF y, tear
    <3> QED
      BY <1>0, <2>8, <3>1, <3>2, WidthIs
  <2> HIDE DEF x, y, s, tear
  <2>13. x * MsQS < s
    BY <2>7 DEF x, s
  <2> QED
    BY <1>1, <2>8, <2>10, <2>11, <2>12, <2>13
<1>2. ASSUME DelayOver, ~torn'.start PROVE age' - began > DelayTicks
  <2>1. DelayLoops
    BY <1>2 DEF DelayOver, ClockNext, Tick, DelayBegins, sleep_powersave, AppReturns, os_bg
  <2>2. PICK r \in timer_getTicks :
          /\ Reads(r) /\ age' = age + r.passed
          /\ at' = IF Since(start, r.ticks) <= DelayTicks THEN "delay" ELSE "check"
          /\ torn' = [torn EXCEPT !.start = @ \/ r.torn]
    BY <2>1 DEF DelayLoops
  <2>3. torn'.start = (torn.start \/ r.torn)
    <3>1. torn' = [torn EXCEPT !.start = torn.start \/ r.torn]
      BY <2>2
    <3>2. (torn.start \/ r.torn) \in BOOLEAN
      BY <1>0, <2>2, ReadIs
    <3> QED
      BY <1>0, <3>1, <3>2, TornIs
  <2>4. r.ticks = Now /\ r.passed = 0 /\ ~torn.start
    BY <1>0, <1>2, <2>2, <2>3, ReadIs
  <2>5. Since(start, Now) <= age - began
    BY <1>0, <1>2, <2>4 DEF DelayInv, DelayOver
  <2>6. ~(Since(start, Now) <= DelayTicks)
    BY <1>2, <2>2, <2>4 DEF DelayOver
  <2>7. Since(start, Now) \in Int /\ DelayTicks \in Int /\ began \in Int
    BY <1>0, SinceIs, WidthIs, ClockAssumption
  <2> QED
    BY <1>0, <2>2, <2>4, <2>5, <2>6, <2>7
<1> QED
  BY <1>0, <1>1, <1>2 DEF InTime

\* os_bg misses no second, whatever the wrap of the counter, the sleeps and the
\* pins that ended them: it is late by a quarter of a second for each of its two
\* readings that was torn between ovf_count and T2CT.  No timer_delayMS is cut
\* short, of which no reading was torn.
THEOREM ClockIsKept == NapsFit => (Spec => TimersKept)
<1> SUFFICES ASSUME NapsFit PROVE Spec => TimersKept
  OBVIOUS
<1>1. Init => ClockInv
  BY ClockStarts DEF Init
<1>2. ClockInv /\ [Next]_vars => ClockInv'
  BY StepIs, ClockKept DEF ClockStep
<1>3. ClockInv /\ [Next]_vars
      => [/\ Turned => InTime
          /\ DelayOver /\ ~torn'.start => age' - began > DelayTicks]_clock
  BY StepIs, ClockKeeps
<1> QED
  BY <1>1, <1>2, <1>3, PTL DEF Spec, TimersKept

-----------------------------------------------------------------------------
(* The sketch's types, a variable at a time.                                *)

Devs == [pc : {"loop", "wait", "back", "test", "drowsy", "asleep"}, putting : BOOLEAN,
         naptime : {"nap", "long"}, target : BOOLEAN, storedseq : Seqs,
         polls : 0..POLLS, seq : Seqs, putcb : BOOLEAN]
Airs == {Nothing} \cup [kind : {"poll"}] \cup [kind : {"put"}, put : Puts]
        \cup [kind : {"ack"}, ack : Acks]
Hubs == [ring : Seq(Puts), replies : Seq(Acks), slot : {Nothing} \cup Acks,
         timeout : 0..TIMEOUT_S, ticked : BOOLEAN]

\* The types by name.
LEMMA SketchIs ==
  SketchTypeOK <=> /\ dev \in Devs /\ air \in Airs /\ hub \in Hubs /\ Len(hub.ring) <= Room
                   /\ clicks \in 0..MaxClicks /\ faults \in 0..MaxFaults /\ life \in 0..faults
                   /\ stored \subseteq Puts
BY DEF SketchTypeOK, Devs, Airs, Hubs

\* The fields of the memory of a device.
LEMMA DevIs ==
  ASSUME NEW d \in Devs
  PROVE  /\ d.pc \in {"loop", "wait", "back", "test", "drowsy", "asleep"}
         /\ d.putting \in BOOLEAN /\ d.naptime \in {"nap", "long"} /\ d.target \in BOOLEAN
         /\ d.storedseq \in Seqs /\ d.polls \in 0..POLLS /\ d.seq \in Seqs /\ d.putcb \in BOOLEAN
BY DEF Devs

\* The fields of the hub.
LEMMA HubIs ==
  ASSUME NEW h \in Hubs
  PROVE  /\ h.ring \in Seq(Puts) /\ h.replies \in Seq(Acks) /\ h.slot \in {Nothing} \cup Acks
         /\ h.timeout \in 0..TIMEOUT_S /\ h.ticked \in BOOLEAN
BY DEF Hubs

\* What a frame carries.
LEMMA AirIs ==
  ASSUME NEW a \in Airs
  PROVE  /\ a.kind = "put" => a.put \in Puts
         /\ a.kind = "ack" => a.ack \in Acks
BY DEF Airs, Nothing

\* Numbers wrap among themselves.
LEMMA SeqsIs == 0 \in Seqs /\ \A s \in Seqs : (s + 1) % SeqMod \in Seqs
                                           /\ (s + SeqMod - 1) % SeqMod \in Seqs
BY SketchAssumption DEF Seqs

\* Memory after a reset.
LEMMA BootedIs == Booted \in Devs
<1>1. 0 \in 0..POLLS
  BY SketchAssumption
<1> QED
  BY <1>1, SeqsIs DEF Booted, Devs

\* The hub after a reset.
LEMMA EmptyIs == Empty \in Hubs /\ Empty.ring = <<>> /\ Empty.replies = <<>> /\ Empty.slot = Nothing
<1>1. 0 \in 0..TIMEOUT_S
  BY SketchAssumption
<1>2. <<>> \in Seq(Puts) /\ <<>> \in Seq(Acks)
  OBVIOUS
<1> QED
  BY <1>1, <1>2 DEF Empty, Hubs

\* mac_rx_cb with the answer, and pachubePut's return.
LEMMA PutCbIs ==
  ASSUME NEW d \in Devs, NEW a \in Acks
  PROVE  [PutCb(d, a) EXCEPT !.pc = "back"] \in Devs
<1>1. 0 \in 0..POLLS
  BY SketchAssumption
<1>2. PutCb(d, a) \in Devs
  BY <1>1 DEF PutCb, PutComplete, Devs
<1> QED
  BY <1>2 DEF Devs

\* mac_tx returns.
LEMMA ReturnsIs ==
  ASSUME NEW d \in Devs
  PROVE  [IF d.putting THEN PutReturned(d) ELSE d EXCEPT !.pc = "test", !.putting = FALSE] \in Devs
<1>1. POLLS \in 0..POLLS
  BY SketchAssumption
<1>2. (d.seq + SeqMod - 1) % SeqMod \in Seqs
  BY DevIs, SeqsIs
<1>3. PutReturned(d) \in Devs
  BY <1>1, <1>2 DEF PutReturned, Devs
<1>4. (IF d.putting THEN PutReturned(d) ELSE d) \in Devs
  BY <1>3
<1> QED
  BY <1>4 DEF Devs

\* The hub's fields, one at a time.
LEMMA RingSet ==
  ASSUME NEW h \in Hubs, NEW s \in Seq(Puts)
  PROVE  /\ [h EXCEPT !.ring = s] \in Hubs /\ [h EXCEPT !.ring = s].ring = s
         /\ [h EXCEPT !.ring = s].replies = h.replies /\ [h EXCEPT !.ring = s].slot = h.slot
BY DEF Hubs

\* The replies.
LEMMA RepliesSet ==
  ASSUME NEW h \in Hubs, NEW s \in Seq(Acks)
  PROVE  /\ [h EXCEPT !.replies = s] \in Hubs /\ [h EXCEPT !.replies = s].replies = s
         /\ [h EXCEPT !.replies = s].ring = h.ring /\ [h EXCEPT !.replies = s].slot = h.slot
BY DEF Hubs

\* mac_1hz has run.
LEMMA TickedSet ==
  ASSUME NEW h \in Hubs, NEW b \in BOOLEAN
  PROVE  /\ [h EXCEPT !.ticked = b] \in Hubs /\ [h EXCEPT !.ticked = b].ring = h.ring
         /\ [h EXCEPT !.ticked = b].replies = h.replies /\ [h EXCEPT !.ticked = b].slot = h.slot
BY DEF Hubs

\* The slot is given up, the queues stay.
LEMMA SlotFreedIs ==
  ASSUME NEW h \in Hubs
  PROVE  /\ SlotFreed(h) \in Hubs /\ SlotFreed(h).ring = h.ring
         /\ SlotFreed(h).replies = h.replies /\ SlotFreed(h).slot = Nothing
<1>1. 0 \in 0..TIMEOUT_S
  BY SketchAssumption
<1> QED
  BY <1>1 DEF Hubs, SlotFreed

-----------------------------------------------------------------------------
(* What waits in a queue.                                                   *)

Elems(s) == {s[i] : i \in 1..Len(s)}

\* Append adds one.
LEMMA ElemsAppend ==
  ASSUME NEW S, NEW s \in Seq(S), NEW x \in S
  PROVE  /\ Append(s, x) \in Seq(S) /\ Len(Append(s, x)) = Len(s) + 1
         /\ \A y \in Elems(Append(s, x)) : y = x \/ y \in Elems(s)
<1>1. Append(s, x) \in Seq(S) /\ Len(Append(s, x)) = Len(s) + 1
  OBVIOUS
<1>2. ASSUME NEW y \in Elems(Append(s, x)) PROVE y = x \/ y \in Elems(s)
  <2>1. PICK i \in 1..Len(Append(s, x)) : y = Append(s, x)[i]
    BY DEF Elems
  <2>2. i \in 1..Len(s) => Append(s, x)[i] = s[i]
    OBVIOUS
  <2>3. i = Len(s) + 1 => Append(s, x)[i] = x
    OBVIOUS
  <2>4. i \in 1..Len(s) \/ i = Len(s) + 1
    BY <1>1
  <2> QED
    BY <2>1, <2>2, <2>3, <2>4 DEF Elems
<1> QED
  BY <1>1, <1>2

\* Tail takes from what is there.
LEMMA ElemsTail ==
  ASSUME NEW S, NEW s \in Seq(S), s # <<>>
  PROVE  /\ Tail(s) \in Seq(S) /\ Len(Tail(s)) = Len(s) - 1
         /\ Head(s) \in S /\ Head(s) \in Elems(s)
         /\ \A y \in Elems(Tail(s)) : y \in Elems(s)
<1>1. Tail(s) \in Seq(S) /\ Len(Tail(s)) = Len(s) - 1 /\ Len(s) \in Nat /\ Len(s) > 0
  OBVIOUS
<1>2. Head(s) = s[1] /\ 1 \in 1..Len(s) /\ s[1] \in S
  BY <1>1
<1>3. Head(s) \in Elems(s)
  BY <1>2 DEF Elems
<1>4. ASSUME NEW y \in Elems(Tail(s)) PROVE y \in Elems(s)
  <2>1. PICK i \in 1..Len(Tail(s)) : y = Tail(s)[i]
    BY DEF Elems
  <2>2. Tail(s)[i] = s[i + 1] /\ i + 1 \in 1..Len(s)
    BY <1>1
  <2> QED
    BY <2>1, <2>2 DEF Elems
<1> QED
  BY <1>1, <1>2, <1>3, <1>4

\* A ring that is full loses its oldest for the new one.
LEMMA EnqueuedIs ==
  ASSUME NEW s \in Seq(Puts), Len(s) <= Room, NEW x \in Puts
  PROVE  /\ Enqueued(s, x) \in Seq(Puts) /\ Len(Enqueued(s, x)) <= Room
         /\ \A y \in Elems(Enqueued(s, x)) : y = x \/ y \in Elems(s)
<1>0. Room \in Nat \ {0} /\ Len(s) \in Nat
  BY SketchAssumption
<1>1. CASE Len(s) = Room
  <2>1. s # <<>>
    BY <1>0, <1>1
  <2>2. Tail(s) \in Seq(Puts) /\ Len(Tail(s)) = Len(s) - 1
        /\ \A y \in Elems(Tail(s)) : y \in Elems(s)
    BY <2>1, ElemsTail
  <2>3. Enqueued(s, x) = Append(Tail(s), x)
    BY <1>1 DEF Enqueued
  <2>4. Append(Tail(s), x) \in Seq(Puts) /\ Len(Append(Tail(s), x)) = Len(Tail(s)) + 1
        /\ \A y \in Elems(Append(Tail(s), x)) : y = x \/ y \in Elems(Tail(s))
    BY <2>2, ElemsAppend
  <2> QED
    BY <1>0, <1>1, <2>2, <2>3, <2>4
<1>2. CASE Len(s) # Room
  <2>1. Enqueued(s, x) = Append(s, x)
    BY <1>2 DEF Enqueued
  <2>2. Append(s, x) \in Seq(Puts) /\ Len(Append(s, x)) = Len(s) + 1
        /\ \A y \in Elems(Append(s, x)) : y = x \/ y \in Elems(s)
    BY ElemsAppend
  <2> QED
    BY <1>0, <1>2, <2>1, <2>2
<1> QED
  BY <1>1, <1>2

\* The number of a reply is that of the request it answers.
LEMMA RequestIs ==
  ASSUME SketchTypeOK, NEW ok \in BOOLEAN, hub.ring # <<>>
  PROVE  LET put == Head(hub.ring)
             ack == [life |-> put.life, seq |-> put.seq, ok |-> ok]
         IN /\ put \in Puts /\ ack \in Acks /\ put \in Elems(hub.ring)
            /\ put = [life |-> ack.life, seq |-> ack.seq]
            /\ ack.life = put.life /\ ack.seq = put.seq /\ ack.ok = ok
<1>1. hub.ring \in Seq(Puts)
  BY SketchIs, HubIs
<1>2. Head(hub.ring) \in Puts /\ Head(hub.ring) \in Elems(hub.ring)
  BY <1>1, ElemsTail
<1> DEFINE put == Head(hub.ring)
<1>3. put \in Puts
  BY <1>2
<1> HIDE DEF put
<1>4. put = [life |-> put.life, seq |-> put.seq]
  BY <1>3 DEF Puts
<1>5. [life |-> put.life, seq |-> put.seq, ok |-> ok] \in Acks
  BY <1>3 DEF Puts, Acks
<1> QED
  BY <1>2, <1>4, <1>5 DEF put

\* The sketch, the hub and what is between them keep their types.
LEMMA SketchTypes == SketchTypeOK /\ [SketchNext]_sketch => SketchTypeOK'
<1> SUFFICES ASSUME SketchTypeOK, [SketchNext]_sketch PROVE SketchTypeOK'
  OBVIOUS
<1>0. /\ dev \in Devs /\ air \in Airs /\ hub \in Hubs /\ Len(hub.ring) <= Room
      /\ clicks \in 0..MaxClicks /\ faults \in 0..MaxFaults /\ life \in 0..faults
      /\ stored \subseteq Puts /\ life \in 0..MaxFaults
  <2>1. /\ dev \in Devs /\ air \in Airs /\ hub \in Hubs /\ Len(hub.ring) <= Room
        /\ clicks \in 0..MaxClicks /\ faults \in 0..MaxFaults /\ life \in 0..faults
        /\ stored \subseteq Puts
    BY SketchIs
  <2>2. life \in 0..MaxFaults
    BY <2>1, SketchAssumption
  <2> QED
    BY <2>1, <2>2
<1>a. /\ Room \in Nat \ {0} /\ MaxClicks \in Nat /\ MaxFaults \in Nat
      /\ POLLS \in Nat /\ TIMEOUT_S \in Nat
  BY SketchAssumption
<1>b. /\ dev.pc \in {"loop", "wait", "back", "test", "drowsy", "asleep"}
      /\ dev.target \in BOOLEAN /\ dev.polls \in 0..POLLS /\ dev.seq \in Seqs
  BY <1>0, DevIs
<1>c. hub.ring \in Seq(Puts) /\ hub.replies \in Seq(Acks) /\ hub.slot \in {Nothing} \cup Acks
  BY <1>0, HubIs
<1>d. SketchTypeOK' <=>
        /\ dev' \in Devs /\ air' \in Airs /\ hub' \in Hubs /\ Len(hub'.ring) <= Room
        /\ clicks' \in 0..MaxClicks /\ faults' \in 0..MaxFaults /\ life' \in 0..faults'
        /\ stored' \subseteq Puts
  BY DEF SketchTypeOK, Devs, Airs, Hubs, Seqs, Puts, Acks, Nothing
<1>e. Fault => faults' = faults + 1 /\ faults' \in 0..MaxFaults /\ life \in 0..faults'
               /\ life + 1 \in 0..faults'
  BY <1>0, <1>a DEF Fault
<1>f. Nothing \in Airs /\ Nothing \in {Nothing} \cup Acks
  BY DEF Airs
<1>g. \A a \in Acks : [kind |-> "ack", ack |-> a] \in Airs
  BY DEF Airs
<1>1. CASE Click
  <2>1. dev' \in Devs
    <3>1. dev' = [dev EXCEPT !.target = TRUE, !.pc = IF dev.pc = "asleep" THEN "loop" ELSE dev.pc]
      BY <1>1 DEF Click
    <3> QED
      BY <1>0, <3>1 DEF Devs
  <2> QED
    BY <1>0, <1>1, <1>a, <1>d, <2>1 DEF Click
<1>2. CASE PutsNow
  <2>1. dev' \in Devs
    <3>1. dev' = [dev EXCEPT !.pc = "wait", !.putting = TRUE, !.seq = (dev.seq + 1) % SeqMod,
                             !.putcb = TRUE]
      BY <1>2 DEF PutsNow, PachubePut
    <3>2. (dev.seq + 1) % SeqMod \in Seqs
      BY <1>b, SeqsIs
    <3> QED
      BY <1>0, <3>1, <3>2 DEF Devs
  <2>2. air' \in Airs
    <3>1. [life |-> life, seq |-> dev.seq] \in Puts
      BY <1>0, <1>b DEF Puts
    <3> QED
      BY <1>2, <3>1 DEF PutsNow, Airs
  <2> QED
    BY <1>0, <1>2, <1>d, <2>1, <2>2 DEF PutsNow
<1>3. CASE PollsNow
  <2>1. dev' \in Devs
    <3>1. dev' = [dev EXCEPT !.pc = "wait", !.putting = FALSE, !.polls = dev.polls - 1]
      BY <1>3 DEF PollsNow
    <3>2. dev.polls - 1 \in 0..POLLS
      BY <1>3, <1>a, <1>b DEF PollsNow
    <3> QED
      BY <1>0, <3>1, <3>2 DEF Devs
  <2>2. air' \in Airs
    BY <1>3 DEF PollsNow, Airs
  <2> QED
    BY <1>0, <1>3, <1>d, <2>1, <2>2 DEF PollsNow
<1>4. CASE HasNoTarget
  <2>1. dev' \in Devs
    BY <1>0, <1>4 DEF HasNoTarget, Devs
  <2> QED
    BY <1>0, <1>4, <1>d, <2>1 DEF HasNoTarget
<1>5. CASE Receives
  <2>1. air.ack \in Acks
    BY <1>0, <1>5, AirIs DEF Receives
  <2>2. dev' \in Devs
    BY <1>0, <1>5, <2>1, PutCbIs DEF Receives
  <2> QED
    BY <1>0, <1>5, <1>d, <1>f, <2>2 DEF Receives
<1>6. CASE TimesOut
  <2>1. dev' \in Devs
    BY <1>0, <1>6 DEF TimesOut, Devs
  <2> QED
    BY <1>0, <1>6, <1>d, <2>1 DEF TimesOut
<1>7. CASE Returns
  <2>1. dev' \in Devs
    BY <1>0, <1>7, ReturnsIs DEF Returns
  <2> QED
    BY <1>0, <1>7, <1>d, <2>1 DEF Returns
<1>8. CASE Dozes
  <2>1. dev' \in Devs
    <3>1. Naptime(dev) \in {"nap", "long"}
      BY DEF Naptime
    <3> QED
      BY <1>0, <1>8, <3>1 DEF Dozes, Devs
  <2> QED
    BY <1>0, <1>8, <1>d, <2>1 DEF Dozes
<1>9. CASE FallsAsleep
  <2>1. dev' \in Devs
    BY <1>0, <1>9 DEF FallsAsleep, Devs
  <2> QED
    BY <1>0, <1>9, <1>d, <2>1 DEF FallsAsleep
<1>10. CASE Wakes
  <2>1. dev' \in Devs
    BY <1>0, <1>10 DEF Wakes, Devs
  <2>2. hub' \in Hubs /\ hub'.ring = hub.ring
    BY <1>0, <1>10, TickedSet DEF Wakes
  <2>3. faults' \in 0..MaxFaults /\ life \in 0..faults'
    BY <1>0, <1>10, <1>e DEF Wakes
  <2> QED
    BY <1>0, <1>10, <1>d, <2>1, <2>2, <2>3 DEF Wakes
<1>11. CASE Restarts
  BY <1>0, <1>11, <1>d, <1>e, <1>f, BootedIs DEF Restarts
<1>12. CASE RadioReceived
  <2> DEFINE h == SlotFreed(hub)
  <2>1. h \in Hubs /\ h.ring = hub.ring
    BY <1>0, SlotFreedIs
  <2>2. hub' = IF air.kind = "put" THEN [h EXCEPT !.ring = Enqueued(h.ring, air.put)] ELSE h
    BY <1>12 DEF RadioReceived
  <2>3. hub' \in Hubs /\ Len(hub'.ring) <= Room
    <3>1. CASE air.kind = "put"
      <4>1. air.put \in Puts
        BY <1>0, <3>1, AirIs
      <4>2. Enqueued(hub.ring, air.put) \in Seq(Puts) /\ Len(Enqueued(hub.ring, air.put)) <= Room
        BY <1>0, <1>c, <4>1, EnqueuedIs
      <4> HIDE DEF h
      <4> QED
        BY <2>1, <2>2, <3>1, <4>2, RingSet
    <3>2. CASE air.kind # "put"
      BY <1>0, <2>1, <2>2, <3>2
    <3> QED
      BY <3>1, <3>2
  <2>4. air' \in Airs
    BY <1>12, <1>c, <1>f, <1>g DEF RadioReceived
  <2>5. faults' \in 0..MaxFaults /\ life \in 0..faults'
    BY <1>0, <1>12, <1>e DEF RadioReceived
  <2> QED
    BY <1>0, <1>12, <1>d, <2>3, <2>4, <2>5 DEF RadioReceived
<1>13. CASE FrameLost
  BY <1>0, <1>13, <1>d, <1>e, <1>f DEF FrameLost
<1>14. CASE Request
  <2>1. PICK ok \in BOOLEAN, again \in BOOLEAN :
          LET put == Head(hub.ring)
              ack == [life |-> put.life, seq |-> put.seq, ok |-> ok]
          IN /\ hub' = [hub EXCEPT !.ring = IF again THEN @ ELSE Tail(@),
                                   !.replies = Append(@, ack)]
             /\ stored' = IF ok THEN stored \cup {put} ELSE stored
             /\ IF ok /\ ~again THEN UNCHANGED faults ELSE Fault
    BY <1>14 DEF Request
  <2> DEFINE put == Head(hub.ring)
             ack == [life |-> put.life, seq |-> put.seq, ok |-> ok]
             ring == IF again THEN hub.ring ELSE Tail(hub.ring)
             replies == Append(hub.replies, ack)
  <2>2. put \in Puts /\ ack \in Acks /\ hub.ring # <<>>
    BY <1>14, RequestIs DEF Request
  <2>3. ring \in Seq(Puts) /\ Len(ring) <= Room
    <3>1. Tail(hub.ring) \in Seq(Puts) /\ Len(Tail(hub.ring)) = Len(hub.ring) - 1
      BY <1>c, <2>2, ElemsTail
    <3> QED
      BY <1>0, <1>a, <1>c, <3>1
  <2>4. replies \in Seq(Acks)
    BY <1>c, <2>2, ElemsAppend
  <2>5. hub' = [hub EXCEPT !.ring = ring, !.replies = replies]
    BY <2>1
  <2>6. stored' \subseteq Puts
    BY <1>0, <2>1, <2>2
  <2>7. faults' \in 0..MaxFaults /\ life \in 0..faults'
    BY <1>0, <1>e, <2>1
  <2> HIDE DEF ring, replies
  <2>8. hub' \in Hubs /\ hub'.ring = ring
    BY <1>0, <2>3, <2>4, <2>5 DEF Hubs
  <2> QED
    BY <1>0, <1>14, <1>d, <2>3, <2>6, <2>7, <2>8 DEF Request
<1>15. CASE LineRx
  <2>1. /\ hub.replies # <<>>
        /\ hub' = [hub EXCEPT !.replies = Tail(hub.replies),
                     !.slot = IF hub.slot = Nothing THEN Head(hub.replies) ELSE hub.slot,
                     !.timeout = IF hub.slot = Nothing THEN TIMEOUT_S ELSE hub.timeout]
    BY <1>15 DEF LineRx
  <2>2. Tail(hub.replies) \in Seq(Acks) /\ Head(hub.replies) \in Acks
    BY <1>c, <2>1, ElemsTail
  <2>3. TIMEOUT_S \in 0..TIMEOUT_S
    BY <1>a
  <2>4. hub' \in Hubs /\ hub'.ring = hub.ring
    BY <1>0, <2>1, <2>2, <2>3 DEF Hubs
  <2> QED
    BY <1>0, <1>15, <1>d, <2>4 DEF LineRx
<1>16. CASE Mac1Hz
  <2> DEFINE h == IF hub.timeout = 0 THEN SlotFreed(hub) ELSE [hub EXCEPT !.timeout = @ - 1]
  <2>1. h \in Hubs /\ h.ring = hub.ring
    <3>1. SlotFreed(hub) \in Hubs /\ SlotFreed(hub).ring = hub.ring
      BY <1>0, SlotFreedIs
    <3>2. hub.timeout # 0 => hub.timeout - 1 \in 0..TIMEOUT_S
      BY <1>0, <1>a, HubIs
    <3>3. hub.timeout # 0 => [hub EXCEPT !.timeout = @ - 1] \in Hubs
                             /\ [hub EXCEPT !.timeout = @ - 1].ring = hub.ring
      BY <1>0, <3>2 DEF Hubs
    <3> QED
      BY <3>1, <3>3
  <2>2. hub' = [h EXCEPT !.ticked = TRUE]
    BY <1>16 DEF Mac1Hz
  <2> HIDE DEF h
  <2>3. hub' \in Hubs /\ hub'.ring = hub.ring
    BY <2>1, <2>2, TickedSet
  <2> QED
    BY <1>0, <1>16, <1>d, <2>3 DEF Mac1Hz
<1>17. CASE RequestDropped
  <2>1. hub' = [hub EXCEPT !.ring = Tail(hub.ring)] /\ hub.ring # <<>>
    BY <1>17 DEF RequestDropped
  <2>2. Tail(hub.ring) \in Seq(Puts) /\ Len(Tail(hub.ring)) = Len(hub.ring) - 1
    BY <1>c, <2>1, ElemsTail
  <2>3. hub' \in Hubs /\ hub'.ring = Tail(hub.ring)
    BY <1>0, <2>1, <2>2, RingSet
  <2>4. Len(hub'.ring) <= Room
    BY <1>0, <1>a, <1>c, <2>2, <2>3
  <2> QED
    BY <1>0, <1>17, <1>d, <1>e, <2>3, <2>4 DEF RequestDropped
<1>18. CASE ReplyDropped
  <2>1. hub' = [hub EXCEPT !.replies = Tail(hub.replies)] /\ hub.replies # <<>>
    BY <1>18 DEF ReplyDropped
  <2>2. Tail(hub.replies) \in Seq(Acks)
    BY <1>c, <2>1, ElemsTail
  <2>3. hub' \in Hubs /\ hub'.ring = hub.ring
    BY <1>0, <2>1, <2>2, RepliesSet
  <2> QED
    BY <1>0, <1>18, <1>d, <1>e, <2>3 DEF ReplyDropped
<1>19. CASE HubRestarts
  <2>1. hub.ticked \in BOOLEAN
    BY <1>0, HubIs
  <2>2. hub' \in Hubs /\ hub'.ring = <<>>
    BY <1>19, <2>1, EmptyIs, TickedSet DEF HubRestarts
  <2>3. Len(hub'.ring) <= Room
    BY <1>a, <2>2
  <2> QED
    BY <1>0, <1>19, <1>d, <1>e, <2>2, <2>3 DEF HubRestarts
<1>20. CASE UNCHANGED sketch
  BY <1>0, <1>20, <1>d DEF sketch
<1> QED
  BY <1>1, <1>2, <1>3, <1>4, <1>5, <1>6, <1>7, <1>8, <1>9, <1>10, <1>11, <1>12, <1>13, <1>14,
     <1>15, <1>16, <1>17, <1>18, <1>19, <1>20 DEF SketchNext, DeviceRuns, HubRuns

-----------------------------------------------------------------------------
(* The answer that puts the light out.                                      *)

\* The puts of this life since x was made, x's own among them.
Age(x) == (dev.seq + SeqMod - x.seq) % SeqMod

\* Every put after it has taken a fault or a click.
Spent == faults + clicks
Young(x, n) == x.life <= life /\ (x.life = life => Age(x) \in 1..n)

WasStored(x) == x.ok => [life |-> x.life, seq |-> x.seq] \in stored

\* The next put comes without another of them: the nap was a long one, or has
\* ended.
Early == dev.target /\ (dev.pc = "loop" \/ (dev.pc \in {"drowsy", "asleep"} /\ dev.naptime = "long"))
Queued == IF Early THEN Spent ELSE Spent + 1
Held == IF air.kind = "put" THEN Spent + 2 ELSE Spent + 1
Flown == Spent + 2

AirInv ==
  /\ air.kind \in {"put", "poll", "ack"} => dev.pc = "wait"
  /\ air.kind = "put" => Young(air.put, 1)
  /\ air.kind = "ack" => Young(air.ack, Flown) /\ WasStored(air.ack)
RingInv == \A x \in Elems(hub.ring) : Young(x, Queued)
RepliesInv == \A x \in Elems(hub.replies) : Young(x, Queued) /\ WasStored(x)
SlotInv == hub.slot # Nothing => Young(hub.slot, Held) /\ WasStored(hub.slot)

AnswerInv == AirInv /\ RingInv /\ RepliesInv /\ SlotInv

\* Faults and clicks are too few for an answer to outlive its number.
NumbersLast == MaxFaults + MaxClicks + 2 < SeqMod

\* A number is its own age 0, and grows older by one a put.
LEMMA AgeIs ==
  ASSUME NEW s \in Seqs, NEW t \in Seqs
  PROVE  /\ (s + SeqMod - t) % SeqMod \in 0..SeqMod - 1
         /\ (s + SeqMod - t) % SeqMod = 0 <=> s = t
         /\ LET n == (s + SeqMod - t) % SeqMod
            IN n + 1 < SeqMod => (((s + 1) % SeqMod) + SeqMod - t) % SeqMod = n + 1
<1>1. SeqMod \in Nat \ {0} /\ s \in 0..SeqMod - 1 /\ t \in 0..SeqMod - 1
  BY SketchAssumption DEF Seqs
<1> DEFINE n == (s + SeqMod - t) % SeqMod
<1>2. n = IF t <= s THEN s - t ELSE s - t + SeqMod
  <2>1. CASE t <= s
    <3>1. s - t \in 0..SeqMod - 1 /\ s + SeqMod - t = (s - t) + SeqMod
      BY <1>1, <2>1
    <3> QED
      BY <1>1, <2>1, <3>1, ModNear
  <2>2. CASE ~(t <= s)
    <3> DEFINE b == s + SeqMod - t
    <3>1. b \in 0..SeqMod - 1 /\ b = s - t + SeqMod
      BY <1>1, <2>2
    <3> HIDE DEF b
    <3>2. b % SeqMod = b
      BY <1>1, <3>1, ModNear
    <3> QED
      BY <2>2, <3>1, <3>2 DEF b
  <2> QED
    BY <2>1, <2>2
<1>3. n \in 0..SeqMod - 1 /\ (n = 0 <=> s = t)
  BY <1>1, <1>2
<1>4. ASSUME n + 1 < SeqMod PROVE (((s + 1) % SeqMod) + SeqMod - t) % SeqMod = n + 1
  <2>1. CASE s + 1 = SeqMod
    <3>1. (s + 1) % SeqMod = 0
      <4>1. 0 \in 0..SeqMod - 1 /\ s + 1 = 0 + SeqMod
        BY <1>1, <2>1
      <4> QED
        BY <1>1, <4>1, ModNear
    <3>2. 0 + SeqMod - t = n + 1
      BY <1>1, <1>2, <2>1
    <3>3. n + 1 \in 0..SeqMod - 1
      BY <1>1, <1>3, <1>4
    <3> HIDE DEF n
    <3> QED
      BY <1>1, <3>1, <3>2, <3>3, ModNear
  <2>2. CASE s + 1 # SeqMod
    <3>1. (s + 1) % SeqMod = s + 1
      <4>1. s + 1 \in 0..SeqMod - 1
        BY <1>1, <2>2
      <4> QED
        BY <1>1, <4>1, ModNear
    <3>2. n + 1 \in 0..SeqMod - 1
      BY <1>1, <1>3, <1>4
    <3>3. s + 1 + SeqMod - t = n + 1 \/ s + 1 + SeqMod - t = (n + 1) + SeqMod
      BY <1>1, <1>2
    <3> HIDE DEF n
    <3> QED
      BY <1>1, <3>1, <3>2, <3>3, ModNear
  <2> QED
    BY <2>1, <2>2
<1> QED
  BY <1>3, <1>4

\* An item grows no older while dev.seq and life stay as they are.
LEMMA YoungStays ==
  ASSUME NEW x, dev'.seq = dev.seq, life' = life, NEW n \in Nat, NEW m \in Nat, n <= m,
         Young(x, n)
  PROVE  x.life <= life' /\ (x.life = life' => (dev'.seq + SeqMod - x.seq) % SeqMod \in 1..m)
<1>1. x.life = life => (dev.seq + SeqMod - x.seq) % SeqMod \in 1..n
  BY DEF Young, Age
<1>2. 1..n \subseteq 1..m
  OBVIOUS
<1> QED
  BY <1>1, <1>2 DEF Young

\* A put makes every other one older.
LEMMA YoungPut ==
  ASSUME NEW x, x.seq \in Seqs, dev.seq \in Seqs, dev'.seq = (dev.seq + 1) % SeqMod,
         life' = life, NEW n \in Nat, n + 1 < SeqMod, Young(x, n)
  PROVE  /\ x.life <= life'
         /\ x.life = life' => (dev'.seq + SeqMod - x.seq) % SeqMod \in 1..n + 1
         /\ x.life = life => x.seq # dev.seq
<1> DEFINE a == (dev.seq + SeqMod - x.seq) % SeqMod
<1>1. x.life = life => a \in 1..n
  BY DEF Young, Age
<1>2. a \in 0..SeqMod - 1 /\ (a = 0 <=> dev.seq = x.seq)
      /\ (a + 1 < SeqMod => (dev'.seq + SeqMod - x.seq) % SeqMod = a + 1)
  BY AgeIs
<1>3. SeqMod \in Nat
  BY SketchAssumption
<1> HIDE DEF a
<1>4. x.life = life => a # 0 /\ a + 1 < SeqMod /\ a + 1 \in 1..n + 1
  BY <1>1, <1>2, <1>3
<1> QED
  BY <1>2, <1>4 DEF Young

\* The two of the next state.
YoungThen(x, n) ==
  /\ x.life <= life'
  /\ x.life = life' => (dev'.seq + SeqMod - x.seq) % SeqMod \in 1..n
ToldThen(x) == x.ok => [life |-> x.life, seq |-> x.seq] \in stored'

\* The invariant of the next state, part by part.
LEMMA AnswerThen ==
  /\ AirInv' <=> /\ air'.kind \in {"put", "poll", "ack"} => dev'.pc = "wait"
                 /\ air'.kind = "put" => YoungThen(air'.put, 1)
                 /\ air'.kind = "ack" => YoungThen(air'.ack, Flown') /\ ToldThen(air'.ack)
  /\ RingInv' <=> \A x \in Elems(hub'.ring) : YoungThen(x, Queued')
  /\ RepliesInv' <=> \A x \in Elems(hub'.replies) : YoungThen(x, Queued') /\ ToldThen(x)
  /\ SlotInv' <=> (hub'.slot # Nothing => YoungThen(hub'.slot, Held') /\ ToldThen(hub'.slot))
<1>1. AirInv' <=> /\ air'.kind \in {"put", "poll", "ack"} => dev'.pc = "wait"
                  /\ air'.kind = "put" => YoungThen(air'.put, 1)
                  /\ air'.kind = "ack" => YoungThen(air'.ack, Flown') /\ ToldThen(air'.ack)
  BY DEF AirInv, Young, Age, WasStored, YoungThen, ToldThen
<1>2. RingInv' <=> \A x \in Elems(hub'.ring) : YoungThen(x, Queued')
  BY DEF RingInv, Young, Age, YoungThen, Elems
<1>3. RepliesInv' <=> \A x \in Elems(hub'.replies) : YoungThen(x, Queued') /\ ToldThen(x)
  BY DEF RepliesInv, Young, Age, WasStored, YoungThen, ToldThen, Elems
<1>4. SlotInv' <=> (hub'.slot # Nothing => YoungThen(hub'.slot, Held') /\ ToldThen(hub'.slot))
  BY DEF SlotInv, Young, Age, WasStored, YoungThen, ToldThen, Nothing
<1> QED
  BY <1>1, <1>2, <1>3, <1>4

\* What is spent bounds the ages.
LEMMA SpentIs ==
  ASSUME SketchTypeOK
  PROVE  /\ Spent \in Nat /\ Spent <= MaxFaults + MaxClicks
         /\ Queued \in Nat /\ Held \in Nat /\ Flown \in Nat
         /\ Queued \in {Spent, Spent + 1} /\ Held \in {Spent + 1, Spent + 2} /\ Flown = Spent + 2
<1>1. clicks \in 0..MaxClicks /\ faults \in 0..MaxFaults /\ MaxClicks \in Nat /\ MaxFaults \in Nat
  BY SketchAssumption DEF SketchTypeOK
<1>2. Spent \in Nat /\ Spent <= MaxFaults + MaxClicks
  BY <1>1 DEF Spent
<1> QED
  BY <1>2 DEF Queued, Held, Flown

\* The bounds after a step that spends n.
LEMMA SpentThen ==
  ASSUME SketchTypeOK, NEW n \in Nat, Spent' = Spent + n
  PROVE  /\ Queued' = IF Early' THEN Spent + n ELSE Spent + n + 1
         /\ Held' = IF air'.kind = "put" THEN Spent + n + 2 ELSE Spent + n + 1
         /\ Flown' = Spent + n + 2
         /\ Queued' \in Nat /\ Held' \in Nat /\ Flown' \in Nat
<1>1. /\ Queued' = IF Early' THEN Spent + n ELSE Spent + n + 1
      /\ Held' = IF air'.kind = "put" THEN Spent + n + 2 ELSE Spent + n + 1
      /\ Flown' = Spent + n + 2
  BY DEF Queued, Held, Flown
<1>2. Spent + n \in Nat /\ Spent + n + 1 \in Nat /\ Spent + n + 2 \in Nat
  BY SpentIs
<1> QED
  BY <1>1, <1>2

\* What a step spends.
LEMMA Spends ==
  ASSUME SketchTypeOK
  PROVE  /\ UNCHANGED <<faults, clicks>> => Spent' = Spent + 0
         /\ Fault /\ UNCHANGED clicks => Spent' = Spent + 1
         /\ clicks' = clicks + 1 /\ UNCHANGED faults => Spent' = Spent + 1
<1>1. clicks \in Nat /\ faults \in Nat
  BY SketchAssumption DEF SketchTypeOK
<1> QED
  BY <1>1 DEF Spent, Fault

\* What is queued is a put or an answer, with the numbers of one.
LEMMA ItemsAre ==
  ASSUME SketchTypeOK
  PROVE  /\ \A x \in Elems(hub.ring) : x.seq \in Seqs /\ x.life \in Nat
         /\ \A x \in Elems(hub.replies) : x.seq \in Seqs /\ x.life \in Nat
         /\ hub.slot # Nothing => hub.slot \in Acks /\ hub.slot.seq \in Seqs /\ hub.slot.life \in Nat
         /\ hub.ring \in Seq(Puts) /\ hub.replies \in Seq(Acks)
<1>1. hub.ring \in Seq(Puts) /\ hub.replies \in Seq(Acks) /\ hub.slot \in {Nothing} \cup Acks
  BY SketchIs, HubIs
<1>2. \A x \in Elems(hub.ring) : x \in Puts
  BY <1>1 DEF Elems
<1>3. \A x \in Elems(hub.replies) : x \in Acks
  BY <1>1 DEF Elems
<1>4. \A x \in Puts : x.seq \in Seqs /\ x.life \in Nat
  BY SketchAssumption DEF Puts
<1>5. \A x \in Acks : x.seq \in Seqs /\ x.life \in Nat
  BY SketchAssumption DEF Acks
<1> QED
  BY <1>1, <1>2, <1>3, <1>4, <1>5

\* Steps that put nothing anywhere.
LEMMA Calm ==
  ASSUME SketchTypeOK, AnswerInv,
         dev'.seq = dev.seq, life' = life, stored \subseteq stored',
         NEW n \in {0, 1}, Spent' = Spent + n,
         \/ Early' => Early \/ n = 1
         \/ Elems(hub'.ring) = {} /\ Elems(hub'.replies) = {},
         \A x \in Elems(hub'.ring) : x \in Elems(hub.ring),
         \A x \in Elems(hub'.replies) : x \in Elems(hub.replies),
         hub'.slot = hub.slot \/ hub'.slot = Nothing,
         air.kind = "put" => air'.kind = "put" \/ n = 1,
         air' = air \/ air'.kind \in {"poll", "nothing"},
         air'.kind # "nothing" => dev'.pc = "wait"
  PROVE  AnswerInv'
<1>1. /\ Spent \in Nat /\ Queued \in Nat /\ Held \in Nat /\ Flown \in Nat
      /\ Queued' \in Nat /\ Held' \in Nat /\ Flown' \in Nat
      /\ Queued = IF Early THEN Spent ELSE Spent + 1
      /\ Held = IF air.kind = "put" THEN Spent + 2 ELSE Spent + 1
      /\ Flown = Spent + 2
      /\ Queued' = IF Early' THEN Spent + n ELSE Spent + n + 1
      /\ Held' = IF air'.kind = "put" THEN Spent + n + 2 ELSE Spent + n + 1
      /\ Flown' = Spent + n + 2
  BY SpentIs, SpentThen DEF Queued, Held
<1>2. ASSUME NEW x, NEW m \in Nat, NEW k \in Nat, m <= k, Young(x, m) PROVE YoungThen(x, k)
  BY <1>2, YoungStays DEF YoungThen
<1>3. ASSUME NEW x, WasStored(x) PROVE ToldThen(x)
  BY <1>3 DEF WasStored, ToldThen
<1>4. \/ Queued <= Queued'
      \/ Elems(hub'.ring) = {} /\ Elems(hub'.replies) = {}
  BY <1>1
<1>5. Held <= Held' /\ Flown <= Flown'
  BY <1>1
<1>6. RingInv'
  BY <1>1, <1>2, <1>4, AnswerThen DEF AnswerInv, RingInv
<1>7. RepliesInv'
  BY <1>1, <1>2, <1>3, <1>4, AnswerThen DEF AnswerInv, RepliesInv
<1>8. SlotInv'
  BY <1>1, <1>2, <1>3, <1>5, AnswerThen DEF AnswerInv, SlotInv
<1>9. AirInv'
  <2>1. CASE air' = air
    <3>1. air.kind = "put" => YoungThen(air.put, 1)
      BY <1>2 DEF AnswerInv, AirInv
    <3>2. air.kind = "ack" => YoungThen(air.ack, Flown') /\ ToldThen(air.ack)
      BY <1>1, <1>2, <1>3, <1>5 DEF AnswerInv, AirInv
    <3> QED
      BY <2>1, <3>1, <3>2, AnswerThen
  <2>2. CASE air'.kind \in {"poll", "nothing"}
    BY <2>2, AnswerThen
  <2> QED
    BY <2>1, <2>2
<1> QED
  BY <1>6, <1>7, <1>8, <1>9 DEF AnswerInv

\* pachubePut: the number is new, and those of this life grow one older.
LEMMA AnswerPuts ==
  ASSUME NumbersLast, SketchTypeOK, AnswerInv, PutsNow
  PROVE  AnswerInv'
<1>1. /\ dev.pc = "loop" /\ dev.target /\ dev \in Devs /\ dev.seq \in Seqs
      /\ dev' = PachubePut(dev)
      /\ air' = [kind |-> "put", put |-> [life |-> life, seq |-> dev.seq]]
      /\ stored' = stored \ {[life |-> life, seq |-> dev.seq]}
      /\ UNCHANGED <<hub, clicks, faults, life>>
  BY SketchIs, DevIs DEF PutsNow
<1>2. dev'.pc = "wait" /\ dev'.seq = (dev.seq + 1) % SeqMod /\ dev'.target = dev.target
  BY <1>1 DEF PachubePut, Devs
<1>3. /\ Spent \in Nat /\ Spent + 2 < SeqMod /\ SeqMod \in Nat
      /\ Queued = Spent /\ Held = Spent + 1
  <2>1. Early /\ air.kind # "put"
    BY <1>1 DEF Early, AnswerInv, AirInv
  <2>2. MaxFaults \in Nat /\ MaxClicks \in Nat /\ SeqMod \in Nat
    BY SketchAssumption
  <2> QED
    BY <2>1, <2>2, SpentIs DEF NumbersLast, Queued, Held
<1>4. Queued' = Spent + 1 /\ Held' = Spent + 2
  <2>1. ~Early' /\ air'.kind = "put"
    BY <1>1, <1>2 DEF Early
  <2>2. Spent' = Spent + 0
    BY <1>1, Spends
  <2> QED
    BY <1>3, <2>1, <2>2, SpentThen
<1>5. ASSUME NEW x, x.seq \in Seqs, NEW m \in Nat, m + 1 < SeqMod, Young(x, m)
      PROVE  YoungThen(x, m + 1) /\ (x.life = life => x.seq # dev.seq)
  BY <1>1, <1>2, <1>5, YoungPut DEF YoungThen
<1>6. ASSUME NEW x, WasStored(x), x.life = life => x.seq # dev.seq
      PROVE  ToldThen(x)
  <2>1. [life |-> x.life, seq |-> x.seq] # [life |-> life, seq |-> dev.seq]
    BY <1>6
  <2> QED
    BY <1>1, <1>6, <2>1 DEF WasStored, ToldThen
<1>7. RingInv'
  <2>1. \A x \in Elems(hub.ring) : YoungThen(x, Spent + 1)
    BY <1>3, <1>5, ItemsAre DEF AnswerInv, RingInv
  <2> QED
    BY <1>1, <1>4, <2>1, AnswerThen
<1>8. RepliesInv'
  <2>1. \A x \in Elems(hub.replies) : YoungThen(x, Spent + 1) /\ ToldThen(x)
    BY <1>3, <1>5, <1>6, ItemsAre DEF AnswerInv, RepliesInv
  <2> QED
    BY <1>1, <1>4, <2>1, AnswerThen
<1>9. SlotInv'
  <2>1. hub.slot # Nothing => YoungThen(hub.slot, (Spent + 1) + 1) /\ ToldThen(hub.slot)
    BY <1>3, <1>5, <1>6, ItemsAre DEF AnswerInv, SlotInv
  <2>2. (Spent + 1) + 1 = Spent + 2
    BY <1>3
  <2> QED
    BY <1>1, <1>4, <2>1, <2>2, AnswerThen
<1>10. AirInv'
  <2>1. air'.kind = "put" /\ air'.put.life = life /\ air'.put.seq = dev.seq
    BY <1>1
  <2>2. (dev.seq + SeqMod - dev.seq) % SeqMod = 0
    BY <1>1, AgeIs
  <2>3. (((dev.seq + 1) % SeqMod) + SeqMod - dev.seq) % SeqMod = 0 + 1
    BY <1>1, <1>3, <2>2, AgeIs
  <2>4. life \in Nat
    BY SketchAssumption DEF SketchTypeOK
  <2>5. YoungThen(air'.put, 1)
    BY <1>1, <1>2, <2>1, <2>3, <2>4 DEF YoungThen
  <2> QED
    BY <1>2, <2>1, <2>5, AnswerThen
<1> QED
  BY <1>7, <1>8, <1>9, <1>10 DEF AnswerInv

\* A reset: what was asked in the former life is of this life no longer.
LEMMA AnswerRestarts ==
  ASSUME SketchTypeOK, AnswerInv, Restarts
  PROVE  AnswerInv'
<1>1. /\ air' = Nothing /\ life' = life + 1 /\ UNCHANGED <<hub, stored>> /\ life \in Nat
  BY SketchAssumption DEF Restarts, SketchTypeOK
<1>2. ASSUME NEW x, x.life \in Nat, NEW m, Young(x, m), NEW k PROVE YoungThen(x, k)
  BY <1>1, <1>2 DEF Young, YoungThen
<1>3. ASSUME NEW x, WasStored(x) PROVE ToldThen(x)
  BY <1>1, <1>3 DEF WasStored, ToldThen
<1>4. RingInv'
  BY <1>1, <1>2, ItemsAre, AnswerThen DEF AnswerInv, RingInv
<1>5. RepliesInv'
  BY <1>1, <1>2, <1>3, ItemsAre, AnswerThen DEF AnswerInv, RepliesInv
<1>6. SlotInv'
  BY <1>1, <1>2, <1>3, ItemsAre, AnswerThen DEF AnswerInv, SlotInv
<1>7. AirInv'
  BY <1>1, AnswerThen DEF Nothing
<1> QED
  BY <1>4, <1>5, <1>6, <1>7 DEF AnswerInv

\* radio_received: the answer held goes out, the put goes in.
LEMMA AnswerReceived ==
  ASSUME SketchTypeOK, AnswerInv, RadioReceived
  PROVE  AnswerInv'
<1> DEFINE h == SlotFreed(hub)
<1>0. hub \in Hubs /\ air \in Airs /\ Len(hub.ring) <= Room /\ hub.ring \in Seq(Puts)
  BY SketchIs, HubIs
<1>1. /\ air.kind \in {"put", "poll"} /\ UNCHANGED <<dev, clicks, life, stored>>
      /\ hub' = IF air.kind = "put" THEN [h EXCEPT !.ring = Enqueued(h.ring, air.put)] ELSE h
      /\ \/ /\ air' = IF hub.slot = Nothing THEN Nothing ELSE [kind |-> "ack", ack |-> hub.slot]
            /\ UNCHANGED faults
         \/ hub.slot # Nothing /\ air' = Nothing /\ Fault
  BY DEF RadioReceived
<1>2. h \in Hubs /\ h.ring = hub.ring /\ h.replies = hub.replies /\ h.slot = Nothing
  BY <1>0, SlotFreedIs
<1>3. dev.pc = "wait" /\ dev'.pc = "wait" /\ ~Early /\ ~Early'
  BY <1>1 DEF AnswerInv, AirInv, Early
<1>4. PICK n \in {0, 1} : Spent' = Spent + n
  BY <1>1, Spends
<1>5. /\ Spent \in Nat /\ Queued = Spent + 1 /\ Held \in Nat /\ Held <= Spent + 2
      /\ Queued' = Spent + n + 1 /\ Flown' = Spent + n + 2
  BY <1>3, <1>4, SpentIs, SpentThen DEF Queued
<1>6. ASSUME NEW x, NEW m \in Nat, NEW k \in Nat, m <= k, Young(x, m) PROVE YoungThen(x, k)
  BY <1>1, <1>6, YoungStays DEF YoungThen
<1>7. ASSUME NEW x, WasStored(x) PROVE ToldThen(x)
  BY <1>1, <1>7 DEF WasStored, ToldThen
<1>8. /\ hub'.replies = hub.replies /\ hub'.slot = Nothing
      /\ \A x \in Elems(hub'.ring) : x \in Elems(hub.ring) \/ (air.kind = "put" /\ x = air.put)
  <2>1. CASE air.kind = "put"
    <3>1. air.put \in Puts
      BY <1>0, <2>1, AirIs
    <3>2. /\ Enqueued(hub.ring, air.put) \in Seq(Puts)
          /\ \A y \in Elems(Enqueued(hub.ring, air.put)) : y = air.put \/ y \in Elems(hub.ring)
      BY <1>0, <3>1, EnqueuedIs
    <3> HIDE DEF h
    <3>3. hub' = [h EXCEPT !.ring = Enqueued(hub.ring, air.put)]
      BY <1>1, <1>2, <2>1
    <3>4. hub'.ring = Enqueued(hub.ring, air.put) /\ hub'.replies = h.replies /\ hub'.slot = h.slot
      BY <1>2, <3>2, <3>3, RingSet
    <3> QED
      BY <1>2, <2>1, <3>2, <3>4
  <2>2. CASE air.kind # "put"
    BY <1>1, <1>2, <2>2
  <2> QED
    BY <2>1, <2>2
<1> HIDE DEF h
<1>9. Spent + n + 1 \in Nat /\ Spent + 1 <= Spent + n + 1 /\ 1 <= Spent + n + 1 /\ Spent + 1 \in Nat
      /\ Spent + n + 2 \in Nat /\ Held <= Spent + n + 2
  BY <1>5
<1>10. RingInv'
  <2>1. \A x \in Elems(hub.ring) : YoungThen(x, Spent + n + 1)
    BY <1>5, <1>6, <1>9 DEF AnswerInv, RingInv
  <2>2. air.kind = "put" => YoungThen(air.put, Spent + n + 1)
    BY <1>6, <1>9 DEF AnswerInv, AirInv
  <2> QED
    BY <1>5, <1>8, <2>1, <2>2, AnswerThen
<1>11. RepliesInv'
  <2>1. \A x \in Elems(hub.replies) : YoungThen(x, Spent + n + 1) /\ ToldThen(x)
    BY <1>5, <1>6, <1>7, <1>9 DEF AnswerInv, RepliesInv
  <2> QED
    BY <1>5, <1>8, <2>1, AnswerThen
<1>12. SlotInv'
  BY <1>8, AnswerThen
<1>13. AirInv'
  <2>1. CASE air' = Nothing
    BY <2>1, AnswerThen DEF Nothing
  <2>2. CASE hub.slot # Nothing /\ air' = [kind |-> "ack", ack |-> hub.slot]
    <3>1. YoungThen(hub.slot, Spent + n + 2) /\ ToldThen(hub.slot)
      BY <1>5, <1>6, <1>7, <1>9, <2>2 DEF AnswerInv, SlotInv
    <3>2. air'.kind = "ack" /\ air'.ack = hub.slot
      BY <2>2
    <3> QED
      BY <1>3, <1>5, <3>1, <3>2, AnswerThen
  <2> QED
    BY <1>1, <2>1, <2>2
<1> QED
  BY <1>10, <1>11, <1>12, <1>13 DEF AnswerInv

\* handle_pkt: the answer has its request's number, and tells the truth.
LEMMA AnswerRequests ==
  ASSUME SketchTypeOK, AnswerInv, Request
  PROVE  AnswerInv'
<1>1. PICK ok \in BOOLEAN, again \in BOOLEAN :
        LET put == Head(hub.ring)
            ack == [life |-> put.life, seq |-> put.seq, ok |-> ok]
        IN /\ hub' = [hub EXCEPT !.ring = IF again THEN @ ELSE Tail(@),
                                 !.replies = Append(@, ack)]
           /\ stored' = IF ok THEN stored \cup {put} ELSE stored
           /\ IF ok /\ ~again THEN UNCHANGED faults ELSE Fault
  BY DEF Request
<1> DEFINE put == Head(hub.ring)
           ack == [life |-> put.life, seq |-> put.seq, ok |-> ok]
           ring == IF again THEN hub.ring ELSE Tail(hub.ring)
           replies == Append(hub.replies, ack)
<1>2. /\ put \in Puts /\ ack \in Acks /\ put \in Elems(hub.ring) /\ hub.ring # <<>>
      /\ put = [life |-> ack.life, seq |-> ack.seq]
      /\ ack.life = put.life /\ ack.seq = put.seq /\ ack.ok = ok
  BY RequestIs DEF Request
<1>3. hub \in Hubs /\ hub.ring \in Seq(Puts) /\ hub.replies \in Seq(Acks)
  BY SketchIs, HubIs
<1>4. ring \in Seq(Puts) /\ \A x \in Elems(ring) : x \in Elems(hub.ring)
  <2>1. Tail(hub.ring) \in Seq(Puts) /\ \A x \in Elems(Tail(hub.ring)) : x \in Elems(hub.ring)
    BY <1>2, <1>3, ElemsTail
  <2> QED
    BY <1>3, <2>1
<1>5. replies \in Seq(Acks) /\ \A x \in Elems(replies) : x = ack \/ x \in Elems(hub.replies)
  BY <1>2, <1>3, ElemsAppend
<1>6. hub' = [hub EXCEPT !.ring = ring, !.replies = replies]
  BY <1>1
<1>7. stored \subseteq stored' /\ (ok => put \in stored')
  BY <1>1
<1>8. UNCHANGED <<dev, air, clicks, life>>
  BY DEF Request
<1>9. PICK n \in {0, 1} : Spent' = Spent + n
  BY <1>1, <1>8, Spends
<1> HIDE DEF put, ack, ring, replies
<1>10. hub'.ring = ring /\ hub'.replies = replies /\ hub'.slot = hub.slot
  BY <1>3, <1>4, <1>5, <1>6 DEF Hubs
<1>11. /\ Queued \in Nat /\ Queued' \in Nat /\ Queued <= Queued'
       /\ Held \in Nat /\ Held' \in Nat /\ Held <= Held'
       /\ Flown \in Nat /\ Flown' \in Nat /\ Flown <= Flown'
  <2>1. Early' = Early
    BY <1>8 DEF Early
  <2> QED
    BY <1>8, <1>9, <2>1, SpentIs, SpentThen DEF Queued, Held
<1>12. ASSUME NEW x, NEW m \in Nat, NEW k \in Nat, m <= k, Young(x, m) PROVE YoungThen(x, k)
  BY <1>8, <1>12, YoungStays DEF YoungThen
<1>13. ASSUME NEW x, WasStored(x) PROVE ToldThen(x)
  BY <1>7, <1>13 DEF WasStored, ToldThen
<1>14. RingInv'
  BY <1>4, <1>10, <1>11, <1>12, AnswerThen DEF AnswerInv, RingInv
<1>15. RepliesInv'
  <2>1. YoungThen(put, Queued')
    BY <1>2, <1>11, <1>12 DEF AnswerInv, RingInv
  <2>2. YoungThen(ack, Queued')
    BY <1>2, <2>1 DEF YoungThen
  <2>3. ToldThen(ack)
    BY <1>2, <1>7 DEF ToldThen
  <2>4. \A x \in Elems(hub.replies) : YoungThen(x, Queued') /\ ToldThen(x)
    BY <1>11, <1>12, <1>13 DEF AnswerInv, RepliesInv
  <2> QED
    BY <1>5, <1>10, <2>2, <2>3, <2>4, AnswerThen
<1>16. SlotInv'
  BY <1>10, <1>11, <1>12, <1>13, AnswerThen DEF AnswerInv, SlotInv
<1>17. AirInv'
  <2>1. air.kind = "put" => YoungThen(air.put, 1)
    BY <1>12 DEF AnswerInv, AirInv
  <2>2. air.kind = "ack" => YoungThen(air.ack, Flown') /\ ToldThen(air.ack)
    BY <1>11, <1>12, <1>13 DEF AnswerInv, AirInv
  <2> QED
    BY <1>8, <2>1, <2>2, AnswerThen DEF AnswerInv, AirInv
<1> QED
  BY <1>14, <1>15, <1>16, <1>17 DEF AnswerInv

\* line_rx: the answer gets the device's slot, or none.
LEMMA AnswerHeld ==
  ASSUME SketchTypeOK, AnswerInv, LineRx
  PROVE  AnswerInv'
<1>1. /\ hub.replies # <<>> /\ UNCHANGED <<dev, air, clicks, faults, life, stored>>
      /\ hub' = [hub EXCEPT !.replies = Tail(hub.replies),
                   !.slot = IF hub.slot = Nothing THEN Head(hub.replies) ELSE hub.slot,
                   !.timeout = IF hub.slot = Nothing THEN TIMEOUT_S ELSE hub.timeout]
  BY DEF LineRx
<1>2. hub \in Hubs /\ hub.replies \in Seq(Acks)
  BY SketchIs, HubIs
<1>3. /\ Head(hub.replies) \in Elems(hub.replies)
      /\ \A x \in Elems(Tail(hub.replies)) : x \in Elems(hub.replies)
  BY <1>1, <1>2, ElemsTail
<1>4. /\ hub'.ring = hub.ring /\ hub'.replies = Tail(hub.replies)
      /\ hub'.slot = IF hub.slot = Nothing THEN Head(hub.replies) ELSE hub.slot
  BY <1>1, <1>2 DEF Hubs
<1>5. Queued' = Queued /\ Held' = Held /\ Flown' = Flown /\ Queued <= Held
      /\ Queued \in Nat /\ Held \in Nat /\ Flown \in Nat
  <2>1. Queued' = Queued /\ Held' = Held /\ Flown' = Flown
    BY <1>1 DEF Queued, Held, Flown, Spent, Early
  <2> QED
    BY <2>1, SpentIs
<1>6. ASSUME NEW x, NEW m \in Nat, NEW k \in Nat, m <= k, Young(x, m) PROVE YoungThen(x, k)
  BY <1>1, <1>6, YoungStays DEF YoungThen
<1>7. ASSUME NEW x, WasStored(x) PROVE ToldThen(x)
  BY <1>1, <1>7 DEF WasStored, ToldThen
<1>8. RingInv'
  <2>1. \A x \in Elems(hub.ring) : YoungThen(x, Queued)
    BY <1>5, <1>6 DEF AnswerInv, RingInv
  <2> QED
    BY <1>4, <1>5, <2>1, AnswerThen
<1>9. \A x \in Elems(hub.replies) : YoungThen(x, Queued) /\ YoungThen(x, Held) /\ ToldThen(x)
  BY <1>5, <1>6, <1>7 DEF AnswerInv, RepliesInv
<1>10. RepliesInv'
  BY <1>3, <1>4, <1>5, <1>9, AnswerThen
<1>11. SlotInv'
  <2>1. hub.slot # Nothing => YoungThen(hub.slot, Held) /\ ToldThen(hub.slot)
    BY <1>5, <1>6, <1>7 DEF AnswerInv, SlotInv
  <2> QED
    BY <1>3, <1>4, <1>5, <1>9, <2>1, AnswerThen
<1>12. AirInv'
  <2>1. air.kind = "put" => YoungThen(air.put, 1)
    BY <1>6 DEF AnswerInv, AirInv
  <2>2. air.kind = "ack" => YoungThen(air.ack, Flown) /\ ToldThen(air.ack)
    BY <1>5, <1>6, <1>7 DEF AnswerInv, AirInv
  <2> QED
    BY <1>1, <1>5, <2>1, <2>2, AnswerThen DEF AnswerInv, AirInv
<1> QED
  BY <1>8, <1>10, <1>11, <1>12 DEF AnswerInv

\* The invariant of the answers is inductive.
LEMMA AnswerKept ==
  NumbersLast /\ SketchTypeOK /\ AnswerInv /\ [SketchNext]_sketch => AnswerInv'
<1> SUFFICES ASSUME NumbersLast, SketchTypeOK, AnswerInv, [SketchNext]_sketch PROVE AnswerInv'
  OBVIOUS
<1>0. dev \in Devs /\ hub \in Hubs /\ air \in Airs /\ hub.ring \in Seq(Puts) /\ hub.replies \in Seq(Acks)
  BY SketchIs, HubIs
<1>a. air.kind # "nothing" => air.kind \in {"put", "poll", "ack"}
  BY <1>0 DEF Airs, Nothing
<1>b. dev.pc # "wait" => air.kind = "nothing"
  BY <1>a DEF AnswerInv, AirInv
<1>c. dev.pc \in {"loop", "wait", "back", "test", "drowsy", "asleep"} /\ dev.target \in BOOLEAN
      /\ dev.naptime \in {"nap", "long"}
  BY <1>0, DevIs
<1>d. Nothing.kind = "nothing"
  BY DEF Nothing
<1>1. CASE Click
  <2>1. dev' = [dev EXCEPT !.target = TRUE, !.pc = IF dev.pc = "asleep" THEN "loop" ELSE dev.pc]
        /\ UNCHANGED <<air, hub, faults, life, stored>> /\ clicks' = clicks + 1
    BY <1>1 DEF Click
  <2>2. dev'.seq = dev.seq /\ dev'.pc = IF dev.pc = "asleep" THEN "loop" ELSE dev.pc
    BY <1>0, <2>1 DEF Devs
  <2>3. Spent' = Spent + 1
    BY <2>1, Spends
  <2> QED
    BY <1>b, <1>c, <2>1, <2>2, <2>3, Calm
<1>2. CASE PutsNow
  BY <1>2, AnswerPuts
<1>3. CASE PollsNow
  <2>1. dev' = [dev EXCEPT !.pc = "wait", !.putting = FALSE, !.polls = dev.polls - 1]
        /\ air' = [kind |-> "poll"] /\ UNCHANGED <<hub, clicks, faults, life, stored>>
        /\ dev.pc = "loop"
    BY <1>3 DEF PollsNow
  <2>2. dev'.seq = dev.seq /\ dev'.pc = "wait" /\ air'.kind = "poll" /\ air.kind = "nothing"
    BY <1>0, <1>b, <2>1 DEF Devs
  <2>3. Spent' = Spent + 0 /\ ~Early'
    BY <2>1, <2>2, Spends DEF Early
  <2> QED
    BY <2>1, <2>2, <2>3, Calm
<1>4. CASE HasNoTarget
  <2>1. dev' = [dev EXCEPT !.pc = "test"] /\ UNCHANGED <<air, hub, clicks, faults, life, stored>>
        /\ dev.pc = "loop"
    BY <1>4 DEF HasNoTarget
  <2>2. dev'.seq = dev.seq /\ dev'.pc = "test" /\ air.kind = "nothing"
    BY <1>0, <1>b, <2>1 DEF Devs
  <2>3. Spent' = Spent + 0 /\ ~Early'
    BY <2>1, <2>2, Spends DEF Early
  <2> QED
    BY <2>1, <2>2, <2>3, Calm
<1>5. CASE Receives
  <2>1. dev' = [PutCb(dev, air.ack) EXCEPT !.pc = "back"] /\ air.kind = "ack" /\ air' = Nothing
        /\ UNCHANGED <<hub, clicks, faults, life, stored>>
    BY <1>5 DEF Receives
  <2>2. dev'.seq = dev.seq /\ dev'.pc = "back"
    <3>1. PutCb(dev, air.ack) \in {dev, [dev EXCEPT !.target = FALSE, !.polls = 0]}
      BY DEF PutCb, PutComplete
    <3> QED
      BY <1>0, <2>1, <3>1 DEF Devs
  <2>3. Spent' = Spent + 0 /\ ~Early'
    BY <2>1, <2>2, Spends DEF Early
  <2> QED
    BY <1>d, <2>1, <2>2, <2>3, Calm
<1>6. CASE TimesOut
  <2>1. dev' = [dev EXCEPT !.pc = "back"] /\ UNCHANGED <<air, hub, clicks, faults, life, stored>>
        /\ air = Nothing
    BY <1>6 DEF TimesOut
  <2>2. dev'.seq = dev.seq /\ dev'.pc = "back"
    BY <1>0, <2>1 DEF Devs
  <2>3. Spent' = Spent + 0 /\ ~Early'
    BY <2>1, <2>2, Spends DEF Early
  <2> QED
    BY <1>d, <2>1, <2>2, <2>3, Calm
<1>7. CASE Returns
  <2> DEFINE d == IF dev.putting THEN PutReturned(dev) ELSE dev
  <2>1. dev' = [d EXCEPT !.pc = "test", !.putting = FALSE]
        /\ UNCHANGED <<air, hub, clicks, faults, life, stored>> /\ dev.pc = "back"
    BY <1>7 DEF Returns
  <2>2. d.seq = dev.seq /\ d \in Devs
    <3>1. POLLS \in 0..POLLS /\ (dev.seq + SeqMod - 1) % SeqMod \in Seqs
      BY <1>0, DevIs, SeqsIs, SketchAssumption
    <3> QED
      BY <1>0, <3>1 DEF PutReturned, Devs
  <2> HIDE DEF d
  <2>3. dev'.seq = dev.seq /\ dev'.pc = "test" /\ air.kind = "nothing"
    BY <1>b, <2>1, <2>2 DEF Devs
  <2>4. Spent' = Spent + 0 /\ ~Early'
    BY <2>1, <2>3, Spends DEF Early
  <2> QED
    BY <2>1, <2>3, <2>4, Calm
<1>8. CASE Dozes
  <2>1. dev' = [dev EXCEPT !.pc = "drowsy", !.naptime = Naptime(dev)]
        /\ UNCHANGED <<air, hub, clicks, faults, life, stored>> /\ dev.pc = "test"
    BY <1>8 DEF Dozes
  <2>2. dev'.seq = dev.seq /\ dev'.pc = "drowsy" /\ dev'.target = dev.target
        /\ dev'.naptime = Naptime(dev) /\ air.kind = "nothing"
    BY <1>0, <1>b, <2>1 DEF Devs
  <2>3. Spent' = Spent + 0 /\ ~Early'
    BY <2>1, <2>2, Spends DEF Early, Naptime
  <2> QED
    BY <2>1, <2>2, <2>3, Calm
<1>9. CASE FallsAsleep
  <2>1. dev' = [dev EXCEPT !.pc = "asleep"] /\ UNCHANGED <<air, hub, clicks, faults, life, stored>>
        /\ dev.pc = "drowsy"
    BY <1>9 DEF FallsAsleep
  <2>2. dev'.seq = dev.seq /\ dev'.pc = "asleep" /\ dev'.target = dev.target
        /\ dev'.naptime = dev.naptime /\ air.kind = "nothing"
    BY <1>0, <1>b, <2>1 DEF Devs
  <2>3. Spent' = Spent + 0 /\ (Early' => Early)
    BY <2>1, <2>2, Spends DEF Early
  <2> QED
    BY <2>1, <2>2, <2>3, Calm
<1>10. CASE Wakes
  <2>1. dev' = [dev EXCEPT !.pc = "loop"] /\ UNCHANGED <<air, clicks, life, stored>>
        /\ dev.pc = "asleep" /\ hub' = [hub EXCEPT !.ticked = FALSE]
        /\ IF dev.naptime = "long" \/ (hub.ring = <<>> /\ hub.replies = <<>>)
           THEN UNCHANGED faults ELSE Fault
    BY <1>10 DEF Wakes
  <2>2. dev'.seq = dev.seq /\ dev'.pc = "loop" /\ dev'.target = dev.target /\ air.kind = "nothing"
    BY <1>0, <1>b, <2>1 DEF Devs
  <2>3. hub'.ring = hub.ring /\ hub'.replies = hub.replies /\ hub'.slot = hub.slot
    BY <1>0, <2>1, TickedSet
  <2>4. CASE dev.naptime = "long"
    <3>1. Spent' = Spent + 0 /\ (Early' => Early)
      BY <2>1, <2>2, <2>4, Spends DEF Early
    <3> QED
      BY <2>1, <2>2, <2>3, <3>1, Calm
  <2>5. CASE dev.naptime # "long" /\ hub.ring = <<>> /\ hub.replies = <<>>
    <3>1. Spent' = Spent + 0
      BY <2>1, <2>5, Spends
    <3>2. Elems(<<>>) = {}
      BY DEF Elems
    <3>3. Elems(hub'.ring) = {} /\ Elems(hub'.replies) = {}
      BY <2>3, <2>5, <3>2
    <3> QED
      BY <2>1, <2>2, <2>3, <3>1, <3>3, Calm
  <2>6. CASE Fault
    <3>1. Spent' = Spent + 1
      BY <2>1, <2>6, Spends
    <3> QED
      BY <2>1, <2>2, <2>3, <3>1, Calm
  <2> QED
    BY <2>1, <2>4, <2>5, <2>6
<1>11. CASE Restarts
  BY <1>11, AnswerRestarts
<1>12. CASE RadioReceived
  BY <1>12, AnswerReceived
<1>13. CASE FrameLost
  <2>1. Fault /\ air' = Nothing /\ UNCHANGED <<dev, hub, clicks, life, stored>>
    BY <1>13 DEF FrameLost
  <2>2. Spent' = Spent + 1
    BY <2>1, Spends
  <2> QED
    BY <1>d, <2>1, <2>2, Calm
<1>14. CASE Request
  BY <1>14, AnswerRequests
<1>15. CASE LineRx
  BY <1>15, AnswerHeld
<1>16. CASE Mac1Hz
  <2> DEFINE h == IF hub.timeout = 0 THEN SlotFreed(hub) ELSE [hub EXCEPT !.timeout = @ - 1]
  <2>1. hub' = [h EXCEPT !.ticked = TRUE] /\ UNCHANGED <<dev, air, clicks, faults, life, stored>>
    BY <1>16 DEF Mac1Hz
  <2>2. h \in Hubs /\ h.ring = hub.ring /\ h.replies = hub.replies
        /\ (h.slot = hub.slot \/ h.slot = Nothing)
    <3>1. /\ SlotFreed(hub) \in Hubs /\ SlotFreed(hub).ring = hub.ring
          /\ SlotFreed(hub).replies = hub.replies /\ SlotFreed(hub).slot = Nothing
      BY <1>0, SlotFreedIs
    <3>2. hub.timeout # 0 => hub.timeout - 1 \in 0..TIMEOUT_S
      BY <1>0, HubIs, SketchAssumption
    <3>3. hub.timeout # 0 => /\ [hub EXCEPT !.timeout = @ - 1] \in Hubs
                             /\ [hub EXCEPT !.timeout = @ - 1].ring = hub.ring
                             /\ [hub EXCEPT !.timeout = @ - 1].replies = hub.replies
                             /\ [hub EXCEPT !.timeout = @ - 1].slot = hub.slot
      BY <1>0, <3>2 DEF Hubs
    <3> QED
      BY <3>1, <3>3
  <2> HIDE DEF h
  <2>3. hub'.ring = hub.ring /\ hub'.replies = hub.replies
        /\ (hub'.slot = hub.slot \/ hub'.slot = Nothing)
    BY <2>1, <2>2, TickedSet
  <2>4. Spent' = Spent + 0 /\ (Early' => Early)
    BY <2>1, Spends DEF Early
  <2> QED
    BY <1>b, <2>1, <2>3, <2>4, Calm
<1>17. CASE RequestDropped
  <2>1. hub.ring # <<>> /\ Fault /\ hub' = [hub EXCEPT !.ring = Tail(hub.ring)]
        /\ UNCHANGED <<dev, air, clicks, life, stored>>
    BY <1>17 DEF RequestDropped
  <2>2. Tail(hub.ring) \in Seq(Puts) /\ \A x \in Elems(Tail(hub.ring)) : x \in Elems(hub.ring)
    BY <1>0, <2>1, ElemsTail
  <2>3. hub'.ring = Tail(hub.ring) /\ hub'.replies = hub.replies /\ hub'.slot = hub.slot
    BY <1>0, <2>1, <2>2, RingSet
  <2>4. Spent' = Spent + 1
    BY <2>1, Spends
  <2> QED
    BY <1>b, <2>1, <2>2, <2>3, <2>4, Calm
<1>18. CASE ReplyDropped
  <2>1. hub.replies # <<>> /\ Fault /\ hub' = [hub EXCEPT !.replies = Tail(hub.replies)]
        /\ UNCHANGED <<dev, air, clicks, life, stored>>
    BY <1>18 DEF ReplyDropped
  <2>2. Tail(hub.replies) \in Seq(Acks)
        /\ \A x \in Elems(Tail(hub.replies)) : x \in Elems(hub.replies)
    BY <1>0, <2>1, ElemsTail
  <2>3. hub'.replies = Tail(hub.replies) /\ hub'.ring = hub.ring /\ hub'.slot = hub.slot
    BY <1>0, <2>1, <2>2, RepliesSet
  <2>4. Spent' = Spent + 1
    BY <2>1, Spends
  <2> QED
    BY <1>b, <2>1, <2>2, <2>3, <2>4, Calm
<1>19. CASE HubRestarts
  <2>1. Fault /\ hub' = [Empty EXCEPT !.ticked = hub.ticked]
        /\ UNCHANGED <<dev, air, clicks, life, stored>> /\ hub.ticked \in BOOLEAN
    BY <1>0, <1>19, HubIs DEF HubRestarts
  <2>2. hub'.ring = <<>> /\ hub'.replies = <<>> /\ hub'.slot = Nothing
    BY <2>1, EmptyIs, TickedSet
  <2>3. Elems(<<>>) = {}
    BY DEF Elems
  <2>4. Elems(hub'.ring) = {} /\ Elems(hub'.replies) = {}
    BY <2>2, <2>3
  <2>5. Spent' = Spent + 1
    BY <2>1, Spends
  <2> QED
    BY <1>b, <2>1, <2>2, <2>4, <2>5, Calm
<1>20. CASE UNCHANGED sketch
  <2>1. UNCHANGED <<dev, air, hub, clicks, faults, life, stored>>
    BY <1>20 DEF sketch
  <2>2. Spent' = Spent + 0 /\ (Early' => Early)
    BY <2>1, Spends DEF Early
  <2> QED
    BY <1>b, <2>1, <2>2, Calm
<1> QED
  BY <1>1, <1>2, <1>3, <1>4, <1>5, <1>6, <1>7, <1>8, <1>9, <1>10, <1>11, <1>12, <1>13, <1>14,
     <1>15, <1>16, <1>17, <1>18, <1>19, <1>20 DEF SketchNext, DeviceRuns, HubRuns

\* Nothing is under way at first.
LEMMA SketchStarts == SketchInit => SketchTypeOK /\ AnswerInv
<1> SUFFICES ASSUME SketchInit PROVE SketchTypeOK /\ AnswerInv
  OBVIOUS
<1>1. /\ dev = Booted /\ air = Nothing /\ hub = Empty
      /\ clicks = 0 /\ faults = 0 /\ life = 0 /\ stored = {}
  BY DEF SketchInit
<1>2. 0 \in 0..MaxClicks /\ 0 \in 0..MaxFaults /\ 0 \in 0..0 /\ Len(<<>>) <= Room
  BY SketchAssumption
<1>3. SketchTypeOK
  BY <1>1, <1>2, BootedIs, EmptyIs, SketchIs DEF Airs
<1>4. air.kind = "nothing" /\ Elems(<<>>) = {}
  BY <1>1 DEF Nothing, Elems
<1>5. hub.ring = <<>> /\ hub.replies = <<>> /\ hub.slot = Nothing
  BY <1>1, EmptyIs
<1> QED
  BY <1>3, <1>4, <1>5 DEF AnswerInv, AirInv, RingInv, RepliesInv, SlotInv

\* putcomplete clears the target on an answer that is ok, has the number the
\* sketch waits for, and so tells of a put carried out.
LEMMA AnswerKeeps ==
  ASSUME SketchTypeOK, AnswerInv, Receives, dev.target, ~dev'.target
  PROVE  CarriedOut(dev.storedseq)
<1>1. dev \in Devs /\ air \in Airs /\ air.kind = "ack" /\ air.ack \in Acks /\ life \in Nat
      /\ dev' = [PutCb(dev, air.ack) EXCEPT !.pc = "back"]
  BY SketchIs, AirIs, SketchAssumption DEF Receives
<1>2. air.ack.ok /\ air.ack.seq = dev.storedseq
  <2>1. SUFFICES ASSUME ~(air.ack.ok /\ air.ack.seq = dev.storedseq) PROVE FALSE
    OBVIOUS
  <2>2. PutCb(dev, air.ack) = dev
    BY <2>1 DEF PutCb, PutComplete
  <2>3. dev'.target = dev.target
    BY <1>1, <2>2 DEF Devs
  <2> QED
    BY <2>3
<1>3. air.ack.life <= life /\ air.ack.life \in Nat
  BY <1>1, SketchAssumption DEF AnswerInv, AirInv, Young, Acks
<1>4. air.ack.life \in 0..life
  BY <1>1, <1>3
<1>5. [life |-> air.ack.life, seq |-> dev.storedseq] \in stored
  BY <1>1, <1>2 DEF AnswerInv, AirInv, WasStored
<1> QED
  BY <1>4, <1>5 DEF CarriedOut

-----------------------------------------------------------------------------
(* The theorems of the whole device.                                        *)

\* The clock's counters and the sketch's, the queues and frames between device,
\* hub and server keep their types; the hub's ring is never over-full.
THEOREM DeviceTypeCorrect == Spec => []TypeOK
<1>1. Init => TypeOK
  BY ClockStarts, SketchStarts DEF Init, TypeOK, ClockInv
<1>2. TypeOK /\ [Next]_vars => TypeOK'
  BY StepIs, ClockTypes, SketchTypes DEF TypeOK, ClockStep, SketchStep
<1> QED
  BY <1>1, <1>2, PTL DEF Spec

\* putcomplete puts the light out only when the server has carried out the put of
\* the number waited for, whatever is lost, repeated, refused or restarted.
THEOREM LedOffIsStored == NumbersLast => (Spec => LedOffStored)
<1> SUFFICES ASSUME NumbersLast PROVE Spec => LedOffStored
  OBVIOUS
<1>1. Init => SketchTypeOK /\ AnswerInv
  BY SketchStarts DEF Init
<1>2. SketchTypeOK /\ AnswerInv /\ [Next]_vars => (SketchTypeOK /\ AnswerInv)'
  BY StepIs, SketchTypes, AnswerKept DEF SketchStep
<1>3. SketchTypeOK /\ AnswerInv
      => [Receives /\ dev.target /\ ~dev'.target => CarriedOut(dev.storedseq)]_sketch
  BY AnswerKeeps
<1> QED
  BY <1>1, <1>2, <1>3, PTL DEF Spec, LedOffStored
===============================================================================
