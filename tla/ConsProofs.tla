------------------------------ MODULE ConsProofs ------------------------------
(***************************************************************************)
(* The console's ring is the queue of ByteQueue, for every size of the ring *)
(* and every width of half an index.  The argument: what cons_getch takes   *)
(* for the reader's position is never one where the ring is empty, since    *)
(* the interrupt moves rxfifo_in only away from rxfifo_out; and while half  *)
(* of the new rxfifo_out is stored there is room for the one character that *)
(* can come.                                                                *)
(*                                                                         *)
(* And the bootloader, the line and the programmer keep their types: every  *)
(* page of the flash, of rambuf and of verbuf stays PageLen bytes long,     *)
(* whatever the image is, whichever of its bytes read as commands once a    *)
(* character is lost, and wherever serialRead lapses.                       *)
(***************************************************************************)
EXTENDS Flashing, SequenceTheorems, TLAPS

Slot(i) == (First + i - 1) % RXFIFO_SIZE

LEMMA AfterIs ==
  \A x \in Indices : After(x) = (IF x + 1 = RXFIFO_SIZE THEN 0 ELSE x + 1) /\ After(x) \in Indices
BY ConsAssumption DEF After, Indices

LEMMA FullIs ==
  ASSUME con.in \in Indices, con.out \in Indices
  PROVE  Full <=> After(con.in) = con.out
<1>1. (con.out + RXFIFO_SIZE - 1) % RXFIFO_SIZE
        = IF con.out = 0 THEN RXFIFO_SIZE - 1 ELSE con.out - 1
  BY ConsAssumption DEF Indices
<1> QED
  BY <1>1, AfterIs, ConsAssumption DEF Full, Indices

\* The same with one case for each side of the ring's end.
Cnt(f, i) == IF f <= i THEN i - f ELSE i + RXFIFO_SIZE - f
Pos(f, k) == IF f + k - 1 < RXFIFO_SIZE THEN f + k - 1 ELSE f + k - 1 - RXFIFO_SIZE

LEMMA CountIs ==
  ASSUME con.in \in Indices, First \in Indices
  PROVE  Count = Cnt(First, con.in) /\ \A k \in 1 .. RXFIFO_SIZE : Slot(k) = Pos(First, k)
<1> USE ConsAssumption DEF Indices
<1>1. \A x \in 0 .. RXFIFO_SIZE - 1 : x % RXFIFO_SIZE = x
  OBVIOUS
<1>2. \A x \in RXFIFO_SIZE .. RXFIFO_SIZE + RXFIFO_SIZE - 1 : x % RXFIFO_SIZE = x - RXFIFO_SIZE
  OBVIOUS
<1> QED
  BY <1>1, <1>2 DEF Count, Slot, Cnt, Pos

LEMMA CntFacts ==
  ASSUME NEW f \in Indices, NEW i \in Indices
  PROVE  /\ Cnt(f, i) \in 0 .. RXFIFO_SIZE - 1
         /\ i = f <=> Cnt(f, i) = 0
         /\ After(i) = f <=> Cnt(f, i) = RXFIFO_SIZE - 1
         /\ After(i) # f => Cnt(f, After(i)) = Cnt(f, i) + 1
         /\ i # f => Cnt(After(f), i) = Cnt(f, i) - 1
BY AfterIs, ConsAssumption DEF Cnt, Indices

LEMMA PosFacts ==
  ASSUME NEW f \in Indices, NEW i \in Indices
  PROVE  /\ \A k \in 1 .. Cnt(f, i) : Pos(f, k) \in Indices /\ Pos(f, k) # i
         /\ Pos(f, Cnt(f, i) + 1) = i
         /\ Pos(f, 1) = f
         /\ \A k \in 1 .. RXFIFO_SIZE - 1 : Pos(After(f), k) = Pos(f, k + 1)
BY AfterIs, ConsAssumption DEF Cnt, Pos, Indices

LEMMA HalvesJoin == \A x \in Indices : Joined(x, x) = x
BY ConsAssumption DEF Indices, Joined, Upper, Lower

LEMMA JoinedBound == \A x, y \in 0 .. RXFIFO_SIZE - 1 : Joined(x, y) \in 0 .. RXFIFO_SIZE + Half
<1> SUFFICES ASSUME NEW x \in 0 .. RXFIFO_SIZE - 1, NEW y \in 0 .. RXFIFO_SIZE - 1
             PROVE  Joined(x, y) \in 0 .. RXFIFO_SIZE + Half
  OBVIOUS
<1>1. x = (x \div Half) * Half + (x % Half) /\ x % Half \in 0 .. Half - 1
  BY ConsAssumption
<1>2. y % Half \in 0 .. Half - 1
  BY ConsAssumption
<1>3. (x \div Half) * Half \in Nat
  BY ConsAssumption
<1> QED
  BY <1>1, <1>2, <1>3, ConsAssumption DEF Joined, Upper, Lower

-----------------------------------------------------------------------------
(* The invariant.                                                           *)

\* While cons_getch has half of rxfifo_in, a new value of it is not where the
\* ring is empty; once it has compared, the ring is not empty; while it stores
\* rxfifo_out there is room for a character.
RingInv ==
  /\ ConsTypeOK
  /\ con.at # "storing" => con.out \in Indices
  /\ con.at = "reading" => con.in = con.seen \/ con.in # con.out
  /\ con.at = "taking" => con.in # con.out
  /\ con.at = "storing" /\ ~con.came => After(con.in) # con.next

LEMMA FirstIs == RingInv => First \in Indices
BY AfterIs DEF RingInv, ConsTypeOK, First

LEMMA IsrType ==
  ASSUME RingInv, NEW c \in Chars, consrx_isr(c)
  PROVE  ConsTypeOK'
<1> DEFINE mem == IF Full THEN con.rxfifo ELSE [con.rxfifo EXCEPT ![con.in] = c]
           in == IF Full THEN con.in ELSE After(con.in)
           drops == IF Full THEN 1 - con.drops ELSE con.drops
           needed == IF c = "+" THEN con.breaksneeded - 1 ELSE 3
           came == con.at \in {"reading", "storing"}
<1>1. needed \in 1..3
  BY DEF RingInv, ConsTypeOK, consrx_isr, Breaks
<1>2. mem \in [Indices -> Chars] /\ in \in Indices /\ drops \in {0, 1} /\ came \in BOOLEAN
  BY AfterIs DEF RingInv, ConsTypeOK
<1>3. con' = [con EXCEPT !.rxfifo = mem, !.in = in, !.drops = drops,
                         !.breaksneeded = needed, !.came = came]
  BY DEF consrx_isr, Received
<1> HIDE DEF mem, in, drops, needed, came
<1> QED
  BY <1>1, <1>2, <1>3 DEF RingInv, ConsTypeOK

LEMMA IsrInv ==
  ASSUME RingInv, NEW c \in Chars, consrx_isr(c)
  PROVE  RingInv'
<1>1. ConsTypeOK'
  BY IsrType
<1>2. con' = Received(c) /\ ~con.came /\ con.in \in Indices
  BY DEF consrx_isr, RingInv, ConsTypeOK
<1>3. con'.at = con.at /\ con'.out = con.out /\ con'.seen = con.seen /\ con'.next = con.next
  BY <1>2 DEF Received, RingInv, ConsTypeOK
<1>4. con'.in = con.in \/ (~Full /\ con'.in = After(con.in))
  BY <1>2 DEF Received, RingInv, ConsTypeOK
<1>5. con.at = "storing" => con'.came
  BY <1>2 DEF Received, RingInv, ConsTypeOK
<1>6. con.out \in Indices /\ ~Full => After(con.in) # con.out
  BY <1>2, FullIs
<1> QED
  BY <1>1, <1>3, <1>4, <1>5, <1>6 DEF RingInv

LEMMA GetchInv == RingInv /\ cons_getch => RingInv'
<1> SUFFICES ASSUME RingInv, cons_getch PROVE RingInv'
  OBVIOUS
<1>1. CASE GetchReads
  BY <1>1 DEF GetchReads, RingInv, ConsTypeOK
<1>2. CASE GetchCompares
  <2>1. 0 \in Indices
    BY ConsAssumption DEF Indices
  <2>2. con.in = con.seen => SeenIn = con.in
    BY HalvesJoin DEF SeenIn, RingInv, ConsTypeOK
  <2>3. con.out \in Indices /\ (SeenIn # con.out => con.in # con.out)
    BY <1>2, <2>2 DEF RingInv, GetchCompares
  <2> QED
    BY <1>2, <2>1, <2>3 DEF GetchCompares, RingInv, ConsTypeOK
<1>3. CASE GetchStores
  <2>1. con.in \in Indices /\ con.out \in Indices /\ con.in # con.out
    BY <1>3 DEF GetchStores, RingInv, ConsTypeOK
  <2>2. After(con.out) \in Indices /\ After(con.in) # After(con.out)
    BY <2>1, AfterIs DEF Indices
  <2>3. Joined(After(con.out), con.out) \in 0 .. RXFIFO_SIZE + Half
        /\ Joined(con.out, After(con.out)) \in 0 .. RXFIFO_SIZE + Half
    BY <2>1, <2>2, JoinedBound DEF Indices
  <2> QED
    BY <1>3, <2>1, <2>2, <2>3 DEF GetchStores, RingInv, ConsTypeOK
<1>4. CASE GetchReturns
  <2>1. 0 \in Indices /\ con.next \in Indices /\ con.next \in 0 .. RXFIFO_SIZE + Half
    BY ConsAssumption DEF Indices, RingInv, ConsTypeOK
  <2> QED
    BY <1>4, <2>1 DEF GetchReturns, RingInv, ConsTypeOK
<1> QED
  BY <1>1, <1>2, <1>3, <1>4 DEF cons_getch

LEMMA ClearedInv ==
  ASSUME NEW mem \in [Indices -> Chars], NEW c \in Chars, con' = Cleared(mem, c)
  PROVE  RingInv'
<1>1. 0 \in Indices /\ 0 \in 0 .. RXFIFO_SIZE + Half
  BY ConsAssumption DEF Indices
<1> QED
  BY <1>1 DEF RingInv, ConsTypeOK, Cleared

-----------------------------------------------------------------------------
(* The queue the ring stands for.                                           *)

\* The ring's content is a sequence of at most RXFIFO_SIZE - 1 characters, and
\* is that long exactly when the next would make it look empty.
HeldFacts ==
  /\ First \in Indices /\ con.in \in Indices /\ con.rxfifo \in [Indices -> Chars]
  /\ Held \in Seq(Chars) /\ Len(Held) = Cnt(First, con.in)
  /\ \A k \in 1 .. Cnt(First, con.in) : Held[k] = con.rxfifo[Pos(First, k)]

LEMMA HeldIsSeq ==
  ASSUME First \in Indices, con.in \in Indices, con.rxfifo \in [Indices -> Chars]
  PROVE  HeldFacts
<1> DEFINE n == Cnt(First, con.in)
<1>1. n \in Nat /\ n \in 0 .. RXFIFO_SIZE - 1 /\ Count = n
  BY CntFacts, CountIs, ConsAssumption
<1>2. \A k \in 1..n : Slot(k) = Pos(First, k) /\ Pos(First, k) \in Indices
  BY <1>1, PosFacts, CountIs, ConsAssumption
<1>3. Held = [k \in 1..n |-> con.rxfifo[Pos(First, k)]]
  BY <1>1, <1>2 DEF Held, Slot
<1> HIDE DEF n
<1>4. Held \in [1..n -> Chars]
  BY <1>2, <1>3
<1>5. Held \in Seq(Chars) /\ Len(Held) = n
  BY <1>1, <1>3, <1>4
<1> QED
  BY <1>3, <1>5 DEF HeldFacts, n

\* A character written at con.in, not beside a full ring's first.
LEMMA PutIsPut ==
  ASSUME HeldFacts, HeldFacts', NEW c \in Chars, First' = First, After(con.in) # First,
         con'.in = After(con.in), con'.rxfifo = [con.rxfifo EXCEPT ![con.in] = c]
  PROVE  Held' = Append(Held, c) /\ Len(Held) < RXFIFO_SIZE - 1
<1> DEFINE n == Cnt(First, con.in)
<1>1. n \in 0 .. RXFIFO_SIZE - 2 /\ n \in Nat
  BY CntFacts, ConsAssumption DEF HeldFacts
<1>2. Len(Held') = n + 1 /\ Len(Held) = n
  BY CntFacts DEF HeldFacts
<1>3. \A k \in 1..n : Held[k] = con.rxfifo[Pos(First, k)] /\ Pos(First, k) # con.in
                      /\ Pos(First, k) \in Indices
  BY PosFacts DEF HeldFacts
<1>4. \A k \in 1 .. n + 1 : Held'[k] = con'.rxfifo[Pos(First, k)]
  BY <1>2, CntFacts DEF HeldFacts
<1>5. Pos(First, n + 1) = con.in
  BY PosFacts DEF HeldFacts
<1> HIDE DEF n
<1>6. \A k \in 1..n : Held'[k] = Held[k]
  BY <1>1, <1>3, <1>4 DEF HeldFacts
<1>7. Held'[n + 1] = c
  BY <1>1, <1>4, <1>5 DEF HeldFacts
<1>8. \A k \in 1 .. n + 1 : Append(Held, c)[k] = Held'[k]
  BY <1>1, <1>2, <1>6, <1>7 DEF HeldFacts
<1> QED
  BY <1>1, <1>2, <1>8, SeqEqual, ConsAssumption DEF HeldFacts

\* The first character given up.
LEMMA TakeIsTake ==
  ASSUME HeldFacts, HeldFacts', First' = After(First), con.in # First,
         con'.in = con.in, con'.rxfifo = con.rxfifo
  PROVE  Held # <<>> /\ Held' = Tail(Held) /\ Head(Held) = con.rxfifo[First]
<1> DEFINE n == Cnt(First, con.in)
<1>1. n \in 1 .. RXFIFO_SIZE - 1 /\ n \in Nat /\ Len(Held) = n
  BY CntFacts, ConsAssumption DEF HeldFacts
<1>2. Len(Held') = n - 1
  BY CntFacts DEF HeldFacts
<1>3. \A k \in 1..n : Held[k] = con.rxfifo[Pos(First, k)]
  BY DEF HeldFacts
<1>4. \A k \in 1 .. n - 1 : Held'[k] = con.rxfifo[Pos(First, k + 1)]
  <2>1. Cnt(First', con'.in) = n - 1
    BY CntFacts DEF HeldFacts
  <2>2. \A k \in 1 .. n - 1 : Held'[k] = con'.rxfifo[Pos(First', k)]
    BY <2>1 DEF HeldFacts
  <2>3. \A k \in 1 .. n - 1 : Pos(After(First), k) = Pos(First, k + 1)
    <3>1. 1 .. n - 1 \subseteq 1 .. RXFIFO_SIZE - 1
      BY <1>1, ConsAssumption
    <3> QED
      BY <3>1, PosFacts DEF HeldFacts
  <2> QED
    BY <2>2, <2>3
<1>5. Pos(First, 1) = First
  BY PosFacts DEF HeldFacts
<1> HIDE DEF n
<1>6. Held # <<>> /\ Held \in Seq(Chars)
  BY <1>1 DEF HeldFacts
<1>7. /\ Tail(Held) \in Seq(Chars) /\ Len(Tail(Held)) = n - 1
      /\ \A k \in 1 .. n - 1 : Tail(Held)[k] = Held[k + 1]
      /\ Head(Held) = Held[1]
  BY <1>1, <1>6, HeadTailProperties
<1>8. \A k \in 1 .. n - 1 : Held'[k] = Tail(Held)[k]
  BY <1>1, <1>3, <1>4, <1>7
<1> QED
  BY <1>1, <1>2, <1>3, <1>5, <1>6, <1>7, <1>8, SeqEqual DEF HeldFacts

LEMMA RingHeld == RingInv => HeldFacts
BY FirstIs, HeldIsSeq DEF RingInv, ConsTypeOK

LEMMA RingHeldNext == RingInv' => HeldFacts'
BY RingHeld, PTL

\* The interrupt puts a character into the queue or drops one.
LEMMA IsrPuts ==
  ASSUME RingInv, NEW c \in Chars, consrx_isr(c)
  PROVE  Queue!Put(c) \/ Queue!Drop
<1>1. RingInv' /\ HeldFacts /\ HeldFacts'
  BY IsrInv, RingHeld, RingHeldNext
<1>2. con' = Received(c) /\ con.in \in Indices
  BY DEF consrx_isr, RingInv, ConsTypeOK
<1>3. con'.at = con.at /\ con'.out = con.out /\ con'.next = con.next /\ con'.ch = con.ch
  BY <1>2 DEF Received, RingInv, ConsTypeOK
<1>4. First' = First
  BY <1>3 DEF First
<1>5. CASE Full
  <2>1. con'.in = con.in /\ con'.rxfifo = con.rxfifo /\ con'.drops = 1 - con.drops
    BY <1>2, <1>5 DEF Received, RingInv, ConsTypeOK
  <2>2. Held' = Held
    BY <1>4, <2>1 DEF Held, Count
  <2>3. Len(Held) = RXFIFO_SIZE - 1 \/ con.at \in {"taking", "storing"}
    <3>1. CASE con.at \in {"taking", "storing"}
      BY <3>1
    <3>2. CASE con.at \notin {"taking", "storing"}
      <4>1. First = con.out /\ con.out \in Indices
        BY <3>2 DEF First, RingInv
      <4> QED
        BY <1>1, <1>5, <4>1, FullIs, CntFacts DEF HeldFacts
    <3> QED
      BY <3>1, <3>2
  <2> QED
    BY <1>3, <2>1, <2>2, <2>3 DEF Queue!Drop
<1>6. CASE ~Full
  <2>1. con'.in = After(con.in) /\ con'.rxfifo = [con.rxfifo EXCEPT ![con.in] = c]
        /\ con'.drops = con.drops
    BY <1>2, <1>6 DEF Received, RingInv, ConsTypeOK
  <2>2. After(con.in) # First
    <3>1. CASE con.at = "storing"
      <4>1. ~con.came /\ First = con.next
        BY <3>1 DEF consrx_isr, First
      <4> QED
        BY <3>1, <4>1 DEF RingInv
    <3>2. CASE con.at = "taking"
      <4>1. First = After(con.out) /\ con.in # con.out /\ con.out \in Indices
        BY <3>2 DEF First, RingInv
      <4> QED
        BY <1>2, <4>1, AfterIs DEF Indices
    <3>3. CASE con.at \notin {"storing", "taking"}
      <4>1. First = con.out /\ con.out \in Indices
        BY <3>3 DEF First, RingInv
      <4> QED
        BY <1>2, <1>6, <4>1, FullIs
    <3> QED
      BY <3>1, <3>2, <3>3
  <2>3. Held' = Append(Held, c) /\ Len(Held) < RXFIFO_SIZE - 1
    BY <1>1, <1>4, <2>1, <2>2, PutIsPut
  <2> QED
    BY <1>3, <2>1, <2>3 DEF Queue!Put
<1> QED
  BY <1>5, <1>6

QueueVars == <<Held, con.ch, con.at \in {"taking", "storing"}, con.drops>>

\* A step of cons_getch takes a character, gives back its room, or is unseen.
LEMMA GetchTakes ==
  ASSUME RingInv, cons_getch
  PROVE  Queue!Take \/ Queue!Taken \/ UNCHANGED QueueVars
<1>1. RingInv' /\ HeldFacts /\ HeldFacts'
  BY GetchInv, RingHeld, RingHeldNext
<1>2. con \in [rxfifo : [Indices -> Chars], in : Indices, out : 0..RXFIFO_SIZE + Half,
           breaksneeded : 1..3, at : {"idle", "reading", "taking", "storing"},
           seen : Indices, first : {"upper", "lower"}, next : Indices, ch : Chars,
           came : BOOLEAN, drops : {0, 1}]
  BY DEF RingInv, ConsTypeOK
<1>3. con'.in = con.in /\ con'.rxfifo = con.rxfifo /\ con'.drops = con.drops
  BY <1>2 DEF cons_getch, GetchReads, GetchCompares, GetchStores, GetchReturns
<1>4. First' = First => Held' = Held
  BY <1>3 DEF Held, Count
<1>5. CASE GetchReads
  <2>1. con'.at = "reading" /\ con.at = "idle" /\ con'.out = con.out /\ con'.ch = con.ch
    BY <1>2, <1>5 DEF GetchReads
  <2> QED
    BY <1>3, <1>4, <2>1 DEF First, QueueVars
<1>6. CASE GetchCompares /\ SeenIn = con.out
  <2>1. con.at = "reading" /\ con'.at = "idle" /\ con'.out = con.out /\ con'.ch = con.ch
    BY <1>2, <1>6 DEF GetchCompares
  <2> QED
    BY <1>3, <1>4, <2>1 DEF First, QueueVars
<1>7. CASE GetchCompares /\ SeenIn # con.out
  <2>1. /\ con.at = "reading" /\ con'.at = "taking" /\ con'.out = con.out
        /\ con'.ch = con.rxfifo[con.out]
    BY <1>2, <1>7 DEF GetchCompares
  <2>2. First = con.out /\ First' = After(First) /\ con.in # First
    BY <1>1, <1>3, <2>1 DEF First, RingInv
  <2>3. Held # <<>> /\ Held' = Tail(Held) /\ Head(Held) = con.rxfifo[First]
    BY <1>1, <1>3, <2>2, TakeIsTake
  <2> QED
    BY <1>3, <2>1, <2>2, <2>3 DEF Queue!Take
<1>8. CASE GetchStores
  <2>1. con.at = "taking" /\ con'.at = "storing" /\ con'.next = After(con.out) /\ con'.ch = con.ch
    BY <1>2, <1>8 DEF GetchStores
  <2> QED
    BY <1>3, <1>4, <2>1 DEF First, QueueVars
<1>9. CASE GetchReturns
  <2>1. con.at = "storing" /\ con'.at = "idle" /\ con'.out = con.next /\ con'.ch = con.ch
    BY <1>2, <1>9 DEF GetchReturns
  <2> QED
    BY <1>3, <1>4, <2>1 DEF First, Queue!Taken
<1> QED
  BY <1>5, <1>6, <1>7, <1>8, <1>9 DEF cons_getch

LEMMA ClearedIsEmpty ==
  ASSUME NEW mem, NEW c, con = Cleared(mem, c)
  PROVE  Held = <<>> /\ con.ch = c /\ con.at = "idle" /\ con.drops = 0
<1>1. con.in = 0 /\ con.out = 0 /\ con.at = "idle" /\ con.ch = c /\ con.drops = 0
  BY DEF Cleared
<1>2. First = 0 /\ 0 \in Indices
  BY <1>1, ConsAssumption DEF First, Indices
<1>3. Count = 0
  BY <1>1, <1>2, CountIs DEF Cnt
<1> QED
  BY <1>1, <1>3 DEF Held

LEMMA ClearedIsEmptyNext ==
  ASSUME NEW mem, NEW c, con' = Cleared(mem, c)
  PROVE  Held' = <<>> /\ con'.ch = c /\ con'.at = "idle" /\ con'.drops = 0
<1>1. con'.in = 0 /\ con'.out = 0 /\ con'.at = "idle" /\ con'.ch = c /\ con'.drops = 0
  BY DEF Cleared
<1>2. First' = 0
  BY <1>1 DEF First
<1>3. Count' = 0
  BY <1>1, <1>2, ConsAssumption DEF Count
<1> QED
  BY <1>1, <1>3 DEF Held

LEMMA ResetClears ==
  ASSUME RingInv, Resets
  PROVE  RingInv' /\ Queue!Clear
<1>1. con' = Cleared(con.rxfifo, con.ch)
  BY DEF Resets
<1>2. con.rxfifo \in [Indices -> Chars] /\ con.ch \in Chars
  BY DEF RingInv, ConsTypeOK
<1>3. RingInv'
  BY <1>1, <1>2, ClearedInv
<1> QED
  BY <1>1, <1>2, <1>3, ClearedIsEmptyNext DEF Queue!Clear

LEMMA CharIsChar == \A byte : AsChar(byte) \in Chars
BY FlashingAssumption DEF AsChar

\* What a step of the whole does to the ring.
LEMMA StepOnRing ==
  ASSUME [Next]_vars
  PROVE  \/ \E c \in Chars : consrx_isr(c)
         \/ cons_getch
         \/ Resets
         \/ UNCHANGED con
<1>1. CASE ConsoleGets
  BY <1>1, CharIsChar DEF ConsoleGets
<1>2. CASE ProgramReads
  BY <1>2 DEF ProgramReads
<1>3. CASE Watchdog \/ UserResets \/ PowerReturns
  BY <1>3 DEF Watchdog, UserResets, PowerReturns
<1>4. CASE BootRuns \/ DeafProgram \/ Unpowered \/ PowerGoes \/ ByteLost \/ Types
  BY <1>4 DEF BootRuns, DeafProgram, Unpowered, PowerGoes, ByteLost, Types
<1>5. CASE ProgRuns
  BY <1>5 DEF ProgRuns, WaitHears, WaitLapses, WaitGivesUp, AnswerHeard, AnswerLapses, ReadHears,
     ReadLapses, ReadAnswered, ReadAnswerLapses, ConsoleShows, RunAgain, Keeps
<1>6. CASE UNCHANGED vars
  BY <1>6 DEF vars
<1> QED
  BY <1>1, <1>2, <1>3, <1>4, <1>5, <1>6 DEF Next, BoardRuns

LEMMA StepInv == RingInv /\ [Next]_vars => RingInv'
<1> SUFFICES ASSUME RingInv, [Next]_vars PROVE RingInv'
  OBVIOUS
<1>1. CASE UNCHANGED con
  BY <1>1 DEF RingInv, ConsTypeOK
<1> QED
  BY <1>1, StepOnRing, IsrInv, GetchInv, ResetClears

LEMMA StepOnQueue == RingInv /\ [Next]_vars => Queue!Next \/ UNCHANGED QueueVars
<1> SUFFICES ASSUME RingInv, [Next]_vars PROVE Queue!Next \/ UNCHANGED QueueVars
  OBVIOUS
<1>1. CASE UNCHANGED con
  BY <1>1 DEF QueueVars, Held, Count, First
<1> QED
  BY <1>1, StepOnRing, IsrPuts, GetchTakes, ResetClears DEF Queue!Next

LEMMA InitRing == Init => RingInv /\ Queue!Init
<1> SUFFICES ASSUME Init PROVE RingInv /\ Queue!Init
  OBVIOUS
<1>1. PICK c \in Chars : con = Cleared([i \in Indices |-> c], c)
  BY DEF Init
<1>2. 0 \in Indices /\ 0 \in 0 .. RXFIFO_SIZE + Half
  BY ConsAssumption DEF Indices
<1>3. RingInv
  BY <1>1, <1>2 DEF RingInv, ConsTypeOK, Cleared
<1> QED
  BY <1>1, <1>3, ClearedIsEmpty DEF Queue!Init

\* The ring is consistent in every state, half-written indices included.
THEOREM RingHolds == Spec => []RingInv
<1>1. Init => RingInv
  BY InitRing
<1> QED
  BY <1>1, StepInv, PTL DEF Spec

\* cons_cc1110.c's ring is the bounded queue, for every size and index width.
THEOREM ConsoleIsQueue == Spec => ImplementsQueue
<1>1. Init => Queue!Init
  BY InitRing
<1>2. RingInv /\ [Next]_vars => [Queue!Next]_QueueVars
  BY StepOnQueue
<1>3. Spec => Queue!Init /\ [][Queue!Next]_QueueVars
  BY <1>1, <1>2, RingHolds, PTL DEF Spec
<1> QED
  BY <1>3 DEF ImplementsQueue, Queue!Spec, QueueVars


-----------------------------------------------------------------------------
(* The types of the board, the line and the programmer.                     *)

Bytes == {s \in Seq(Byte) : Len(s) = PageLen}   \* a page's
Boards == [pc : {"off", "dead", "window", "command", "argument", "load", "user"}, n : 0 .. Bs,
           page : Byte, cmd : {"e", "p", "r"}, i : 0 .. PageLen - 1,
           flash : [Flash -> Bytes], buf : Bytes]
Progs == [pc : {"BB", "load", "erase", "program", "read", "done", "failed"},
          at : DOMAIN PageSeq, c : Byte, prev : Byte, verbuf : Bytes,
          got : 0 .. PageLen, lapsed : BOOLEAN]
Lines == Seq(Byte)

\* The conjuncts about lengths say what the elements of Bytes are.
LEMMA BoardIs == BoardTypeOK <=> board \in Boards /\ rx \in Lines /\ tx \in Lines
<1>1. ASSUME BoardTypeOK PROVE board \in Boards /\ rx \in Lines /\ tx \in Lines
  <2>1. /\ board \in [pc : {"off", "dead", "window", "command", "argument", "load", "user"}, n : 0 .. Bs,
                      page : Byte, cmd : {"e", "p", "r"}, i : 0 .. PageLen - 1,
                      flash : [Flash -> Seq(Byte)], buf : Seq(Byte)]
        /\ \A p \in Flash : Len(board.flash[p]) = PageLen
        /\ Len(board.buf) = PageLen /\ rx \in Lines /\ tx \in Lines
    BY <1>1 DEF BoardTypeOK, Lines
  <2>2. board.flash \in [Flash -> Bytes] /\ board.buf \in Bytes
    BY <2>1 DEF Bytes
  <2> QED
    BY <2>1, <2>2 DEF Boards
<1>2. ASSUME board \in Boards, rx \in Lines, tx \in Lines PROVE BoardTypeOK
  <2>1. board.flash \in [Flash -> Bytes] /\ board.buf \in Bytes
    BY <1>2 DEF Boards
  <2>2. /\ board.flash \in [Flash -> Seq(Byte)] /\ board.buf \in Seq(Byte)
        /\ \A p \in Flash : Len(board.flash[p]) = PageLen
        /\ Len(board.buf) = PageLen
    BY <2>1 DEF Bytes
  <2> QED
    BY <1>2, <2>2 DEF BoardTypeOK, Boards, Lines
<1> QED
  BY <1>1, <1>2

\* The programmer's record, with the length of what it compares with.
LEMMA ProgIs ==
  prog \in Progs
  <=> /\ prog \in [pc : {"BB", "load", "erase", "program", "read", "done", "failed"},
                   at : DOMAIN PageSeq, c : Byte, prev : Byte, verbuf : Seq(Byte),
                   got : 0 .. PageLen, lapsed : BOOLEAN]
      /\ Len(prog.verbuf) = PageLen
BY DEF Progs, Bytes

LEMMA BoardFields ==
  ASSUME NEW b \in Boards
  PROVE  /\ b.pc \in {"off", "dead", "window", "command", "argument", "load", "user"} /\ b.n \in 0 .. Bs
         /\ b.page \in Byte /\ b.cmd \in {"e", "p", "r"} /\ b.i \in 0 .. PageLen - 1
         /\ b.flash \in [Flash -> Bytes] /\ b.buf \in Bytes
BY DEF Boards

LEMMA ProgFields ==
  ASSUME NEW p \in Progs
  PROVE  /\ p.pc \in {"BB", "load", "erase", "program", "read", "done", "failed"}
         /\ p.at \in DOMAIN PageSeq /\ p.c \in Byte /\ p.prev \in Byte /\ p.verbuf \in Bytes
         /\ p.got \in 0 .. PageLen /\ p.lapsed \in BOOLEAN
BY DEF Progs

\* Sequences of any kind of element.
LEMMA SameOfAll ==
  ASSUME NEW S, NEW b \in S, NEW n \in Nat
  PROVE  [i \in 1 .. n |-> b] \in Seq(S) /\ Len([i \in 1 .. n |-> b]) = n
OBVIOUS

LEMMA ExceptIsSeq ==
  ASSUME NEW S, NEW s \in Seq(S), NEW i \in 1 .. Len(s), NEW b \in S
  PROVE  [s EXCEPT ![i] = b] \in Seq(S) /\ Len([s EXCEPT ![i] = b]) = Len(s)
<1>1. s \in [1 .. Len(s) -> S] /\ Len(s) \in Nat
  OBVIOUS
<1>2. [s EXCEPT ![i] = b] \in [1 .. Len(s) -> S]
  BY <1>1
<1>3. [s EXCEPT ![i] = b] \in Seq(S)
  BY <1>1, <1>2, SeqDef
<1> QED
  BY <1>1, <1>2, <1>3, LenProperties

LEMMA AppendIsSeq ==
  ASSUME NEW S, NEW s \in Seq(S), NEW b \in S
  PROVE  Append(s, b) \in Seq(S)
OBVIOUS

LEMMA TuplesAreSeq ==
  ASSUME NEW S, NEW a \in S, NEW b \in S, NEW c \in S
  PROVE  <<a>> \in Seq(S) /\ <<a, b>> \in Seq(S) /\ <<a, b, c>> \in Seq(S)
OBVIOUS

\* The pages and their bytes.
LEMMA PagesAre ==
  /\ Erased \in Bytes /\ Spoilt \in Bytes /\ Zeroed \in Bytes /\ Loader \in Bytes
  /\ Len(PageSeq) \in Nat \ {0} /\ DOMAIN PageSeq = 1 .. Len(PageSeq) /\ 1 \in DOMAIN PageSeq
  /\ \A i \in DOMAIN PageSeq : PageSeq[i] \in Pages /\ PageSeq[i] \in Byte
  /\ Image \in [Pages -> Bytes] /\ OldImage \in [Pages -> Bytes] /\ Blank \in [Pages -> Bytes]
<1>1. PageSeq \in Seq(Byte) /\ PageSeq # <<>> /\ PageLen \in Nat
  BY BootAssumption
<1>2. ASSUME NEW b \in Byte PROVE [i \in 1 .. PageLen |-> b] \in Bytes
  BY <1>1, SameOfAll DEF Bytes
<1>3. Erased \in Bytes /\ Spoilt \in Bytes /\ Zeroed \in Bytes /\ Loader \in Bytes
  <2>1. "FF" \in Byte /\ "?" \in Byte /\ "0" \in Byte /\ "!" \in Byte
    BY BootAssumption
  <2> QED
    BY <1>2, <2>1 DEF Erased, Spoilt, Zeroed, Loader
<1>4. Len(PageSeq) \in Nat \ {0} /\ DOMAIN PageSeq = 1 .. Len(PageSeq)
  BY <1>1
<1>5. 1 \in DOMAIN PageSeq /\ \A i \in DOMAIN PageSeq : PageSeq[i] \in Pages /\ PageSeq[i] \in Byte
  BY <1>1, <1>4 DEF Pages
<1>6. ASSUME NEW f \in {Image, OldImage} PROVE f \in [Pages -> Bytes]
  BY FlashingAssumption DEF Bytes
<1>7. Image \in [Pages -> Bytes] /\ OldImage \in [Pages -> Bytes]
  BY <1>6
<1>8. Blank \in [Pages -> Bytes]
  BY <1>3 DEF Blank
<1> QED
  BY <1>3, <1>4, <1>5, <1>7, <1>8

\* The store of one byte into a page.
LEMMA BytesSet ==
  ASSUME NEW s \in Bytes, NEW i \in 1 .. PageLen, NEW b \in Byte
  PROVE  [s EXCEPT ![i] = b] \in Bytes
<1>1. s \in Seq(Byte) /\ Len(s) = PageLen /\ i \in 1 .. Len(s)
  BY DEF Bytes
<1>2. [s EXCEPT ![i] = b] \in Seq(Byte) /\ Len([s EXCEPT ![i] = b]) = Len(s)
  BY <1>1, ExceptIsSeq
<1> QED
  BY <1>1, <1>2 DEF Bytes

\* What is sent, taken and lost.
LEMMA LineTail ==
  ASSUME NEW s \in Lines, s # <<>>
  PROVE  Tail(s) \in Lines /\ Head(s) \in Byte
BY DEF Lines

LEMMA LineSends ==
  ASSUME NEW s \in Lines, NEW t \in Lines
  PROVE  s \o t \in Lines
BY DEF Lines

LEMMA LineAppends ==
  ASSUME NEW s \in Lines, NEW b \in Byte
  PROVE  Append(s, b) \in Lines
BY AppendIsSeq DEF Lines

LEMMA BytesAreLine == Bytes \subseteq Lines /\ <<>> \in Lines
BY DEF Bytes, Lines

LEMMA ShortLines ==
  /\ \A a \in Byte : <<a>> \in Lines
  /\ \A a, b \in Byte : <<a, b>> \in Lines
  /\ \A a, b, c \in Byte : <<a, b, c>> \in Lines
BY TuplesAreSeq DEF Lines

\* The line loses any one character.
LEMMA LineLoses ==
  ASSUME NEW s \in Lines, NEW i \in 1 .. Len(s)
  PROVE  RemoveAt(s, i) \in Lines
<1>1. s \in Seq(Byte) /\ Len(s) \in Nat /\ i \in Int
  BY DEF Lines
<1>2. SubSeq(s, 1, i - 1) \in Seq(Byte)
  <2>1. \A k \in 1 .. i - 1 : s[k] \in Byte
    BY <1>1
  <2> QED
    BY <1>1, <2>1
<1>3. SubSeq(s, i + 1, Len(s)) \in Seq(Byte)
  <2>1. \A k \in i + 1 .. Len(s) : s[k] \in Byte
    BY <1>1
  <2> QED
    BY <1>1, <2>1
<1> QED
  BY <1>2, <1>3 DEF RemoveAt, Lines

\* The characters the programs send and compare by name.
LEMMA NamesAre ==
  /\ "0" \in Byte /\ "FF" \in Byte /\ "?" \in Byte /\ "B" \in Byte /\ "!" \in Byte /\ "e" \in Byte
  /\ "p" \in Byte /\ "r" \in Byte /\ "l" \in Byte /\ "j" \in Byte /\ "+" \in Byte
  /\ Banner \in Byte /\ Chars \subseteq Byte
<1>1. {"0", "FF", "?", "B", "!", "e", "p", "r", "l", "j", Banner} \cup Chars \subseteq Byte
  BY BootAssumption
<1>2. "+" \in Chars
  BY ConsAssumption
<1> QED
  BY <1>1, <1>2

-----------------------------------------------------------------------------
(* The board.                                                               *)

LEMMA JumpIs ==
  ASSUME NEW b \in Boards
  PROVE  JumpToUser(b) \in Boards
BY DEF JumpToUser, Boards

\* The types of the next state, by name.
LEMMA BoardThen ==
  ASSUME board' \in Boards, rx' \in Lines, tx' \in Lines
  PROVE  BoardTypeOK'
<1>1. board'.flash \in [Flash -> Bytes] /\ board'.buf \in Bytes
  BY DEF Boards
<1>2. /\ board'.flash \in [Flash -> Seq(Byte)] /\ board'.buf \in Seq(Byte)
      /\ \A p \in Flash : Len(board'.flash[p]) = PageLen
      /\ Len(board'.buf) = PageLen
  BY <1>1 DEF Bytes
<1> QED
  BY <1>2 DEF BoardTypeOK, Boards, Lines, Flash, Pages

\* What a reset leaves of the board, the line and the programmer.
LEMMA ResetIs ==
  ASSUME NEW b \in Boards
  PROVE  Reset(b) \in Boards
<1>1. Bs \in 0 .. Bs /\ 0 \in 0 .. PageLen - 1 /\ "0" \in Byte /\ Zeroed \in Bytes
  BY BootAssumption, NamesAre, PagesAre
<1> QED
  BY <1>1 DEF Reset, Boards

LEMMA ResetsTypes ==
  ASSUME BoardTypeOK, Resets
  PROVE  BoardTypeOK'
<1>1. board \in Boards /\ rx \in Lines /\ tx \in Lines
  BY BoardIs
<1>2. board' \in Boards
  BY <1>1, ResetIs DEF Resets
<1>3. rx' \in Lines /\ tx' \in Lines
  BY <1>1, LineAppends, BytesAreLine, NamesAre DEF Resets
<1> QED
  BY <1>2, <1>3, BoardThen

\* A byte gets to a page of the flash, one that is no page's name too.
LEMMA AddressedIs == \A b \in Byte : Addressed[b] \in Flash
BY BootAssumption DEF Flash, Pages

\* flash_erase_page and flash_write leave every page a page.
LEMMA FlashIs ==
  ASSUME NEW flash \in [Flash -> Bytes], NEW page \in Byte, NEW buf \in Bytes
  PROVE  flash_erase_page(flash, page) \in [Flash -> Bytes]
         /\ flash_write(flash, page, buf) \in [Flash -> Bytes]
<1>1. Erased \in Bytes /\ Addressed[page] \in Flash
  BY PagesAre, AddressedIs
<1>2. Written(flash[Addressed[page]], buf) \in Bytes
  BY <1>1, PagesAre DEF Written
<1> QED
  BY <1>1, <1>2 DEF flash_erase_page, flash_write

\* The bootloader keeps the types, whatever command it is given.
LEMMA BootTypes ==
  ASSUME BoardTypeOK, bootloader_main
  PROVE  BoardTypeOK'
<1>0. board \in Boards /\ rx \in Lines /\ tx \in Lines
  BY BoardIs
<1>a. /\ board.n \in 0 .. Bs /\ board.i \in 0 .. PageLen - 1 /\ board.page \in Byte
      /\ board.flash \in [Flash -> Bytes] /\ board.buf \in Bytes /\ board.cmd \in {"e", "p", "r"}
  BY <1>0, BoardFields
<1>b. rx # <<>> => Head(rx) \in Byte /\ Tail(rx) \in Lines
  BY <1>0, LineTail
<1>c. PageLen \in Nat \ {0} /\ Bs \in Nat
  BY BootAssumption
<1>1. CASE WindowSends
  <2>1. board' \in Boards
    <3>1. board' = [board EXCEPT !.n = board.n - 1] /\ board.n - 1 \in 0 .. Bs
      BY <1>1, <1>a, <1>c DEF WindowSends
    <3> QED
      BY <1>0, <3>1 DEF Boards
  <2>2. tx' \in Lines
    <3>1. <<"B">> \in Lines
      BY ShortLines, NamesAre
    <3> QED
      BY <1>0, <1>1, <3>1, LineSends DEF WindowSends, Sends
  <2> QED
    BY <1>0, <1>1, <2>1, <2>2, BoardThen DEF WindowSends
<1>2. CASE WindowEnds
  <2>1. board' \in Boards
    BY <1>0, <1>2, JumpIs DEF WindowEnds
  <2> QED
    BY <1>0, <1>2, <2>1, BoardThen DEF WindowEnds
<1>3. CASE WindowGetch
  <2> DEFINE b == [board EXCEPT !.page = Head(rx)]
  <2>1. rx # <<>> /\ rx' = Tail(rx) /\ tx' = tx
        /\ board' = IF b.n # 0 /\ b.page = "!" THEN [b EXCEPT !.pc = "command"] ELSE JumpToUser(b)
    BY <1>3 DEF WindowGetch
  <2>2. b \in Boards
    BY <1>0, <1>b, <2>1 DEF Boards
  <2> HIDE DEF b
  <2>3. [b EXCEPT !.pc = "command"] \in Boards /\ JumpToUser(b) \in Boards
    BY <2>2, JumpIs DEF Boards
  <2> QED
    BY <1>0, <1>b, <2>1, <2>3, BoardThen
<1>4. CASE Command
  <2> DEFINE b == [board EXCEPT !.page = Head(rx)]
  <2>1. rx # <<>> /\ rx' = Tail(rx) /\ tx' = tx
        /\ board' = CASE b.page \in {"e", "p", "r"} -> [b EXCEPT !.pc = "argument", !.cmd = b.page]
                      [] b.page = "l" -> [b EXCEPT !.pc = "load", !.i = 0]
                      [] b.page = "j" -> JumpToUser(b)
                      [] OTHER -> b
    BY <1>4 DEF Command
  <2>2. b \in Boards
    BY <1>0, <1>b, <2>1 DEF Boards
  <2> HIDE DEF b
  <2>3. b.page \in {"e", "p", "r"} => [b EXCEPT !.pc = "argument", !.cmd = b.page] \in Boards
    BY <2>2 DEF Boards
  <2>4. 0 \in 0 .. PageLen - 1
    BY <1>c
  <2>5. [b EXCEPT !.pc = "load", !.i = 0] \in Boards /\ JumpToUser(b) \in Boards
    BY <2>2, <2>4, JumpIs DEF Boards
  <2>6. board' \in Boards
    BY <2>1, <2>2, <2>3, <2>5
  <2> QED
    BY <1>0, <1>b, <2>1, <2>6, BoardThen
<1>5. CASE Argument
  <2> DEFINE page == Head(rx)
             flash == Commanded(page)
             b == [board EXCEPT !.page = page, !.flash = flash]
  <2>1. rx # <<>> /\ rx' = Tail(rx)
    BY <1>5 DEF Argument
  <2>2. page \in Byte
    BY <1>b, <2>1
  <2>3. flash \in [Flash -> Bytes]
    BY <1>a, <2>2, FlashIs DEF Commanded
  <2>4. \A content \in Contents(page) : content \in Lines
    <3>1. \A p \in Flash : board.flash[p] \in Bytes
      BY <1>a
    <3>2. Spoilt \in Bytes /\ Addressed[page] \in Flash
      BY <2>2, PagesAre, AddressedIs
    <3> QED
      BY <3>1, <3>2, BytesAreLine DEF Contents
  <2>5. \/ /\ board' = [b EXCEPT !.pc = "command"]
           /\ \E content \in Contents(page) :
                Sends(IF b.cmd = "r" THEN Append(content, Ack) ELSE <<Ack>>)
        \/ board' = [b EXCEPT !.pc = "dead"] /\ UNCHANGED tx
    BY <1>5 DEF Argument
  <2> HIDE DEF page, flash
  <2>6. b \in Boards
    BY <1>0, <2>2, <2>3 DEF Boards
  <2> HIDE DEF b
  <2>7. board' \in Boards
    BY <2>5, <2>6 DEF Boards
  <2>8. tx' \in Lines
    <3>1. CASE UNCHANGED tx
      BY <1>0, <3>1
    <3>2. ASSUME NEW content \in Contents(page),
                 Sends(IF b.cmd = "r" THEN Append(content, Ack) ELSE <<Ack>>)
          PROVE  tx' \in Lines
      <4>1. Append(content, Ack) \in Lines /\ <<Ack>> \in Lines
        BY <2>4, LineAppends, ShortLines, NamesAre DEF Ack
      <4> QED
        BY <1>0, <3>2, <4>1, LineSends DEF Sends
    <3> QED
      BY <2>5, <3>1, <3>2
  <2> QED
    BY <1>b, <2>1, <2>7, <2>8, BoardThen
<1>6. CASE Load
  <2> DEFINE pc == IF board.i + 1 = PageLen THEN "command" ELSE "load"
             buf == [board.buf EXCEPT ![board.i + 1] = Head(rx)]
             i == (board.i + 1) % PageLen
  <2>1. rx # <<>> /\ rx' = Tail(rx)
        /\ board' = [board EXCEPT !.page = Head(rx), !.buf = buf, !.i = i, !.pc = pc]
        /\ Sends(IF board.i + 1 = PageLen THEN <<Ack>> ELSE <<>>)
    BY <1>6 DEF Load
  <2>2. buf \in Bytes
    <3>1. board.i + 1 \in 1 .. PageLen
      BY <1>a, <1>c
    <3> QED
      BY <1>a, <1>b, <2>1, <3>1, BytesSet
  <2>3. i \in 0 .. PageLen - 1
    BY <1>a, <1>c
  <2>4. pc \in {"off", "dead", "window", "command", "argument", "load", "user"}
    OBVIOUS
  <2> HIDE DEF pc, buf, i
  <2>5. board' \in Boards
    BY <1>0, <1>b, <2>1, <2>2, <2>3, <2>4 DEF Boards
  <2>6. tx' \in Lines
    <3>1. <<Ack>> \in Lines /\ <<>> \in Lines
      BY BytesAreLine, ShortLines, NamesAre DEF Ack
    <3> QED
      BY <1>0, <2>1, <3>1, LineSends DEF Sends
  <2> QED
    BY <1>b, <2>1, <2>5, <2>6, BoardThen
<1> QED
  BY <1>1, <1>2, <1>3, <1>4, <1>5, <1>6 DEF bootloader_main

-----------------------------------------------------------------------------
(* The programmer.                                                          *)

Sound == prog' \in Progs /\ rx' \in Lines

\* The programmer's moves: it sends and goes to another wait.
LEMMA SendsSound ==
  ASSUME NEW p \in Progs, NEW bytes \in Lines, SendsOn(p, bytes), rx \in Lines
  PROVE  Sound
BY LineSends DEF SendsOn, Sound

LEMMA PcSet ==
  ASSUME NEW p \in Progs, NEW pc \in {"BB", "load", "erase", "program", "read", "done", "failed"}
  PROVE  [p EXCEPT !.pc = pc] \in Progs /\ [p EXCEPT !.pc = pc].at = p.at
BY DEF Progs

\* It takes up the next page; it verifies one, or gives up.
LEMMA PageBeginsSound ==
  ASSUME NEW p \in Progs, NEW i \in DOMAIN PageSeq, PageBegins(p, i), rx \in Lines
  PROVE  Sound
<1> DEFINE page == PageSeq[i]
           q == [p EXCEPT !.at = i, !.got = 0]
<1>1. /\ IsEmpty(page) => SendsOn([q EXCEPT !.pc = "erase"], <<"e", page>>)
      /\ ~IsEmpty(page) => SendsOn([q EXCEPT !.pc = "load"], <<"l">> \o Image[page])
  BY DEF PageBegins
<1>2. page \in Byte /\ page \in Pages /\ Image[page] \in Bytes
  BY PagesAre
<1>3. q \in Progs
  <2>1. 0 \in 0 .. PageLen
    BY BootAssumption
  <2> QED
    BY <2>1 DEF Progs
<1>4. <<"e", page>> \in Lines /\ <<"l">> \o Image[page] \in Lines
  <2>1. <<"l">> \in Lines /\ Image[page] \in Lines /\ <<"e", page>> \in Lines
    BY <1>2, BytesAreLine, ShortLines, NamesAre
  <2> QED
    BY <2>1, LineSends
<1> HIDE DEF page, q
<1>5. [q EXCEPT !.pc = "erase"] \in Progs /\ [q EXCEPT !.pc = "load"] \in Progs
  BY <1>3, PcSet
<1> QED
  BY <1>1, <1>4, <1>5, SendsSound

LEMMA PageEndsSound ==
  ASSUME NEW p \in Progs, PageEnds(p), rx \in Lines
  PROVE  Sound
<1>1. p.at \in DOMAIN PageSeq
  BY ProgFields
<1>2. CASE p.at < Len(PageSeq)
  <2>1. p.at + 1 \in DOMAIN PageSeq
    BY <1>1, <1>2, PagesAre
  <2>2. PageBegins(p, p.at + 1)
    BY <1>2 DEF PageEnds
  <2> QED
    BY <2>1, <2>2, PageBeginsSound
<1>3. CASE ~(p.at < Len(PageSeq))
  <2>1. SendsOn([p EXCEPT !.pc = "done"], <<"j">>)
    BY <1>3 DEF PageEnds
  <2>2. [p EXCEPT !.pc = "done"] \in Progs /\ <<"j">> \in Lines
    BY PcSet, ShortLines, NamesAre
  <2> QED
    BY <2>1, <2>2, SendsSound
<1> QED
  BY <1>2, <1>3

LEMMA FailsSound ==
  ASSUME NEW p \in Progs, Fails(p), rx \in Lines
  PROVE  Sound
<1>1. [p EXCEPT !.pc = "failed"] \in Progs /\ <<>> \in Lines
  BY PcSet, BytesAreLine
<1> QED
  BY <1>1, SendsSound DEF Fails

LEMMA VerifiedSound ==
  ASSUME NEW p \in Progs, Verified(p), rx \in Lines
  PROVE  Sound
BY PageEndsSound, FailsSound DEF Verified

LEMMA LapsedSet ==
  ASSUME NEW p \in Progs, NEW b \in BOOLEAN
  PROVE  [p EXCEPT !.lapsed = b] \in Progs /\ [p EXCEPT !.lapsed = b].pc = p.pc
BY DEF Progs

\* What it does with an answer that came, and with a lapse.
LEMMA AnsweredSound ==
  ASSUME prog \in Progs, NEW p \in Progs, p.pc \in {"load", "erase", "program"}, Answered(p),
         rx \in Lines
  PROVE  Sound
<1>1. Page \in Byte
  BY ProgFields, PagesAre DEF Page
<1>2. <<"e", Page>> \in Lines /\ <<"p", Page>> \in Lines /\ <<"r", Page>> \in Lines
  BY <1>1, ShortLines, NamesAre
<1>3. /\ [p EXCEPT !.pc = "erase"] \in Progs /\ [p EXCEPT !.pc = "program"] \in Progs
      /\ [p EXCEPT !.pc = "read"] \in Progs
  BY PcSet
<1>4. CASE p.pc = "load"
  <2>1. SendsOn([p EXCEPT !.pc = "erase"], <<"e", Page>>)
    BY <1>4 DEF Answered
  <2> QED
    BY <1>2, <1>3, <2>1, SendsSound
<1>5. CASE p.pc = "erase"
  <2>1. IF IsEmpty(Page) THEN PageEnds(p) ELSE SendsOn([p EXCEPT !.pc = "program"], <<"p", Page>>)
    BY <1>5 DEF Answered
  <2> QED
    BY <1>2, <1>3, <2>1, SendsSound, PageEndsSound
<1>6. CASE p.pc = "program"
  <2>1. SendsOn([p EXCEPT !.pc = "read"], <<"r", Page>>)
    BY <1>6 DEF Answered
  <2> QED
    BY <1>2, <1>3, <2>1, SendsSound
<1> QED
  BY <1>4, <1>5, <1>6

LEMMA HeardSound ==
  ASSUME prog \in Progs, NEW c \in Byte, NEW lapsed \in BOOLEAN, Heard(c, lapsed), rx \in Lines
  PROVE  Sound
<1> DEFINE p == [prog EXCEPT !.c = c, !.lapsed = prog.lapsed \/ lapsed]
           q == [p EXCEPT !.c = "0", !.prev = "0"]
           first == PageSeq[1]
<1>1. p \in Progs
  <2>1. (prog.lapsed \/ lapsed) \in BOOLEAN
    OBVIOUS
  <2> QED
    BY <2>1 DEF Progs
<1>2. first \in Byte /\ Image[first] \in Bytes
  BY PagesAre
<1>3. CASE c = "B" /\ p.prev = "B"
  <2>1. /\ IsEmpty(first) => SendsOn([q EXCEPT !.pc = "erase"], <<"!", "e", first>>)
        /\ ~IsEmpty(first) => SendsOn([q EXCEPT !.pc = "load"], <<"!", "l">> \o Image[first])
    BY <1>3 DEF Heard
  <2>2. <<"!", "e", first>> \in Lines /\ <<"!", "l">> \o Image[first] \in Lines
    <3>1. <<"!", "l">> \in Lines /\ Image[first] \in Lines /\ <<"!", "e", first>> \in Lines
      BY <1>2, BytesAreLine, ShortLines, NamesAre
    <3> QED
      BY <3>1, LineSends
  <2> HIDE DEF p, first
  <2>3. q \in Progs
    BY <1>1, NamesAre DEF Progs
  <2> HIDE DEF q
  <2>4. [q EXCEPT !.pc = "erase"] \in Progs /\ [q EXCEPT !.pc = "load"] \in Progs
    BY <2>3, PcSet
  <2> QED
    BY <2>1, <2>2, <2>4, SendsSound
<1>4. CASE ~(c = "B" /\ p.prev = "B")
  <2>1. SendsOn([p EXCEPT !.prev = c], <<>>)
    BY <1>4 DEF Heard
  <2> HIDE DEF p
  <2>2. [p EXCEPT !.prev = c] \in Progs /\ <<>> \in Lines
    BY <1>1, BytesAreLine DEF Progs
  <2> QED
    BY <2>1, <2>2, SendsSound
<1> QED
  BY <1>3, <1>4

\* Every step of the programmer keeps the types.
LEMMA ProgTypes ==
  ASSUME prog \in Progs, rx \in Lines, tx \in Lines, ProgRuns
  PROVE  prog' \in Progs /\ rx' \in Lines /\ tx' \in Lines /\ UNCHANGED <<con, board, typed>>
         /\ (UNCHANGED faults \/ Fault)
<1>0. /\ prog.pc \in {"BB", "load", "erase", "program", "read", "done", "failed"}
      /\ prog.c \in Byte /\ prog.got \in 0 .. PageLen /\ prog.verbuf \in Bytes
      /\ prog.lapsed \in BOOLEAN
  BY ProgFields
<1>a. tx # <<>> => Head(tx) \in Byte /\ Tail(tx) \in Lines
  BY LineTail
<1>b. PageLen \in Nat /\ <<>> \in Lines
  BY BootAssumption, BytesAreLine
<1>1. CASE WaitHears
  <2>1. tx # <<>> /\ Heard(Head(tx), FALSE) /\ tx' = Tail(tx) /\ Keeps
    BY <1>1 DEF WaitHears
  <2>2. Sound
    BY <1>a, <2>1, HeardSound
  <2> QED
    BY <1>a, <2>1, <2>2 DEF Sound, Keeps
<1>2. CASE WaitLapses
  <2>1. Heard(prog.c, TRUE) /\ UNCHANGED tx /\ Keeps
    BY <1>2 DEF WaitLapses
  <2>2. Sound
    BY <1>0, <2>1, HeardSound
  <2> QED
    BY <2>1, <2>2 DEF Sound, Keeps
<1>3. CASE WaitGivesUp
  <2>1. Fails(prog) /\ UNCHANGED <<con, board, tx, typed>> /\ (UNCHANGED faults \/ Fault)
    BY <1>3 DEF WaitGivesUp
  <2>2. Sound
    BY <2>1, FailsSound
  <2> QED
    BY <2>1, <2>2 DEF Sound
<1>4. CASE AnswerHeard
  <2>1. prog.pc \in {"load", "erase", "program"} /\ tx # <<>> /\ tx' = Tail(tx) /\ Keeps
        /\ (Answered(prog) \/ Fails(prog))
    BY <1>4 DEF AnswerHeard
  <2>2. Sound
    BY <2>1, AnsweredSound, FailsSound
  <2> QED
    BY <1>a, <2>1, <2>2 DEF Sound, Keeps
<1>5. CASE AnswerLapses
  <2> DEFINE p == [prog EXCEPT !.lapsed = TRUE]
  <2>1. prog.pc \in {"load", "erase", "program"} /\ UNCHANGED tx /\ Keeps
        /\ (Answered(p) \/ Fails(p))
    BY <1>5 DEF AnswerLapses
  <2>2. p \in Progs /\ p.pc = prog.pc
    BY LapsedSet
  <2> HIDE DEF p
  <2>3. Sound
    BY <2>1, <2>2, AnsweredSound, FailsSound
  <2> QED
    BY <2>1, <2>3 DEF Sound, Keeps
<1>6. CASE ReadHears
  <2> DEFINE verbuf == [prog.verbuf EXCEPT ![prog.got + 1] = Head(tx)]
             got == prog.got + 1
             p == [prog EXCEPT !.verbuf = verbuf, !.got = got]
  <2>1. prog.got < PageLen /\ tx # <<>> /\ tx' = Tail(tx) /\ Keeps /\ SendsOn(p, <<>>)
    BY <1>6 DEF ReadHears
  <2>2. got \in 0 .. PageLen /\ got \in 1 .. PageLen
    BY <1>0, <1>b, <2>1
  <2>3. verbuf \in Bytes
    BY <1>0, <1>a, <2>1, <2>2, BytesSet
  <2> HIDE DEF verbuf, got
  <2>4. p \in Progs
    BY <2>2, <2>3 DEF Progs
  <2> HIDE DEF p
  <2>5. Sound
    BY <1>b, <2>1, <2>4, SendsSound
  <2> QED
    BY <1>a, <2>1, <2>5 DEF Sound, Keeps
<1>7. CASE ReadLapses
  <2> DEFINE got == prog.got + 1
             p == [prog EXCEPT !.got = got, !.lapsed = TRUE]
  <2>1. prog.got < PageLen /\ UNCHANGED tx /\ Keeps /\ SendsOn(p, <<>>)
    BY <1>7 DEF ReadLapses
  <2>2. got \in 0 .. PageLen
    BY <1>0, <1>b, <2>1
  <2> HIDE DEF got
  <2>3. p \in Progs
    BY <2>2 DEF Progs
  <2> HIDE DEF p
  <2>4. Sound
    BY <1>b, <2>1, <2>3, SendsSound
  <2> QED
    BY <2>1, <2>4 DEF Sound, Keeps
<1>8. CASE ReadAnswered
  <2>1. tx # <<>> /\ tx' = Tail(tx) /\ Keeps /\ (Verified(prog) \/ Fails(prog))
    BY <1>8 DEF ReadAnswered
  <2>2. Sound
    BY <2>1, VerifiedSound, FailsSound
  <2> QED
    BY <1>a, <2>1, <2>2 DEF Sound, Keeps
<1>9. CASE ReadAnswerLapses
  <2> DEFINE p == [prog EXCEPT !.lapsed = TRUE]
  <2>1. UNCHANGED tx /\ Keeps /\ (Verified(p) \/ Fails(p))
    BY <1>9 DEF ReadAnswerLapses
  <2>2. p \in Progs
    BY LapsedSet
  <2> HIDE DEF p
  <2>3. Sound
    BY <2>1, <2>2, VerifiedSound, FailsSound
  <2> QED
    BY <2>1, <2>3 DEF Sound, Keeps
<1>10. CASE ConsoleShows
  BY <1>10, <1>b DEF ConsoleShows, Keeps
<1>11. CASE RunAgain
  <2>1. Started \in Progs
    <3>1. 0 \in 0 .. PageLen /\ 1 \in DOMAIN PageSeq /\ "0" \in Byte /\ Spoilt \in Bytes
      BY <1>b, PagesAre, NamesAre
    <3> QED
      BY <3>1 DEF Started, Progs
  <2>2. Plusses \in Lines
    BY ShortLines, NamesAre DEF Plusses
  <2>3. rx \o Plusses \in Lines
    BY <2>2, LineSends
  <2> QED
    BY <1>11, <1>b, <2>1, <2>3 DEF RunAgain
<1> QED
  BY <1>1, <1>2, <1>3, <1>4, <1>5, <1>6, <1>7, <1>8, <1>9, <1>10, <1>11 DEF ProgRuns

\* Every step of the board, the line and the programmer keeps the types.
LEMMA FlashTypes ==
  BoardTypeOK /\ prog \in Progs /\ typed \in 0 .. MaxTyped /\ faults \in 0 .. MaxFaults /\ [Next]_vars
  => BoardTypeOK' /\ prog' \in Progs /\ typed' \in 0 .. MaxTyped /\ faults' \in 0 .. MaxFaults
<1> SUFFICES ASSUME BoardTypeOK, prog \in Progs, typed \in 0 .. MaxTyped, faults \in 0 .. MaxFaults,
                    [Next]_vars
             PROVE  /\ BoardTypeOK' /\ prog' \in Progs
                    /\ typed' \in 0 .. MaxTyped /\ faults' \in 0 .. MaxFaults
  OBVIOUS
<1>0. board \in Boards /\ rx \in Lines /\ tx \in Lines /\ MaxTyped \in Nat /\ MaxFaults \in Nat
  BY BoardIs, FlashingAssumption
<1>a. Fault => faults' \in 0 .. MaxFaults
  BY <1>0 DEF Fault
<1>b. <<>> \in Lines /\ (rx # <<>> => Tail(rx) \in Lines)
  BY <1>0, BytesAreLine, LineTail
<1>1. CASE ProgRuns
  <2>1. prog' \in Progs /\ rx' \in Lines /\ tx' \in Lines /\ UNCHANGED <<con, board, typed>>
        /\ (UNCHANGED faults \/ Fault)
    BY <1>0, <1>1, ProgTypes
  <2> QED
    BY <1>0, <1>a, <2>1, BoardThen
<1>2. CASE BootRuns
  BY <1>2, <1>a, BootTypes DEF BootRuns
<1>3. CASE ConsoleGets
  <2>1. CASE Resets
    BY <1>3, <2>1, ResetsTypes DEF ConsoleGets
  <2>2. CASE rx' = Tail(rx) /\ UNCHANGED <<board, tx>>
    BY <1>0, <1>3, <1>b, <2>2, BoardThen DEF ConsoleGets
  <2> QED
    BY <1>3, <2>1, <2>2 DEF ConsoleGets
<1>4. CASE ProgramReads
  BY <1>0, <1>4, BoardThen DEF ProgramReads
<1>5. CASE DeafProgram \/ Unpowered
  BY <1>0, <1>5, <1>b, BoardThen DEF DeafProgram, Unpowered
<1>6. CASE Watchdog \/ UserResets \/ PowerReturns
  BY <1>6, ResetsTypes DEF Watchdog, UserResets, PowerReturns
<1>7. CASE PowerGoes
  <2>1. board' \in Boards
    BY <1>0, <1>7 DEF PowerGoes, Boards
  <2> QED
    BY <1>0, <1>7, <1>a, <1>b, <2>1, BoardThen DEF PowerGoes
<1>8. CASE ByteLost
  <2>1. rx' \in Lines /\ tx' \in Lines
    BY <1>0, <1>8, LineLoses DEF ByteLost
  <2> QED
    BY <1>0, <1>8, <1>a, <2>1, BoardThen DEF ByteLost
<1>9. CASE Types
  <2>1. rx' \in Lines
    BY <1>0, <1>9, LineAppends, NamesAre DEF Types
  <2>2. typed' \in 0 .. MaxTyped
    BY <1>0, <1>9 DEF Types
  <2> QED
    BY <1>0, <1>9, <2>1, <2>2, BoardThen DEF Types
<1>10. CASE UNCHANGED vars
  BY <1>0, <1>10, BoardThen DEF vars
<1> QED
  BY <1>1, <1>2, <1>3, <1>4, <1>5, <1>6, <1>7, <1>8, <1>9, <1>10 DEF Next, BoardRuns

LEMMA FlashStarts ==
  Init => BoardTypeOK /\ prog \in Progs /\ typed \in 0 .. MaxTyped /\ faults \in 0 .. MaxFaults
<1> SUFFICES ASSUME Init
             PROVE  /\ BoardTypeOK /\ prog \in Progs
                    /\ typed \in 0 .. MaxTyped /\ faults \in 0 .. MaxFaults
  OBVIOUS
<1>1. PICK old \in {Blank, OldImage} :
        board = [pc |-> IF old = Blank THEN "command" ELSE "user", n |-> 0, page |-> "0",
                 cmd |-> "e", i |-> 0, flash |-> Above(old), buf |-> Zeroed]
  BY DEF Init
<1>2. /\ 0 \in 0 .. Bs /\ 0 \in 0 .. PageLen - 1 /\ 0 \in 0 .. PageLen /\ "0" \in Byte
      /\ old \in [Pages -> Bytes] /\ Zeroed \in Bytes /\ Spoilt \in Bytes /\ 1 \in DOMAIN PageSeq
      /\ 0 \in 0 .. MaxTyped /\ 0 \in 0 .. MaxFaults
  BY BootAssumption, FlashingAssumption, PagesAre, NamesAre
<1> DEFINE pc == IF old = Blank THEN "command" ELSE "user"
           flash == Above(old)
<1>3. pc \in {"off", "dead", "window", "command", "argument", "load", "user"}
  OBVIOUS
<1>a. flash \in [Flash -> Bytes]
  BY <1>2, PagesAre DEF Above, Flash
<1>4. board = [pc |-> pc, n |-> 0, page |-> "0",
               cmd |-> "e", i |-> 0, flash |-> flash, buf |-> Zeroed]
  BY <1>1
<1> HIDE DEF pc, flash
<1>5. board \in Boards
  BY <1>2, <1>3, <1>4, <1>a DEF Boards
<1>6. prog \in Progs
  BY <1>2 DEF Init, Started, Progs
<1>7. rx \in Lines /\ tx \in Lines
  BY BytesAreLine, ShortLines, NamesAre DEF Init, Plusses
<1> QED
  BY <1>2, <1>5, <1>6, <1>7, BoardIs DEF Init

\* The console's ring, the bootloader, the line and the programmer keep their
\* types, whatever the program that is put in: commands among its bytes, bytes
\* lost, answers that are noise.
THEOREM FlashingTypeCorrect == Spec => []TypeOK
<1> DEFINE Typed == /\ BoardTypeOK /\ prog \in Progs
                    /\ typed \in 0 .. MaxTyped /\ faults \in 0 .. MaxFaults
<1>1. Init => Typed
  BY FlashStarts
<1>2. Typed /\ [Next]_vars => Typed'
  <2> SUFFICES ASSUME Typed, [Next]_vars PROVE Typed'
    OBVIOUS
  <2>1. BoardTypeOK' /\ prog' \in Progs /\ typed' \in 0 .. MaxTyped /\ faults' \in 0 .. MaxFaults
    BY FlashTypes
  <2>2. (prog \in Progs)'
    BY <2>1 DEF Progs, Bytes
  <2> QED
    BY <2>1, <2>2
<1>3. RingInv /\ Typed => TypeOK
  BY ProgIs DEF RingInv, TypeOK
<1> HIDE DEF Typed
<1>4. Spec => []Typed
  BY <1>1, <1>2, PTL DEF Spec
<1> QED
  BY <1>3, <1>4, RingHolds, PTL

-----------------------------------------------------------------------------
(* The bootloader's own page.                                               *)

\* No byte but 0 itself gets to page 0: the program, and what its user types,
\* have none of 0x20, 0x40 ... 0xE0.
NoAlias == \A b \in Byte : Addressed[b] = "0" => b = "0"

\* What the board's own steps make of the flash.
LEMMA FlashAfter ==
  ASSUME board \in Boards, bootloader_main
  PROVE  board'.flash = board.flash \/ (rx # <<>> /\ board'.flash = Commanded(Head(rx)))
<1>1. CASE WindowSends \/ WindowEnds \/ WindowGetch
  BY <1>1 DEF WindowSends, WindowEnds, WindowGetch, JumpToUser, Boards
<1>2. CASE Command
  BY <1>2 DEF Command, JumpToUser, Boards
<1>3. CASE Argument
  BY <1>3 DEF Argument, Boards
<1>4. CASE Load
  BY <1>4 DEF Load, Boards
<1> QED
  BY <1>1, <1>2, <1>3, <1>4 DEF bootloader_main

\* No command reaches page 0.
LEMMA CommandSpares ==
  ASSUME NoAlias, board \in Boards, NEW page \in Byte
  PROVE  Commanded(page)["0"] = board.flash["0"]
<1>1. board.flash \in [Flash -> Bytes] /\ "0" \in Flash
  BY BoardFields DEF Flash
<1>2. page = "0" \/ Addressed[page] # "0"
  BY DEF NoAlias
<1> QED
  BY <1>1, <1>2 DEF Commanded, flash_erase_page, flash_write

LEMMA StepSpares ==
  ASSUME NoAlias, BoardTypeOK, BootIntact(board), [Next]_vars
  PROVE  BootIntact(board)'
<1>1. board \in Boards /\ rx \in Lines
  BY BoardIs
<1>2. CASE BootRuns
  <2>1. bootloader_main
    BY <1>2 DEF BootRuns
  <2>2. CASE board'.flash = board.flash
    BY <2>2 DEF BootIntact
  <2>3. CASE rx # <<>> /\ board'.flash = Commanded(Head(rx))
    <3>1. Head(rx) \in Byte
      BY <1>1, <2>3, LineTail
    <3> QED
      BY <1>1, <2>3, <3>1, CommandSpares DEF BootIntact
  <2> QED
    BY <1>1, <2>1, <2>2, <2>3, FlashAfter
<1>3. CASE Resets
  BY <1>1, <1>3 DEF Resets, Reset, BootIntact, Boards
<1>4. CASE PowerGoes
  BY <1>1, <1>4 DEF PowerGoes, BootIntact, Boards
<1>5. CASE UNCHANGED board
  BY <1>5 DEF BootIntact
<1>6. CASE ConsoleGets \/ ProgramReads \/ DeafProgram \/ Unpowered \/ ByteLost \/ Types
  BY <1>3, <1>5, <1>6 DEF ConsoleGets, ProgramReads, DeafProgram, Unpowered, ByteLost, Types
<1>7. CASE Watchdog \/ UserResets \/ PowerReturns
  BY <1>3, <1>7 DEF Watchdog, UserResets, PowerReturns
<1>8. CASE ProgRuns
  BY <1>5, <1>8 DEF ProgRuns, WaitHears, WaitLapses, WaitGivesUp, AnswerHeard, AnswerLapses,
     ReadHears, ReadLapses, ReadAnswered, ReadAnswerLapses, ConsoleShows, RunAgain, Keeps
<1>9. CASE UNCHANGED vars
  BY <1>5, <1>9 DEF vars
<1> QED
  BY <1>2, <1>4, <1>6, <1>7, <1>8, <1>9 DEF Next, BoardRuns

\* If none of the bytes there are gets to page 0 but 0, the bootloader outlives
\* every fault: lost bytes, lapses, power failures, the program run as commands.
THEOREM BootloaderStays ==
  ASSUME NoAlias
  PROVE  Spec => []BootIntact(board)
<1>1. Init => BootIntact(board)
  BY DEF Init, BootIntact, Above, Flash
<1>2. BoardTypeOK /\ BootIntact(board) /\ [Next]_vars => BootIntact(board)'
  BY StepSpares
<1>3. TypeOK => BoardTypeOK
  BY DEF TypeOK
<1> QED
  BY <1>1, <1>2, <1>3, FlashingTypeCorrect, PTL DEF Spec

=============================================================================
