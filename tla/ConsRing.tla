------------------------------- MODULE ConsRing -------------------------------
(***************************************************************************)
(* The console's receive ring in os/cons_cc1110.c: filled by consrx_isr,    *)
(* emptied by cons_getch.  With more than 256 elements (CONS_RXFIFO_ELEMENTS *)
(* of ccrl is 1280) its indices are 16 bits wide, and this 8-bit processor  *)
(* reads and writes them a half at a time, the interrupt coming between;    *)
(* with fewer (Half at least RXFIFO_SIZE) the upper half is always 0.       *)
(* The same interrupt counts the +++ that restarts the processor.           *)
(***************************************************************************)
EXTENDS Naturals, Sequences

CONSTANTS
  RXFIFO_SIZE,
  Half,     \* 2^8: the width of half an index
  Chars     \* what comes in, "+" among it

ASSUME ConsAssumption ==
  RXFIFO_SIZE \in Nat \ {0, 1} /\ Half \in Nat \ {0} /\ "+" \in Chars

VARIABLE con

Indices == 0..RXFIFO_SIZE - 1
Upper(x) == x \div Half
Lower(x) == x % Half
AfterUnwrapped(i) == i + 1                                   \* mutant
After(i) == (i + 1) % RXFIFO_SIZE
Joined(x, y) == Upper(x) * Half + Lower(y)   \* the upper half of x, the lower of y

(***************************************************************************)
(*   at     "idle", "reading": cons_getch has read half of rxfifo_in,       *)
(*          "taking": it has the character, "storing": half of the new      *)
(*          rxfifo_out is stored                                            *)
(*   seen   rxfifo_in when its first half was read;  ch: *ch                *)
(*   out    rxfifo_out as stored;  first  the half the compiler puts first   *)
(*   came   a character has come between two halves                         *)
(*   drops  history: the characters dropped, modulo 2                       *)
(***************************************************************************)
ConsTypeOK ==
  con \in [rxfifo : [Indices -> Chars], in : Indices, out : 0..RXFIFO_SIZE + Half,
           breaksneeded : 1..3, at : {"idle", "reading", "taking", "storing"},
           seen : Indices, first : {"upper", "lower"}, next : Indices, ch : Chars,
           came : BOOLEAN, drops : {0, 1}]

\* cons_init and the initial value of breaksneeded, in memory of any content.
Cleared(mem, c) ==
  [rxfifo |-> mem, in |-> 0, out |-> 0, breaksneeded |-> 3, at |-> "idle", seen |-> 0,
   first |-> "upper", next |-> 0, ch |-> c, came |-> FALSE, drops |-> 0]

\* The interrupt.
FullOffByOne == con.in = con.out                             \* mutant
Full == con.in = (con.out + RXFIFO_SIZE - 1) % RXFIFO_SIZE
Received(c) ==
  [con EXCEPT !.rxfifo = IF Full THEN @ ELSE [@ EXCEPT ![con.in] = c],
              !.in = IF Full THEN @ ELSE After(@),
              !.drops = IF Full THEN 1 - @ ELSE @,
              !.breaksneeded = IF c = "+" THEN @ - 1 ELSE 3,
              !.came = con.at \in {"reading", "storing"}]

\* At 115200 baud no second character comes between the two halves.
Breaks(c) == c = "+" /\ con.breaksneeded = 1
consrx_isr(c) == ~con.came /\ ~Breaks(c) /\ con' = Received(c)

\* cons_getch: the halves in the order the compiler chose.
GetchReads ==
  /\ con.at = "idle"
  /\ \E first \in {"upper", "lower"} :
       con' = [con EXCEPT !.at = "reading", !.seen = con.in, !.first = first, !.came = FALSE]

SeenIn == IF con.first = "upper" THEN Joined(con.seen, con.in) ELSE Joined(con.in, con.seen)
GetchCompares ==
  /\ con.at = "reading"
  /\ con' = IF SeenIn = con.out THEN [con EXCEPT !.at = "idle", !.seen = 0, !.came = FALSE]
            ELSE [con EXCEPT !.at = "taking", !.seen = 0, !.came = FALSE,
                             !.ch = con.rxfifo[con.out]]

GetchStores ==
  /\ con.at = "taking"
  /\ LET next == After(con.out)
     IN con' = [con EXCEPT !.at = "storing", !.next = next,
                           !.out = IF con.first = "upper" THEN Joined(next, @)
                                   ELSE Joined(@, next)]

GetchReturns ==
  /\ con.at = "storing"
  /\ con' = [con EXCEPT !.at = "idle", !.out = con.next, !.next = 0, !.first = "upper",
                        !.came = FALSE]

cons_getch == GetchReads \/ GetchCompares \/ GetchStores \/ GetchReturns

-----------------------------------------------------------------------------
(* What the ring holds, oldest first: what cons_getch has taken but not yet *)
(* given the room of is no longer in it.                                    *)
First == CASE con.at = "storing" -> con.next
           [] con.at = "taking"  -> After(con.out)
           [] OTHER              -> con.out
Count == (con.in + RXFIFO_SIZE - First) % RXFIFO_SIZE
Held == [i \in 1..Count |-> con.rxfifo[(First + i - 1) % RXFIFO_SIZE]]

Queue == INSTANCE ByteQueue WITH
  queue <- Held, got <- con.ch, drops <- con.drops,
  taking <- con.at \in {"taking", "storing"},
  Capacity <- RXFIFO_SIZE - 1

\* The ring is the bounded queue of ByteQueue, whatever half-read index the
\* reader compares with and whatever half-written one the interrupt compares
\* with: no character comes out twice, out of order, or after it was dropped.
ImplementsQueue == Queue!Spec
===============================================================================
