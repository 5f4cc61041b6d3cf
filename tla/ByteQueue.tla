------------------------------ MODULE ByteQueue -------------------------------
(***************************************************************************)
(* What the console's receive ring promises: characters come out once each  *)
(* and in the order they came in; one that finds no room is dropped, and so *)
(* may be one that comes while another is being taken.                      *)
(***************************************************************************)
EXTENDS Naturals, Sequences

CONSTANTS Chars, Capacity

VARIABLES
  queue,
  got,      \* the character last taken
  taking,   \* the reader has taken it and is giving its room back
  drops     \* the characters dropped, modulo 2

Init == queue = <<>> /\ got \in Chars /\ taking = FALSE /\ drops = 0

Put(c) ==
  Len(queue) < Capacity /\ queue' = Append(queue, c) /\ UNCHANGED <<got, taking, drops>>
Drop ==
  (Len(queue) = Capacity \/ taking) /\ drops' = 1 - drops /\ UNCHANGED <<queue, got, taking>>
Take ==
  /\ queue # <<>> /\ ~taking
  /\ got' = Head(queue) /\ queue' = Tail(queue) /\ taking' = TRUE /\ UNCHANGED drops
Taken == taking /\ taking' = FALSE /\ UNCHANGED <<queue, got, drops>>

\* cons_init, after a reset.
Clear == queue' = <<>> /\ got' \in Chars /\ taking' = FALSE /\ drops' = 0

Next == (\E c \in Chars : Put(c)) \/ Drop \/ Take \/ Taken \/ Clear
Spec == Init /\ [][Next]_<<queue, got, taking, drops>>
===============================================================================
