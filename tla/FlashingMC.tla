------------------------------ MODULE FlashingMC ------------------------------
(* A small program for TLC: two pages and an empty one, of two bytes each.  *)
(* Both pages' bytes are a command to the bootloader, the first's one that  *)
(* takes the bootloader away: flash has four pages, of which a byte gets to *)
(* the one in its low 2 bits.                                               *)
EXTENDS Flashing

AllBytes == {"0", "FF", "?", "B", "!", "e", "p", "r", "l", "j", "banner", "+", "x",
             " ", "o", "1", "2", "3"}
ThreePages == <<"1", "2", "3">>
LowBits == [b \in AllBytes |->
  CASE b \in {"1", "!", "e"} -> "1"
    [] b \in {"2", "B", "r", "j"} -> "2"
    [] b \in {"3", "FF", "?", "+", "o"} -> "3"
    [] OTHER -> "0"]
NewProgram == [p \in {"1", "2", "3"} |->
  CASE p = "1" -> <<"p", " ">> [] p = "2" -> <<"e", "1">> [] p = "3" -> <<"FF", "FF">>]
OldProgram == [p \in {"1", "2", "3"} |-> <<"o", "l">>]
===============================================================================
