--------------------------------- MODULE Boot ---------------------------------
(***************************************************************************)
(* The bootloader in cctl/boot/main.c, and the reset that leads to it.      *)
(* Bytes are strings; a page is a sequence of PageLen of them, and is called *)
(* by the byte with its number.  The bootloader's own is page "0": there go  *)
(* reset and interrupts, so once it is changed there is no window any more.  *)
(* What a board runs then is not modelled: it is taken to be deaf and dumb.  *)
(***************************************************************************)
EXTENDS ConsRing

CONSTANTS
  Byte,      \* the bytes, by name
  PageSeq,   \* the pages of flash above the bootloader's, in order
  Addressed, \* the page a byte gets to: its low 5 bits
  PageLen,   \* 1024: bytes in a page
  Banner,    \* the bytes the window starts with, as one
  Bs         \* 8: how many "B"s the window sends

ASSUME BootAssumption ==
  /\ {"0", "FF", "?", "B", "!", "e", "p", "r", "l", "j", Banner} \cup Chars \subseteq Byte
  /\ PageSeq \in Seq(Byte \ {"0"}) \ {<<>>} /\ PageLen \in Nat \ {0} /\ Bs \in Nat \ {0, 1}
  /\ LET flash == {"0"} \cup {PageSeq[i] : i \in DOMAIN PageSeq}
     IN Addressed \in [Byte -> flash] /\ \A page \in flash : Addressed[page] = page

VARIABLES
  board,
  rx, tx    \* bytes on their way to the board, and to the host

Pages == {PageSeq[i] : i \in DOMAIN PageSeq}
Flash == {"0"} \cup Pages
Loader == [i \in 1..PageLen |-> "!"]   \* the bootloader, whatever its bytes
Erased == [i \in 1..PageLen |-> "FF"]
Spoilt == [i \in 1..PageLen |-> "?"]   \* written without being erased
Zeroed == [i \in 1..PageLen |-> "0"]   \* memory after a reset

(***************************************************************************)
(*   pc     "window" while it sends "B"s, "command", "argument" and "load"  *)
(*          in the upgrade loop's getch loops, "user" after jump_to_user    *)
(*   n      of bootloader_main;  page: the byte cons_getch left             *)
(*          "dead" when there is no bootloader                              *)
(*   buf    rambuf;  i: how much of it is loaded                            *)
(***************************************************************************)
BootIntact(b) == b.flash["0"] = Loader
Reset(b) == [b EXCEPT !.pc = IF BootIntact(b) THEN "window" ELSE "dead",
                      !.n = Bs, !.page = "0", !.buf = Zeroed, !.i = 0]

Ack == "0"
Sends(bytes) == tx' = tx \o bytes

\* jump_to_user returns when there is no user's program.
JumpToUser(b) ==
  [b EXCEPT !.pc = IF b.flash[PageSeq[1]][1] = "FF" THEN "command" ELSE "user"]

\* The window: "B"s at leisure until a byte comes or n is 0.
WindowSends ==
  /\ board.pc = "window" /\ rx = <<>> /\ board.n > 0
  /\ board' = [board EXCEPT !.n = @ - 1]
  /\ Sends(<<"B">>) /\ UNCHANGED rx

WindowEnds ==
  /\ board.pc = "window" /\ rx = <<>> /\ board.n = 0
  /\ board' = JumpToUser(board) /\ UNCHANGED <<rx, tx>>

WindowGetch ==
  /\ board.pc = "window" /\ rx # <<>>
  /\ LET b == [board EXCEPT !.page = Head(rx)]
     IN board' = IF b.n # 0 /\ b.page = "!" THEN [b EXCEPT !.pc = "command"]
                 ELSE JumpToUser(b)
  /\ rx' = Tail(rx) /\ UNCHANGED tx

\* The upgrade loop; any other byte is ignored.
Command ==
  /\ board.pc = "command" /\ rx # <<>>
  /\ LET b == [board EXCEPT !.page = Head(rx)]
     IN board' = CASE b.page \in {"e", "p", "r"} -> [b EXCEPT !.pc = "argument", !.cmd = b.page]
                   [] b.page = "l" -> [b EXCEPT !.pc = "load", !.i = 0]
                   [] b.page = "j" -> JumpToUser(b)
                   [] OTHER -> b
  /\ rx' = Tail(rx) /\ UNCHANGED tx

\* flash_erase_page and flash_write refuse page 0 and no other number of it;
\* flash only loses bits when written.
Written(old, buf) == IF old = Erased THEN buf ELSE IF buf = Erased THEN old ELSE Spoilt
flash_erase_page(flash, page) ==
  IF page = "0" THEN flash ELSE [flash EXCEPT ![Addressed[page]] = Erased]
flash_write(flash, page, buf) ==
  IF page = "0" THEN flash ELSE [flash EXCEPT ![Addressed[page]] = Written(@, buf)]

\* What "r" sends: any other number counts on into other memory, or wraps to
\* a page or to nothing.
Contents(page) ==
  IF page \in Flash THEN {board.flash[page]} ELSE {board.flash[Addressed[page]], Spoilt, <<>>}

Commanded(page) ==
  CASE board.cmd = "e" -> flash_erase_page(board.flash, page)
    [] board.cmd = "p" -> flash_write(board.flash, page, board.buf)
    [] OTHER -> board.flash

Argument ==
  /\ board.pc = "argument" /\ rx # <<>>
  /\ LET b == [board EXCEPT !.page = Head(rx), !.flash = Commanded(Head(rx))]
     IN IF BootIntact(b)
        THEN /\ board' = [b EXCEPT !.pc = "command"]
             /\ \E content \in Contents(Head(rx)) :
                  Sends(IF b.cmd = "r" THEN Append(content, Ack) ELSE <<Ack>>)
        ELSE board' = [b EXCEPT !.pc = "dead"] /\ UNCHANGED tx
  /\ rx' = Tail(rx)

Load ==
  /\ board.pc = "load" /\ rx # <<>>
  /\ board' = [board EXCEPT !.page = Head(rx), !.buf[board.i + 1] = Head(rx), !.i = (@ + 1) % PageLen,
                            !.pc = IF board.i + 1 = PageLen THEN "command" ELSE "load"]
  /\ rx' = Tail(rx)
  /\ Sends(IF board.i + 1 = PageLen THEN <<Ack>> ELSE <<>>)

bootloader_main == WindowSends \/ WindowEnds \/ WindowGetch \/ Command \/ Argument \/ Load

\* The watchdog of the upgrade loop, which only a new command pats.
WaitsIdle == {"command"}                                     \* mutant
WaitsUnpatted == {"command", "argument", "load"}

BoardTypeOK ==
  /\ board \in [pc : {"off", "dead", "window", "command", "argument", "load", "user"}, n : 0..Bs,
                page : Byte, cmd : {"e", "p", "r"}, i : 0..PageLen - 1,
                flash : [Flash -> Seq(Byte)], buf : Seq(Byte)]
  /\ \A p \in Flash : Len(board.flash[p]) = PageLen
  /\ Len(board.buf) = PageLen
  /\ rx \in Seq(Byte) /\ tx \in Seq(Byte)
===============================================================================
