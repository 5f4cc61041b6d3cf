------------------------------- MODULE Flashing -------------------------------
(***************************************************************************)
(* Putting a new program into a board: the programmer (cctl/cctl-prog) at   *)
(* one end of the serial line, at the other the bootloader and, once that   *)
(* has jumped, the user's program with its console.  The programmer's user  *)
(* starts it again when it fails.                                           *)
(*                                                                          *)
(* A byte may be lost on the line, the board's power may go.  Time is in    *)
(* the guards: the programmer waits two seconds for a byte, the watchdog    *)
(* one for a command, and both are long for a byte under way.               *)
(***************************************************************************)
EXTENDS Boot, FiniteSets

CONSTANTS
  Image,      \* the new program: a page's bytes
  OldImage,
  MaxTyped,   \* bound on what is typed at the console
  MaxFaults   \* bound on faults: line, power, a programmer too slow for the window

ASSUME FlashingAssumption ==
  /\ \A program \in {Image, OldImage} : /\ program \in [Pages -> Seq(Byte)]
                                        /\ \A p \in Pages : Len(program[p]) = PageLen
  /\ \E c \in Chars : c # "+"
  /\ MaxTyped \in Nat /\ MaxFaults \in Nat

VARIABLES
  prog,     \* the programmer
  typed,    \* characters typed so far
  faults    \* faults so far

vars == <<con, board, rx, tx, prog, typed, faults>>

(***************************************************************************)
(*   pc      what the programmer waits for: "BB", or the answer to "load",  *)
(*           "erase", "program", "read"; "done" after "Programming          *)
(*           complete", "failed" after any message of failure               *)
(*   at      index of the page;  c, prev: of wait_for_bootloader            *)
(*   verbuf  of erase_program_verify_page;  got: how much of it is read     *)
(*   lapsed  history: serialRead has returned without a byte in this run    *)
(***************************************************************************)
Started == [pc |-> "BB", at |-> 1, c |-> "0", prev |-> "0", verbuf |-> Spoilt, got |-> 0,
            lapsed |-> FALSE]
Page == PageSeq[prog.at]
IsEmpty(p) == Image[p] = Erased

TypeOK ==
  /\ ConsTypeOK /\ BoardTypeOK
  /\ prog \in [pc : {"BB", "load", "erase", "program", "read", "done", "failed"},
               at : DOMAIN PageSeq, c : Byte, prev : Byte, verbuf : Seq(Byte),
               got : 0..PageLen, lapsed : BOOLEAN]
  /\ Len(prog.verbuf) = PageLen
  /\ typed \in 0..MaxTyped /\ faults \in 0..MaxFaults

Blank == [p \in Pages |-> Erased]
User(flash) == [p \in Pages |-> flash[p]]
Above(program) == [p \in Flash |-> IF p = "0" THEN Loader ELSE program[p]]
Fault == faults < MaxFaults /\ faults' = faults + 1

\* main, up to wait_for_bootloader's first read; serialOpen drops old input.
Plusses == <<"+", "+", "+">>
Init ==
  /\ \E c \in Chars : con = Cleared([i \in Indices |-> c], c)
  /\ \E old \in {Blank, OldImage} :
       board = [pc |-> IF old = Blank THEN "command" ELSE "user", n |-> 0, page |-> "0",
                cmd |-> "e", i |-> 0, flash |-> Above(old), buf |-> Zeroed]
  /\ prog = Started /\ rx = Plusses /\ tx = <<>> /\ typed = 0 /\ faults = 0

RunAgain ==
  /\ prog.pc = "failed"
  /\ prog' = Started /\ rx' = rx \o Plusses /\ tx' = <<>>
  /\ UNCHANGED <<con, board, typed, faults>>

-----------------------------------------------------------------------------
(* The board.                                                               *)

\* The user's program reads its console only when it is whole.
Whole == User(board.flash) \in {Image, OldImage}
Runs == board.pc = "user" /\ Whole

\* Reset, for whatever reason: what was under way to the board is lost.
Resets ==
  /\ board' = Reset(board) /\ con' = Cleared(con.rxfifo, con.ch)
  /\ rx' = <<>> /\ tx' = IF BootIntact(board) THEN Append(tx, Banner) ELSE tx

\* "B"s are far apart: the next comes after the programmer's answer to the
\* last, unless the programmer is slow.
InTime == tx = <<>> \/ board.pc # "window" \/ rx # <<>> \/ board.n = 0
BootRuns ==
  /\ bootloader_main /\ UNCHANGED <<con, prog, typed>>
  /\ IF InTime THEN UNCHANGED faults ELSE Fault

\* All other bytes are one to the console.
AsChar(byte) == IF byte \in Chars THEN byte ELSE CHOOSE c \in Chars : c # "+"
ConsoleGets ==
  /\ Runs /\ rx # <<>>
  /\ IF Breaks(AsChar(Head(rx))) THEN Resets
     ELSE consrx_isr(AsChar(Head(rx))) /\ rx' = Tail(rx) /\ UNCHANGED <<board, tx>>
  /\ UNCHANGED <<prog, typed, faults>>

ProgramReads == Runs /\ cons_getch /\ UNCHANGED <<board, rx, tx, prog, typed, faults>>

\* A program that is not whole does not get what comes.
DeafProgram ==
  /\ board.pc = "dead" \/ (board.pc = "user" /\ ~Whole)
  /\ rx # <<>>
  /\ rx' = <<>> /\ UNCHANGED <<con, board, tx, prog, typed, faults>>

LineIdle == rx = <<>> /\ tx = <<>>
Watchdog ==
  /\ board.pc \in WaitsUnpatted /\ LineIdle
  /\ Resets /\ UNCHANGED <<prog, typed, faults>>

\* "reset board now", when nothing else brings the bootloader.
UserResets ==
  /\ board.pc = "user" /\ ~Whole /\ LineIdle /\ prog.pc = "BB"
  /\ Resets /\ UNCHANGED <<prog, typed, faults>>

PowerGoes ==
  /\ board.pc # "off" /\ Fault
  /\ board' = [board EXCEPT !.pc = "off"] /\ rx' = <<>>
  /\ UNCHANGED <<con, tx, prog, typed>>

PowerReturns == board.pc = "off" /\ Resets /\ UNCHANGED <<prog, typed, faults>>
Unpowered == board.pc = "off" /\ rx # <<>> /\ rx' = <<>>
             /\ UNCHANGED <<con, board, tx, prog, typed, faults>>

RemoveAt(s, i) == SubSeq(s, 1, i - 1) \o SubSeq(s, i + 1, Len(s))
ByteLost ==
  /\ Fault
  /\ \/ \E i \in 1..Len(rx) : rx' = RemoveAt(rx, i) /\ UNCHANGED tx
     \/ \E i \in 1..Len(tx) : tx' = RemoveAt(tx, i) /\ UNCHANGED rx
  /\ UNCHANGED <<con, board, prog, typed>>

-----------------------------------------------------------------------------
(* The programmer.                                                          *)

\* serialRead: a byte, or after two seconds without one, 1 all the same and
\* whatever was in the buffer.
Lapses == LineIdle /\ board.pc \in {"user", "off", "dead"}
Keeps == UNCHANGED <<con, board, typed, faults>>
SendsOn(p, bytes) == prog' = p /\ rx' = rx \o bytes

\* What main does at a page: load_data first, or erase_page alone.
PageBegins(p, i) ==
  LET page == PageSeq[i]
      q == [p EXCEPT !.at = i, !.got = 0]
  IN IF IsEmpty(page) THEN SendsOn([q EXCEPT !.pc = "erase"], <<"e", page>>)
     ELSE SendsOn([q EXCEPT !.pc = "load"], <<"l">> \o Image[page])

PageEnds(p) ==
  IF p.at < Len(PageSeq) THEN PageBegins(p, p.at + 1)
  ELSE SendsOn([p EXCEPT !.pc = "done"], <<"j">>)

Fails(p) == SendsOn([p EXCEPT !.pc = "failed"], <<>>)

\* wait_for_bootloader: two "B"s in a row, or one and a lapse.
Heard(c, lapsed) ==
  LET p == [prog EXCEPT !.c = c, !.lapsed = @ \/ lapsed]
  IN IF c = "B" /\ p.prev = "B"
     THEN LET q == [p EXCEPT !.c = "0", !.prev = "0"]
          IN IF IsEmpty(PageSeq[1]) THEN SendsOn([q EXCEPT !.pc = "erase"], <<"!", "e", PageSeq[1]>>)
             ELSE SendsOn([q EXCEPT !.pc = "load"], <<"!", "l">> \o Image[PageSeq[1]])
     ELSE SendsOn([p EXCEPT !.prev = c], <<>>)

WaitHears == prog.pc = "BB" /\ tx # <<>> /\ Heard(Head(tx), FALSE) /\ tx' = Tail(tx) /\ Keeps
WaitLapses == prog.pc = "BB" /\ Lapses /\ Heard(prog.c, TRUE) /\ UNCHANGED tx /\ Keeps
\* The time is up: when nothing comes, or just as the board is heard.
WaitGivesUp ==
  /\ prog.pc = "BB" /\ Fails(prog) /\ UNCHANGED <<con, board, tx, typed>>
  /\ IF Lapses THEN UNCHANGED faults ELSE Fault

\* The answer to load_data, erase_page and program_page.
Answered(p) ==
  CASE p.pc = "load" -> SendsOn([p EXCEPT !.pc = "erase"], <<"e", Page>>)
    [] p.pc = "erase" -> IF IsEmpty(Page) THEN PageEnds(p)
                         ELSE SendsOn([p EXCEPT !.pc = "program"], <<"p", Page>>)
    [] p.pc = "program" -> SendsOn([p EXCEPT !.pc = "read"], <<"r", Page>>)

AnswerHeard ==
  /\ prog.pc \in {"load", "erase", "program"} /\ tx # <<>>
  /\ IF Head(tx) = Ack THEN Answered(prog) ELSE Fails(prog)
  /\ tx' = Tail(tx) /\ Keeps

\* rsp is not initialised.
AnswerLapses ==
  /\ prog.pc \in {"load", "erase", "program"} /\ Lapses
  /\ LET p == [prog EXCEPT !.lapsed = TRUE] IN Answered(p) \/ Fails(p)
  /\ UNCHANGED tx /\ Keeps

\* read_page; a lapse counts as a byte, and leaves verbuf's as it was.
ReadHears ==
  /\ prog.pc = "read" /\ prog.got < PageLen /\ tx # <<>>
  /\ SendsOn([prog EXCEPT !.verbuf[prog.got + 1] = Head(tx), !.got = @ + 1], <<>>)
  /\ tx' = Tail(tx) /\ Keeps

ReadLapses ==
  /\ prog.pc = "read" /\ prog.got < PageLen /\ Lapses
  /\ SendsOn([prog EXCEPT !.got = @ + 1, !.lapsed = TRUE], <<>>)
  /\ UNCHANGED tx /\ Keeps

\* erase_program_verify_page's comparison.
NotVerified(p) == PageEnds(p)                                \* mutant
Verified(p) == IF p.verbuf = Image[Page] THEN PageEnds(p) ELSE Fails(p)
ReadAnswered ==
  /\ prog.pc = "read" /\ prog.got = PageLen /\ tx # <<>>
  /\ IF Head(tx) = Ack THEN Verified(prog) ELSE Fails(prog)
  /\ tx' = Tail(tx) /\ Keeps

ReadAnswerLapses ==
  /\ prog.pc = "read" /\ prog.got = PageLen /\ Lapses
  /\ LET p == [prog EXCEPT !.lapsed = TRUE] IN Verified(p) \/ Fails(p)
  /\ UNCHANGED tx /\ Keeps

\* do_console.
ConsoleShows == prog.pc = "done" /\ tx # <<>> /\ tx' = <<>> /\ UNCHANGED <<rx, prog>> /\ Keeps
Types ==
  /\ prog.pc = "done" /\ typed < MaxTyped /\ typed' = typed + 1
  /\ \E c \in Chars : rx' = Append(rx, c)
  /\ UNCHANGED <<con, board, tx, prog, faults>>

ProgRuns ==
  WaitHears \/ WaitLapses \/ WaitGivesUp \/ AnswerHeard \/ AnswerLapses \/ ReadHears
  \/ ReadLapses \/ ReadAnswered \/ ReadAnswerLapses \/ ConsoleShows \/ RunAgain
BoardRuns == BootRuns \/ ConsoleGets \/ DeafProgram \/ Watchdog \/ Unpowered

Next == ProgRuns \/ BoardRuns \/ ProgramReads \/ UserResets \/ Types \/ PowerReturns \/ PowerGoes \/ ByteLost

Spec == Init /\ [][Next]_vars
\* Neither end is idle for ever, power returns, and the user who is told again
\* and again to reset the board does.
FairSpec == Spec /\ WF_vars(ProgRuns) /\ WF_vars(BoardRuns) /\ WF_vars(ProgramReads)
            /\ WF_vars(PowerReturns) /\ SF_vars(UserResets)

-----------------------------------------------------------------------------
(* "Programming complete" is printed only when every page of the program is *)
(* in flash as it should be, the bootloader has not been touched, and when  *)
(* no answer was missing, every page that should be empty is.  (Where two   *)
(* pages have the same bytes this is not so: the first's are still in       *)
(* verbuf when the second's reading lapses, or in rambuf when its load_data *)
(* is lost.)                                                                *)
Twins == \E p, q \in Pages : p # q /\ Image[p] = Image[q] /\ ~IsEmpty(p)
Complete ==
  [][prog.pc # "done" /\ prog'.pc = "done" /\ ~Twins =>
       /\ \A p \in Pages : IsEmpty(p) \/ board.flash[p] = Image[p]
       /\ prog'.lapsed \/ User(board.flash) = Image
       /\ BootIntact(board)]_vars

\* When faults have ended, the programmer, run again after each failure,
\* completes: the board finds its way back to the bootloader's window.  Unless
\* it has none any more: after a lost "l" the program's bytes are commands, and
\* "p" or "e" with a byte that is 0 in its low 5 bits takes the bootloader away.
Completes == <>(prog.pc = "done" \/ ~BootIntact(board))
===============================================================================
