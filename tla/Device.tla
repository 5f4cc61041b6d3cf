-------------------------------- MODULE Device --------------------------------
(***************************************************************************)
(* A device and the sketch built into it (SKETCHFILE of sketchwrapper.c).   *)
(* The switch sketch waits for answers and never looks at the time.  Of any *)
(* other, its use of the clock matters: ledsketch delays in every turn,     *)
(* templogger sleeps, a sketch of one's own may do either or neither.       *)
(***************************************************************************)
EXTENDS Clock, Sketch

VARIABLE sketchfile

vars == <<clock, sketch, sketchfile>>

TypeOK ==
  ClockTypeOK /\ SketchTypeOK /\ sketchfile \in {"switchsketch", "other"}

Init ==
  /\ ClockInit /\ SketchInit
  /\ sketchfile \in {"switchsketch", "other"}

Next ==
  /\ \/ sketchfile = "switchsketch" /\ SketchNext /\ UNCHANGED clock
     \/ sketchfile = "other" /\ ClockNext /\ UNCHANGED sketch
  /\ UNCHANGED sketchfile

\* The device's main loop, the hub's os_bg and the server go on.
Fairness ==
  /\ WF_vars(sketchfile = "switchsketch" /\ DeviceRuns /\ UNCHANGED <<clock, sketchfile>>)
  /\ WF_vars(sketchfile = "switchsketch" /\ HubRuns /\ UNCHANGED <<clock, sketchfile>>)

Spec == Init /\ [][Next]_vars
FairSpec == Spec /\ Fairness

-----------------------------------------------------------------------------
(* The light does not stay on for ever: no refused reply, no late or        *)
(* repeated completion keeps the sketch polling and putting without end.    *)
(* What turns it off is a completion, of which LedOffStored says what it    *)
(* means, or a restart, which forgets the click.  And a device that does    *)
(* not restart tells the server that it was clicked: once at least, since a *)
(* click while the light is on, or before a repeated completion of the put  *)
(* before, need not be told again.                                          *)
Told == stored # {}
Settles ==
  /\ <>[](~dev.target)
  /\ clicks > 0 ~> Told \/ life > 0
===============================================================================
