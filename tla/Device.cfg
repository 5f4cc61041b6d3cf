\* Three faults and two clicks; the clock's counters are scaled down, with
\* 2^16 ticks still longer than 2^16 ms by more than a second.
CONSTANTS
  TicksQS = 3
  MsQS = 2
  Quarters = 8
  SecondMS = 4
  DelayTicks = 1
  Naps = {1, 2}
  MaxBusy = 4
  SeqMod = 8
  POLLS = 2
  TIMEOUT_S = 2
  Room = 1
  MaxClicks = 2
  MaxFaults = 3
SPECIFICATION FairSpec
INVARIANTS TypeOK
PROPERTIES TimersKept LedOffStored Settles
