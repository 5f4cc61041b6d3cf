\* Two hubs in earshot of each other and of two devices, any of which may
\* restart; frames repeat, come late, out of order or never.
CONSTANTS
  n1 = n1
  n2 = n2
  h1 = h1
  h2 = h2
  d1 = d1
  d2 = d2
  Nodes = {n1, n2}
  Present = {n1, n2}
  Hubs = {h1, h2}
  UpPkts = {}
  DownPkts = {d1, d2}
  EmptyPkt = empty
  SeqMod = 3
  MaxLate = 2
  Duplicates = TRUE
  NumSlots = 2
  TimeoutS = 1
  LocalSeqs = {0, 1}
  NoPkt = nopkt
  AlsoPoll = {TRUE}
  ReenterFrom = {}
  MaxCalls = 1
  HubRestarts = {h1, h2}
  NodeRestarts = {n1, n2}
SPECIFICATION Spec
SYMMETRY Symmetry
INVARIANTS TypeOK HeldIffPending OnlySentTravels InboxInOrder NoCrossTalk
PROPERTIES OnlyWhilePolling ImplementsCourier
