\* A device that sends without polling.
CONSTANTS
  n1 = n1
  h1 = h1
  d1 = d1
  u1 = u1
  Nodes = {n1}
  Present = {n1}
  Hubs = {h1}
  UpPkts = {u1}
  DownPkts = {d1}
  EmptyPkt = empty
  SeqMod = 3
  MaxLate = 2
  Duplicates = FALSE
  NumSlots = 2
  TimeoutS = 2
  LocalSeqs = {0}
  NoPkt = nopkt
  AlsoPoll = {TRUE, FALSE}
  ReenterFrom = {}
  MaxCalls = 1
  HubRestarts = {}
  NodeRestarts = {}
SPECIFICATION Spec
INVARIANT UplinkIntact
