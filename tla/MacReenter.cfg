\* An application that calls mac_tx from mac_rx_cb.
CONSTANTS
  n1 = n1
  h1 = h1
  d1 = d1
  u1 = u1
  Nodes = {n1}
  Present = {n1}
  Hubs = {h1}
  UpPkts = {}
  DownPkts = {d1}
  EmptyPkt = empty
  SeqMod = 3
  MaxLate = 2
  Duplicates = FALSE
  NumSlots = 2
  TimeoutS = 2
  LocalSeqs = {0}
  NoPkt = nopkt
  AlsoPoll = {TRUE}
  ReenterFrom = {"rxcb"}
  MaxCalls = 2
  HubRestarts = {}
  NodeRestarts = {}
SPECIFICATION Spec
INVARIANT OneTxCallback
