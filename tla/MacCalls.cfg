\* One hub and one device whose application calls mac_tx again from its
\* callbacks, from all of them but mac_rx_cb of a received packet.  A second
\* device never polls, and the hub has one slot for them both.
CONSTANTS
  n1 = n1
  n2 = n2
  h1 = h1
  d1 = d1
  d2 = d2
  u1 = u1
  Nodes = {n1, n2}
  Present = {n1}
  Hubs = {h1}
  UpPkts = {u1}
  DownPkts = {d1, d2}
  EmptyPkt = empty
  SeqMod = 2
  MaxLate = 1
  Duplicates = FALSE
  NumSlots = 1
  TimeoutS = 1
  LocalSeqs = {0}
  NoPkt = nopkt
  AlsoPoll = {TRUE, FALSE}
  ReenterFrom = {"sent", "txcb", "torx", "totx"}
  MaxCalls = 2
  HubRestarts = {h1}
  NodeRestarts = {n1}
SPECIFICATION FairSpec
INVARIANTS WaitCanEnd OneTxCallback
PROPERTIES WaitEnds PacketIsReported
