\* One hub that may be slow, so that an answer may miss its poll.
CONSTANTS
  n1 = n1
  h1 = h1
  d1 = d1
  d2 = d2
  u1 = u1
  Nodes = {n1}
  Present = {n1}
  Hubs = {h1}
  UpPkts = {}
  DownPkts = {d1, d2}
  EmptyPkt = empty
  SeqMod = 3
  MaxLate = 2
  Duplicates = FALSE
  NumSlots = 2
  TimeoutS = 2
  LocalSeqs = {0}
  NoPkt = nopkt
  AlsoPoll = {TRUE}
  ReenterFrom = {}
  MaxCalls = 1
  HubRestarts = {}
  NodeRestarts = {}
SPECIFICATION Spec
PROPERTY ReplyIsTaken
