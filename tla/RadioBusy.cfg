\* A device that also sends without polling.
CONSTANTS
  Roles = {"node"}
  Polls = {TRUE, FALSE}
  TxPkts = {p1, p2}
  RxFrames = {f1}
  Garbled = garbled
SPECIFICATION Spec
INVARIANT TransmittedWhole
