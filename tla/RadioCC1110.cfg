\* One station, coordinator or device, whose devices always poll.
CONSTANTS
  Roles = {"hub", "node"}
  Polls = {TRUE}
  TxPkts = {p1, p2}
  RxFrames = {f1, f2}
  Garbled = garbled
SPECIFICATION FairSpec
INVARIANTS TypeOK TransmittedWhole ReceivedWhole RadioOff
PROPERTIES HubKeepsListening SpinIsFinite
