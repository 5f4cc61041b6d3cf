\* A server whose window may be smaller than a request.
CONSTANTS
  NUM_CMDPKTS = 3
  Pkts = {1, 2, 3, 4}
  Blank = blank
  None = none
  Unknown = {2}
  Windows = {"whole", "part"}
  MaxFails = 2
SPECIFICATION Spec
INVARIANT NothingLost
