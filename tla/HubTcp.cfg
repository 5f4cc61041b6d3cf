\* Four device packets, the second without a command, a ring that holds two,
\* and two failures of any kind.
CONSTANTS
  NUM_CMDPKTS = 3
  Pkts = {1, 2, 3, 4}
  Blank = blank
  None = none
  Unknown = {2}
  Windows = {"whole"}
  MaxFails = 2
SPECIFICATION FairSpec
INVARIANTS TypeOK NothingLost InOrder SameSegment LinesWhole FlagsAgree
PROPERTIES ImplementsQueue Settles Drains
