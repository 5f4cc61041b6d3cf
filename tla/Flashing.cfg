\* Two pages and an empty one, three characters typed, two faults: the second
\* may come while the first is being recovered from.  It really may stop: the
\* program is in the board and nobody types.
CONSTANTS
  RXFIFO_SIZE = 3
  Half = 2
  Chars = {"+", "x"}
  Byte <- AllBytes
  PageSeq <- ThreePages
  Addressed <- LowBits
  PageLen = 2
  Banner = "banner"
  Bs = 3
  Image <- NewProgram
  OldImage <- OldProgram
  MaxTyped = 3
  MaxFaults = 2
SPECIFICATION FairSpec
INVARIANTS TypeOK
PROPERTIES ImplementsQueue Complete Completes
CHECK_DEADLOCK FALSE
