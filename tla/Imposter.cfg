CONSTANTS
  MaxBuffers = 3
  PipeRoom = 4
  Backlog = 2
  FrameLen = 3
  FixedLength = TRUE
SPECIFICATION FairSpec
INVARIANTS
  ImposterInv
PROPERTIES
  ImplementsQueue
  FetchEnds
