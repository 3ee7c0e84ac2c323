CONSTANTS
  MaxFrame = 3
  WireRoom = 4
  ReadTimeout = 2
  Backoff = 1
  ConnectingAfter = 2
  InterruptedAfter = 3
  GiveUp = 5
  SendTimeout = 2
  FrameInterval = 1
  FrameSize = 2
  ViewerRoom = 2
SPECIFICATION FairSpec
INVARIANTS
  RelayInv
  NeverFrozen
PROPERTIES
  NoFrameLost
  WholeFramesAreOffered
  GoneViewerEnds
