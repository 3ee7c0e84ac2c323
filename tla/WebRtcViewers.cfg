CONSTANTS
  Viewers = {v1, v2}
  MaxClients = 1
  Timeout = 2
  ConnectingAfter = 1
  InterruptedAfter = 1
  SessionTimeout = 3
SPECIFICATION FairSpec
INVARIANTS
  ViewersInv
  NeverFrozen
  GoodbyeIsLast
  AnsweringViewerStays
PROPERTIES
  DeadViewerLeaves
  LiveComesBack
