CONSTANTS
  Peers = {p1, p2}
  Prompt = {p1}
  Stuck = {p2}
  MaxClients = 2
  IdleTimeout = 3
  WriteTimeout = 3
  Capacity = 2
  FrameSizes = {2, 4}
  Kinds = {"h264", "raw"}
  EncoderMayFail = FALSE
  Loaded = FALSE
  NoFd = NoFd
SPECIFICATION FairSpec
INVARIANTS
  PromptReaderNeverCut
  FirstFrameIsKey
PROPERTIES
  DeadReaderLeaves
  CallbackEnds
