CONSTANTS
  Peers = {p1, p2, p3}
  Prompt = {}
  Stuck = {}
  MaxClients = 2
  IdleTimeout = 2
  WriteTimeout = 1
  Capacity = 2
  FrameSizes = {2, 3}
  Kinds = {"jpeg", "mjpeg"}
  EncoderMayFail = TRUE
  Loaded = TRUE
  NoFd = NoFd
SPECIFICATION Spec
SYMMETRY Symmetry
INVARIANTS
  SocketInv
PROPERTIES
  IdleMeansIdle
  ImplementsFeed
