CONSTANTS
  Order <- RawOrder
  Buffers = {b1, b2}
  MaxTries = 5
  IdleSleep = TRUE
  Faults = {"device", "encoder", "socket", "listen", "start", "select", "dequeue", "requeue",
            "decode", "encode", "file", "disk"}
  MaxKills = 1
  NoBuffer = NoBuffer
SPECIFICATION FairSpec
INVARIANTS
  LoopInv
  OutputIsWhole
PROPERTIES
  StopsWhenAsked
  StarvedDaemonEnds
