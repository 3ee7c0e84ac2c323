CONSTANTS
  Order <- RawOrder
  Buffers = {b1, b2}
  MaxTries = 5
  IdleSleep = TRUE
  Faults = {}
  MaxKills = 0
  NoBuffer = NoBuffer
SPECIFICATION FairSpec
PROPERTIES
  RetrySeesFrame
