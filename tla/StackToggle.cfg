CONSTANTS
  Writers = {w1}
  Packets = {1, 2}
  Dsn <- OwnDsn
  AckReq = {}
  Frames <- TxFrames
  Faults = {}
  Readers = {}
  PktLen = 20
  LplOn = {TRUE}
  CsmaOn = {TRUE}
  Toggles = "any"
  MaxToggles = 2
  MaxArrivals = 0
SPECIFICATION FairSpec
CHECK_DEADLOCK FALSE
PROPERTIES WriteReturns
