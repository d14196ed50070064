CONSTANTS
  Writers = {w1}
  Packets = {1, 2}
  Dsn <- OwnDsn
  AckReq = {1}
  Frames <- TxFrames
  Faults = {}
  Readers = {}
  PktLen = 20
  LplOn = {TRUE}
  CsmaOn = {TRUE}
  Toggles = "between"
  MaxToggles = 0
  MaxArrivals = 1
SPECIFICATION Spec
CHECK_DEADLOCK FALSE
INVARIANTS WindowBegun
