CONSTANTS
  Writers = {w1}
  Packets = {1}
  Dsn <- OwnDsn
  AckReq = {1}
  Frames <- TxFrames
  Faults = {}
  Readers = {}
  PktLen = 20
  LplOn = {TRUE}
  CsmaOn = {FALSE}
  Toggles = "between"
  MaxToggles = 0
  MaxArrivals = 0
SPECIFICATION Spec
CHECK_DEADLOCK FALSE
INVARIANTS NoTxFromIrq
