CONSTANTS
  Writers = {w1}
  Packets = {1, 2}
  Dsn <- OwnDsn
  AckReq = {2}
  Frames <- TxFrames
  Faults = {}
  Readers = {}
  PktLen = 20
  LplOn = {TRUE, FALSE}
  CsmaOn = {TRUE}
  Toggles = "between"
  MaxToggles = 1
  MaxArrivals = 2
SPECIFICATION FairSpec
CHECK_DEADLOCK FALSE
INVARIANTS CsmaIdleOnTx CsmaDefersTx SuccessAcked PlainStatus
PROPERTIES UsesService WriteReturns
