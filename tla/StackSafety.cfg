CONSTANTS
  Writers = {w1, w2}
  Packets = {1, 2}
  Dsn <- SameDsn
  AckReq = {2}
  Frames <- TxFrames
  Faults = {"efault", "signal"}
  Readers = {}
  PktLen = 20
  LplOn = {TRUE, FALSE}
  CsmaOn = {TRUE, FALSE}
  Toggles = "any"
  MaxToggles = 1
  MaxArrivals = 1
SPECIFICATION Spec
CHECK_DEADLOCK FALSE
INVARIANTS StackTypeOK TxDoneExpected PacketInOnePlace AckTimerFresh
SYMMETRY WriterSymmetry
