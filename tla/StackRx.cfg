CONSTANTS
  Writers = {w1}
  Packets = {}
  Dsn <- OwnDsn
  AckReq = {}
  Frames <- RxFrames
  Faults = {"efault", "nomem", "signal"}
  Readers = {r1}
  PktLen = 20
  LplOn = {TRUE}
  CsmaOn = {TRUE}
  Toggles = "between"
  MaxToggles = 0
  MaxArrivals = 3
SPECIFICATION Spec
CHECK_DEADLOCK FALSE
INVARIANTS UniqueExact ReadFresh
