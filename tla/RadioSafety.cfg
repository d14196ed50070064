CONSTANTS
  MaxRx = 2
  MaxTx = 2
  MaxCfg = 2
  Ops = {"start", "on", "off"}
  Acks = "any"
SPECIFICATION Spec
CHECK_DEADLOCK FALSE
INVARIANTS TypeOK TxDoneOnce SpiExclusive RxEngineAlive TxEndPending
PROPERTIES ImplementsService
