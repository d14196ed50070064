CONSTANTS
  MaxRx = 4
  MaxTx = 0
  MaxCfg = 1
  Ops = {"on"}
  Acks = "never"
SPECIFICATION Spec
CHECK_DEADLOCK FALSE
INVARIANTS RxIntact
PROPERTIES RxInOrder
