CONSTANTS
  MaxRx = 1
  MaxTx = 1
  MaxCfg = 1
  Ops = {"on"}
  Acks = "never"
SPECIFICATION Spec
CHECK_DEADLOCK FALSE
INVARIANTS SuccessMeansAired
