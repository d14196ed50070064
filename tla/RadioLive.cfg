CONSTANTS
  MaxRx = 2
  MaxTx = 2
  MaxCfg = 1
  Ops = {"on"}
  Acks = "configured"
SPECIFICATION FairSpec
CHECK_DEADLOCK FALSE
PROPERTIES TxAnswered RxReleased ConfigReturns
