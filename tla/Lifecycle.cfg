CONSTANTS
  MaxLoads = 3
SPECIFICATION Spec
CHECK_DEADLOCK FALSE
INVARIANTS TypeOK CarefulUseSafe NothingCallsIn LoadNotBlocked
