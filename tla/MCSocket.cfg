SPECIFICATION FairSpec
CONSTANTS
  Symbols = {"btc", "eth"}
  Idle = Idle
  MaxSockets = 4
  MaxSelects = 3
CHECK_DEADLOCK FALSE
INVARIANT OneConnection
PROPERTY KeepsTrying
