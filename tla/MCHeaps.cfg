SPECIFICATION HeapSpec
CONSTANTS
  eth = eth
  btc = btc
  Sides <- MCSides
  Symbols = {eth}
  Prices = {0, 1, 2}
  Quantities <- MCQuantities
  MaxOrders = 6
INVARIANTS
  TypeOK
  TradesWithinLimits
  MakersBounded
  FillsAccounted
  CrossedOnlyIfFilled
PROPERTIES
  ImplementsLimitBook
  OvertakingOnlyByPop
