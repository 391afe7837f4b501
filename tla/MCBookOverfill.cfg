SPECIFICATION Spec
CONSTANTS
  eth = eth
  btc = btc
  Sides <- MCSides
  Symbols = {eth}
  Prices = {0, 1}
  Quantities <- MCQuantities
  MaxOrders = 3
INVARIANT NoOverfill
