SPECIFICATION EngineSpec
CONSTANTS
  eth = eth
  btc = btc
  Malformed = Malformed
  Inputs <- MCInputs
  Sides = {"BUY", "SELL"}
  Symbols = {eth, btc}
  Prices = {0, 1, 2}
  Quantities = {1, 2}
  MaxOrders = 3
  MaxFaults = 0
  MaxStops = 1
  MaxCrashes = 0
INVARIANT BookRebuilt
