SPECIFICATION FairPipelineSpec
CONSTANTS
  eth = eth
  btc = btc
  Malformed = Malformed
  Inputs <- MCInputs
  Sides = {"BUY", "SELL"}
  Symbols = {eth, btc}
  Prices = {0, 1, 2}
  Quantities = {1, 2}
  o1 = o1
  o2 = o2
  Orders <- MCOrders
  Payloads <- MCPayloads
  MaxOrders = 3
  MaxFaults = 1
  MaxStops = 1
  MaxCrashes = 1
INVARIANTS
  EngineTypeOK
  MessagesHandled
  TradesReported
  ExecutionsExplained
PROPERTY OrdersReachEngine
