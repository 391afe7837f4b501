SPECIFICATION FairSpec
CONSTANTS
  c1 = c1
  c2 = c2
  eth = eth
  btc = btc
  Clients <- MCClients
  Symbols = {eth, btc}
  SymbolOf <- MCSymbolOf
  MaxConnections = 1
  SendBuffer = 1
  HubBuffer = 1
  MaxTrades = 2
INVARIANTS
  TypeOK
  ChannelsSound
  ActiveIsAccurate
  NoGaps
PROPERTY NoneLeftBehind
