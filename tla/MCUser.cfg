SPECIFICATION Spec
CONSTANTS
  register1 = register1
  other1 = other1
  credit1 = credit1
  take1 = take1
  take2 = take2
  right = right
  wrong = wrong
  long = long
  ann = ann
  usd = usd
  btc = btc
  None = None
  NaN = NaN
  Tick = 4
  Limit = 44
  Float64 <- MCFloat64
  Emails = {ann}
  Passwords = {right, wrong, long}
  Unhashable = {long}
  DefaultAssets <- MCAssets
  Calls = {register1, other1, credit1, take1, take2}
  Requests <- MCRequests
  MaxFaults = 1
INVARIANTS
  OverdraftIsRounding
  BalanceIsSumOfChanges
  RepliesTruthful
