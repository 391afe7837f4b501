SPECIFICATION Spec
CONSTANTS
  alice = alice
  bob = bob
  usd = usd
  btc = btc
  k1 = k1
  k2 = k2
  Nil = Nil
  NoAsset = NoAsset
  NoRequest = NoRequest
  NoOrder = NoOrder
  NoRow = NoRow
  Users <- MCUsers
  Assets <- MCAssets
  Keys <- MCKeys
  Places = {p1}
  Cancels = {c1, c2}
  Requests <- MCRequests
  InitialBalances <- MCBalances
  Tick = 4
  PoolSize = 2
  MaxFaults = 0
  MaxCrashes = 0
INVARIANT RefundedAtMostOnce
