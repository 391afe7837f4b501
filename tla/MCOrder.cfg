SPECIFICATION FairSpec
CONSTANTS
  alice = alice
  bob = bob
  usd = usd
  btc = btc
  k1 = k1
  k2 = k2
  Nil = Nil
  NoAsset = NoAsset
  NoRequest = NoRequest
  NoOrder = NoOrder
  NoRow = NoRow
  Users <- MCUsers
  Assets <- MCAssets
  Keys <- MCKeys
  Places = {p1, p2}
  Cancels = {c1}
  Requests <- MCRequests
  InitialBalances <- MCBalances
  Tick = 4
  PoolSize = 2
  MaxFaults = 1
  MaxCrashes = 1
INVARIANTS
  TypeOK
  NoOverdraft
  NoLostUpdate
  AtomicPlacement
  CancelledWasRefunded
  LedgerBalanced
PROPERTIES
  AllCallsReturn
  KeepsPromise
