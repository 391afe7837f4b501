SPECIFICATION FairSpec
CONSTANTS
  alice = alice
  bob = bob
  a1 = a1
  a2 = a2
  b1 = b1
  Messages <- MCMessages
  NoMessage = NoMessage
  Keys <- MCKeys
  KeyOf <- MCKeyOf
  Partitions = {q1}
  Limit = 2
  MaxFaults = 1
  MaxShutdowns = 1
  MaxCrashes = 1
INVARIANTS
  TypeOK
  DuplicatesExplained
  OrderPreserved
PROPERTIES
  EventuallySettled
  KeepsPromise
