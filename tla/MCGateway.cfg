SPECIFICATION FairSpec
CONSTANTS
  ip1 = ip1
  ip2 = ip2
  k1 = k1
  k2 = k2
  r1 = r1
  r2 = r2
  r3 = r3
  HttpRequests <- MCRequests
  Sessions = {s1}
  NoToken = NoToken
  Addresses = {ip1, ip2}
  Keys = {k1, k2}
  Forms <- MCForms
  NoRequest = NoRequest
  NoOrder = NoOrder
  Burst = 1
  Rate = 1
  MaxEvents = 2
INVARIANTS
  TypeOK
  AnswersTruthful
  RetriesAgree
  RateBounded
PROPERTY RequestsAnswered
