SPECIFICATION Spec
CONSTANTS
  c1 = c1
  c2 = c2
  a = a
  b = b
  k1 = k1
  v1 = v1
  v2 = v2
  u1 = u1
  web = web
  t1 = t1
  e1 = e1
  s1 = s1
  s2 = s2
  both = both
  spaces = spaces
  Call = {c1, c2}
  Audience = a
  Procedure = {"read"}
  Configurable = {}
  Policies <- CallTable
  TokenUses <- NoUses
  Scope = {s1, s2}
  Granted <- ScopeClaims
  Token <- CallTokens
  Header <- CallHeaders
  Issued <- CallIssued
  Kid = {k1}
  Key = {v1, v2}
  NoKey = NoKey
  NoToken = NoToken
  NoClaims = NoClaims
  KeyLag = 2
  UnknownLag = 1
  Epoch = 5
  MaxTime = 7
  Second = 2
  TTL = 2
  IssuerID = "gateway"
  TrustedIssuer = "gateway"
  Leeway = 1
SYMMETRY AnyCall
INVARIANT IInv
PROPERTY ServedForLiveKey
PROPERTY EntitledNotRefused
PROPERTY OutageIsNotBlamed
