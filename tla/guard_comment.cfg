SPECIFICATION Spec
CONSTANTS
  c1 = c1
  c2 = c2
  a = a
  b = b
  k1 = k1
  v1 = v1
  v2 = v2
  u1 = u1
  web = web
  t1 = t1
  e1 = e1
  s1 = s1
  s2 = s2
  both = both
  spaces = spaces
  Call = {c1}
  Audience = a
  Procedure <- AllProcedures
  Configurable = {"read", "join", "push"}
  Policies <- PolicyTable
  TokenUses <- SomeUses
  Scope = {s1, s2}
  Granted <- ScopeClaims
  Token <- PolicyTokens
  Header <- PolicyHeaders
  Issued <- PolicyIssued
  Kid = {k1}
  Key = {v1}
  NoKey = NoKey
  NoToken = NoToken
  NoClaims = NoClaims
  KeyLag = 1
  UnknownLag = 1
  Epoch = 4
  MaxTime = 4
  Second = 2
  TTL = 2
  IssuerID = "gateway"
  TrustedIssuer = "gateway"
  Leeway = 1
INVARIANT OptionReplacesUses
