SPECIFICATION Spec
CONSTANTS
  a = a
  b = b
  u1 = u1
  u2 = u2
  web = web
  s1 = s1
  s2 = s2
  t1 = t1
  e1 = e1
  Service = {a, b}
  External <- ExternalTokens
  Second = 2
  TTL = 3
  IssuerID = "gateway"
  TrustedIssuer = "gateway"
  Leeway = 1
  Skew = 1
  Epoch = 4
  MaxTime = 8
  MaxTokens = 3
INVARIANT IInv
INVARIANT IssuedIsAccepted
INVARIANT ChainKeepsUser
INVARIANT ChainKeepsMachine
INVARIANT HopsFollowTheirContext
INVARIANT LifetimeFollowsSource
CHECK_DEADLOCK FALSE
