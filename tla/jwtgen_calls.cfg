SPECIFICATION Spec
CONSTANTS
  g1 = g1
  g2 = g2
  k = k
  v1 = v1
  v2 = v2
  a = a
  b = b
  u1 = u1
  s1 = s1
  t1 = t1
  e1 = e1
  Generator = {g1, g2}
  Call = {1, 2, 3}
  Config <- FewConfigs
  KeyID = {"", k}
  SigningKey = {v1, v2}
  UnusableKey = UnusableKey
  NoGenerator = NoGenerator
  NoCall = NoCall
  NoToken = NoToken
  DefaultKeyID = "test-key"
  DefaultTTL = 3
  DefaultSubject = "test-subject"
  DefaultCaller = "test-caller"
  DefaultClientID = "test-client"
  DefaultSourceJTI = 100
  UncheckedClaims <- FewClaims
  Epoch = 4
  MaxTime = 5
  Second = 1
  TrustedIssuer = "gateway"
  Leeway = 1
SYMMETRY Alike
INVARIANT IInv
INVARIANT MintedAsConfigured
CHECK_DEADLOCK FALSE
