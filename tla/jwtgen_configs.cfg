SPECIFICATION Spec
CONSTANTS
  g1 = g1
  g2 = g2
  k = k
  v1 = v1
  v2 = v2
  a = a
  b = b
  u1 = u1
  s1 = s1
  t1 = t1
  e1 = e1
  Generator = {g1}
  Call = {1}
  Config <- AllConfigs
  KeyID = {"", k}
  SigningKey = {v1}
  UnusableKey = UnusableKey
  NoGenerator = NoGenerator
  NoCall = NoCall
  NoToken = NoToken
  DefaultKeyID = "test-key"
  DefaultTTL = 3
  DefaultSubject = "test-subject"
  DefaultCaller = "test-caller"
  DefaultClientID = "test-client"
  DefaultSourceJTI = 100
  UncheckedClaims <- AnyClaims
  Epoch = 4
  MaxTime = 8
  Second = 2
  TrustedIssuer = "gateway"
  Leeway = 1
INVARIANT RefusedForCause
INVARIANT LifetimeAsAsked
INVARIANT MintedVerifies
INVARIANT AcceptedContinuesOneWay
CHECK_DEADLOCK FALSE
