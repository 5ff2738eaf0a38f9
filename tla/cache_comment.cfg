SPECIFICATION Spec
CONSTANTS
  c1 = c1
  c2 = c2
  k1 = k1
  k2 = k2
  v1 = v1
  v2 = v2
  Caller = {c1}
  Kid = {k1}
  Key = {v1}
  NoKey = NoKey
  NoCaller = NoCaller
  NoReply = NoReply
  CacheTTL = 2
  RefreshCooldown = 1
  FailureCooldown = 2
  FetchTimeout = 1
  RetryBackoff <- OneRetry
  Epoch = 3
  MaxTime = 6
PROPERTY NextLookupRetries
