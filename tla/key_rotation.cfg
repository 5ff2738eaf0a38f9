SPECIFICATION Spec
CONSTANTS
  g1 = g1
  g2 = g2
  s1 = s1
  old = old
  new = new
  Gateway <- Replicas
  Service = {s1}
  Kid = {old, new}
  NoKey = NoKey
  KeyLag = 2
  UnknownLag = 2
  Plan <- Rotation
  TTL = 1
  Leeway = 1
  StageWait = 2
  Epoch = 3
  MaxTime = 9
SYMMETRY AnyReplica
INVARIANT IInv
PROPERTY LiveTokensResolve
PROPERTY WithdrawnKeysForgotten
