SPECIFICATION Spec
CONSTANTS
  k1 = k1
  k2 = k2
  k3 = k3
  p1 = p1
  p2 = p2
  Name = {k1, k2, k3}
  Point = {p1, p2}
  NoKey = NoKey
  Error = Error
  ForeignEntry <- Foreign
  MaxEntries = 2
INVARIANT IInv
INVARIANT RoundTrip
PROPERTY WholeDocumentOrNone
CHECK_DEADLOCK FALSE
