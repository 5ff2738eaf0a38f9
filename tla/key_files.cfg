SPECIFICATION FairSpec
CONSTANTS
  c1 = c1
  c2 = c2
  kid1 = kid1
  kid2 = kid2
  v1 = v1
  v2 = v2
  Caller <- Callers
  Kid = {kid1, kid2}
  Key = {v1, v2}
  NoKid = NoKid
  NoKey = NoKey
  NoCaller = NoCaller
  FileCount = 2
  RefreshInterval = 2
  LoadTime = 1
  Epoch = 3
  Disks <- TwoFiles
  MaxTime = 6
INVARIANT IInv
PROPERTY CurrentFollowsDisk
PROPERTY LoadsAnIntervalApart
PROPERTY KeysReplacedWhole
PROPERTY EveryCurrentReturns
