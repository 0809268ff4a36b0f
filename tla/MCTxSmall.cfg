SPECIFICATION Spec
CONSTANTS
  f1 = f1  f2 = f2  f3 = f3  f4 = f4
  None = None
  Frames <- MCPlain
  Secure <- MCSecure
  Short <- MCNothing
  Nodeless <- MCNothing
  NTX = 4
  QMax = 2
INVARIANTS
  EncapTwiceOnlyWhenStale
  ReclaimCatchesUp
PROPERTIES
  RingNeverOverflows
