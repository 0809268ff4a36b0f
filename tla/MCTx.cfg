SPECIFICATION Spec
CONSTANTS
  f1 = f1  f2 = f2  f3 = f3  f4 = f4
  None = None
  Frames <- MCFrames
  Secure <- MCSecure
  Short <- MCShort
  Nodeless <- MCNodeless
  NTX = 6
  QMax = 2
INVARIANTS
  TypeOK
  FetchedIsOwned
  OneOwner
  NodeRefBalanced
PROPERTIES
  FreedAfterFetch
  ImplementsPipe
