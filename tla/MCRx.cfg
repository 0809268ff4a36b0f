SPECIFICATION FairSpec
CONSTANTS
  Mbufs = {m1, m2, m3}
  NRX = 3
  None = None
INVARIANTS
  TypeOK
  DmaIntoOwned
  HeldOnce
  NothingLeaks
PROPERTIES
  ImplementsPipe
  HarvestTakesAll
