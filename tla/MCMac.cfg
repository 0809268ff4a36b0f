SPECIFICATION FairSpec
CONSTANTS
  TMax = 2
  Events = {"Io", "Gp0", "RfSwitch", "DmaFault", "CoreLost"}
INVARIANTS
  TypeOK
  RunningIsArmed
PROPERTIES
  DeadIsFinal
  Gp0ServedOnce
  FaultsStopTheMac
