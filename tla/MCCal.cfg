SPECIFICATION FairSpec
CONSTANTS
  CalInterval = 3
  CountLimit = 2
  AgeMax = 8
  Temps <- MCTemps
  Scans = TRUE
  Others = TRUE
INVARIANTS
  TypeOK
  DeafIsSuspended
  EnabledAsOrdered
  ForeignBeaconsOnlyInScan
PROPERTIES
  ScanKeepsBeacons
  RoughlyEvery3To4Minutes
  Recalibrates
