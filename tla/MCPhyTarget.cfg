SPECIFICATION Spec
CONSTANTS
  Temps <- MCTemps
  Slope = 52
  RawTemp = 30
  MeasPower = 62
  MinPower = 60
  XtalMHz = 40
  Chans = {1, 6}
  Boots <- MCBoots
  Outcomes <- MCOutcomes
INVARIANTS
  IndexOnTarget
