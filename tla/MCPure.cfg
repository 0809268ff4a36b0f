SPECIFICATION Spec
CONSTANTS
  Inputs = 1100
INVARIANTS
  ArithmeticIsExact
  ImageIsApplied
