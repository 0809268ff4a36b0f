SPECIFICATION Spec
CONSTANTS
  TMax = 2
  Events = {"Io", "DmaFault"}
PROPERTIES
  ResetAfterDisarm
