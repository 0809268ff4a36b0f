SPECIFICATION Spec
CONSTANTS
  Mbufs = {m1, m2, m3, m4}
  NRX = 3
  None = None
SYMMETRY Interchangeable
PROPERTIES
  DeliversOnlyReceived
