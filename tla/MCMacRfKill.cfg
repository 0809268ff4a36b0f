SPECIFICATION FairSpec
CONSTANTS
  TMax = 2
  Events = {"RfSwitch"}
PROPERTIES
  RfKillStopsTheMac
