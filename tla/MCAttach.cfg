SPECIFICATION FairSpec
INVARIANTS
  TypeOK
  EverythingReleased
  ActorsFindWhatTheyUse
  EngineHasMemory
PROPERTIES
  DetachEnds
