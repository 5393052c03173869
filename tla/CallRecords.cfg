SPECIFICATION FairSpec
CONSTANTS
  Calls = {1, 2}
  Recorded = {1}
  MaxMessages = 1
  QueueCapacity = 1
  RecCapacity = 1
  MaxPackets = 2
  Keep = 1
  LegacyDomains = {1, 2}
  MaxEvents = 1
  Races <- NoRaces
INVARIANTS StoreConsistent CompleteLostNothing
PROPERTIES TraceNotRewritten MissingFileHeals StopEnds
CHECK_DEADLOCK FALSE
