SPECIFICATION FairSpec
CONSTANTS
  MaxAttempts = 2
  MaxGeneration = 4
  AiCall = FALSE
  Races <- NoRaces
PROPERTIES
  CallResolves
  CalleeLossEndsCall
