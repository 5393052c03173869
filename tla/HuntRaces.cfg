SPECIFICATION Spec
CONSTANTS
  MaxAttempts = 2
  MaxGeneration = 4
  AiCall = FALSE
  Races <- EveryRace
INVARIANTS
  HuntWithinRoute
  CleanupArmed
PROPERTIES
  TerminatingIsFinal
