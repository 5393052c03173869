SPECIFICATION Spec
CONSTANTS
  MaxAttempts = 3
  MaxGeneration = 4
  AiCall = TRUE
  Races <- RefusedEnd
INVARIANTS
  OneConnectedCallee
