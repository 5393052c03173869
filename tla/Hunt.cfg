SPECIFICATION Spec
CONSTANTS
  MaxAttempts = 3
  MaxGeneration = 4
  AiCall = FALSE
  Races <- NoRaces
INVARIANTS
  TypeOK
  LegsReleased
  OneConnectedCallee
  AnswerFromLiveLeg
