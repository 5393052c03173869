SPECIFICATION FairSpec
CONSTANTS
  MaxAttempts = 2
  MaxGeneration = 4
  AiCall = TRUE
  Races <- KeptDeadlines
PROPERTIES
  TerminationCompletes
