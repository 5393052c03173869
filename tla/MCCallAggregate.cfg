SPECIFICATION AggSpec
CONSTANTS
  MaxAttempts = 3
  MaxGeneration = 2
INVARIANTS
  AggTypeOK
  SelectedIsWinner
  OneLiveBridge
PROPERTIES
  WinnerMovesForward
  EndIsFinal
CHECK_DEADLOCK FALSE
