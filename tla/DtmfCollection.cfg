SPECIFICATION FairSpec
CONSTANTS
  Ops = {1, 2}
  MaxDigits <- TwoDigits
  Presses = {1}
  Terminators <- SecondEnds
  InfoPresses = {1}
  MaxNegotiations = 1
  MaxWork = 3
  OpCapacity = 1
  HistoryCapacity = 1
  EventCapacity = 1
  CollectorCapacity = 2
  MediaCapacity = 5
  Races <- NoRaces
INVARIANTS CollectionConsistent 
PROPERTIES OutcomeFinal OperationSettles ModeReturns
CHECK_DEADLOCK FALSE
