SPECIFICATION Spec
CONSTANTS
  n1 = n1
  n2 = n2
  Every = Every
  None = None
  NumClients = 2
  Numbers = {n1, n2}
  Limits = {1, 2, 3, 4}
  MaxBatch = 1
  MaxRefs = 1
  MaxCommands = 2
  MaxRestarts = 1
  InitDb <- Provisioned
  InitIds = 1
INVARIANTS  SettledSnapshot 
PROPERTIES IdsNotReused AdapterCatchesUp
CHECK_DEADLOCK FALSE
