SPECIFICATION Spec
CONSTANTS
  Calls = {1}
  Busy = {1}
  MaxAttempts = 2
  MaxInputs = 3
  MaxHandoffs = 1
  AdmissionCapacity = 1
  MailboxCapacity = 2
  DispatcherCapacity = 4
  Races <- NoRaces
INVARIANTS OneOwner 
CHECK_DEADLOCK FALSE
