SPECIFICATION FairSpec
CONSTANTS
  Calls = {1}
  Busy = {1}
  MaxAttempts = 2
  MaxInputs = 2
  MaxHandoffs = 1
  AdmissionCapacity = 1
  MailboxCapacity = 2
  DispatcherCapacity = 4
  Races <- NoRaces
PROPERTIES HandedComesBack CallsAreFinalized 
CHECK_DEADLOCK FALSE
