SPECIFICATION FairSpec
CONSTANTS
  Cdrs = {r1, r2, r3}
  SegmentFrames = 2
  Capacity = 2
  Limits <- Watermarks
  DefaultLimits <- Low
  MaxEvents = 2
  Races <- NoRaces
INVARIANTS PipelineSafe DurableIsKept
PROPERTIES  ImplementsLog
CHECK_DEADLOCK FALSE
