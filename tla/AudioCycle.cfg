CONSTANTS
  MaxFrames = 2
  Capacity = 6
  Horizon = 10
SPECIFICATION FairSpec
INVARIANTS
  TypeOK
  FlowIsInOrder
  CleanCallbackPlaysItsOwn
  NoInputNeverFails
PROPERTY ProcessThreadEnds
CHECK_DEADLOCK FALSE
