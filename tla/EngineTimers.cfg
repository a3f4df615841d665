SPECIFICATION FairSpec
CONSTANTS
  Plugins = {p}
  MainIdle = MainIdle
  Garbage = Garbage
  None = None
  IdleInterval = 2
  GarbageInterval = 3
  Period = 1
  MaxTimers = 2
  MaxLate = 1
  MaxActivations = 2
INVARIANTS TypeOK TimersAreOnTime TimersAgree DeactivationIsReported
PROPERTIES OnlyWantedTimersFire EngineIsPolled
