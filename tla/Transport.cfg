SPECIFICATION Spec
CONSTANTS
  MaxFrames = 3
  DeclickFrames = 4
  Times = {0, 3}
  Loops <- MCLoops
  Tempos = {1, 2}
  FirstTempo = 1
  MaxRequests = 4
  MaxPlayhead = 8
  None = None
CHECK_DEADLOCK FALSE
INVARIANTS TypeOK BlockPlaysItsFrames GainIsContinuous FadeInMeetsPlayhead
PROPERTY LoopIsKept
