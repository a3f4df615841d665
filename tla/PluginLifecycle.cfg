CONSTANTS
  MaxGen = 2
  MaxVersion = 3
  MaxLayout = 1
SPECIFICATION Spec
INVARIANTS
  TypeOK
  ProcessorAgreesWithState
  BorrowedProcessorIsLive
  DeactivateAfterDrop
  MainThreadConclusions
  ProcessesOnItsLayout
