SPECIFICATION FairSpec
CONSTANTS
  Sizes = {s1, s2}
  None = None
  MaxGuis = 2
INVARIANTS
  TypeOK GuiHasItsOwner ClosedGuiIsReported LastSizeArrives
PROPERTY LostGuiIsAcknowledged
CHECK_DEADLOCK FALSE
