SPECIFICATION Spec
CONSTANTS
  Sizes = {s1, s2}
  None = None
  MaxGuis = 2
INVARIANT GuiDestroyedOnce
CHECK_DEADLOCK FALSE
