CONSTANTS
  MaxGen = 2
  MaxVersion = 2
  MaxLayout = 0
SPECIFICATION Spec
PROPERTY DeactivateAfterFree
