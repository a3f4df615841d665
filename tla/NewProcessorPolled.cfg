CONSTANTS
  MaxGen = 2
  MaxVersion = 2
  MaxLayout = 0
SPECIFICATION FairSpec
PROPERTY NewProcessorPolled
