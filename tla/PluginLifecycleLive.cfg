CONSTANTS
  MaxGen = 2
  MaxVersion = 3
  MaxLayout = 0
SPECIFICATION FairSpec
PROPERTIES
  RemovedProcessorReleased
  RemovalCompletes
