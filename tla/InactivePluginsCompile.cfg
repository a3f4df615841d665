SPECIFICATION Spec
CONSTANTS
  None = None
  Failed = Failed
  Panics = Panics
  Main = Main
  Plugins = {"p1", "p2"}
  MayBe <- MCMayBe
  MayDo <- MCMayDo
  EdgeReqs <- MCEdgeReqs
  GraphIO = 1
  MaxEdges = 1
  MaxActivations = 3
INVARIANT InactivePluginsCompile
CHECK_DEADLOCK FALSE
