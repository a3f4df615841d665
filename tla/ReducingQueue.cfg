CONSTANTS
  Slots = {s1, s2}
  Values = {v1, v2}
  None = None
SPECIFICATION FairSpec
INVARIANTS
  TypeOK
  NoPanic
  LatestIsKept
PROPERTIES
  Coalesces
  ReportIsTaken
