CONSTANTS
  p1 = p1
  p2 = p2
  p3 = p3
  p4 = p4
  p5 = p5
  Pages <- ThreePages
  NoPage = NoPage
  MaxStamp = 1
  MaxSessions = 2
  TearSlots = FALSE
SPECIFICATION FairSpec
PROPERTY
  OpenTerminates
CHECK_DEADLOCK FALSE
