CONSTANTS
  p1 = p1
  p2 = p2
  p3 = p3
  p4 = p4
  p5 = p5
  Pages <- FourPages
  NoPage = NoPage
  MaxStamp = 2
  MaxSessions = 2
  TearSlots = FALSE
SPECIFICATION Spec
SYMMETRY PageSymmetry
INVARIANTS
  OpenNeverFails
CHECK_DEADLOCK FALSE
PROPERTY
  CommitsAtomic
