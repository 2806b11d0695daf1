CONSTANTS
  p1 = p1
  p2 = p2
  p3 = p3
  p4 = p4
  p5 = p5
  Pages <- FivePages
  NoPage = NoPage
  MaxStamp = 3
  MaxSessions = 1
  TearSlots = TRUE
SPECIFICATION Spec
SYMMETRY PageSymmetry
INVARIANTS
  TypeOK
  OpenNeverFails
  TwoPhasePrimaryDurable
  AcknowledgedStaysIntact
CHECK_DEADLOCK FALSE
PROPERTY
  CommitsAtomic
