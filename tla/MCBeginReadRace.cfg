CONSTANTS
  p1 = p1
  p2 = p2
  p3 = p3
  p4 = p4
  p5 = p5
  p6 = p6
  r1 = r1
  Pages <- FivePages
  Readers <- OneReader
  Durabilities <- Mixed
  MaxTxn = 9
  MaxSavepoint = 0
  MaxData = 1
  MaxOps = 1
  MaxWrites = 5
  MaxCrash = 0
SPECIFICATION Spec
SYMMETRY PageSymmetry
INVARIANTS
  ReadersPinned
CHECK_DEADLOCK FALSE
