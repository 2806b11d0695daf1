CONSTANTS
  p1 = p1
  p2 = p2
  p3 = p3
  p4 = p4
  p5 = p5
  p6 = p6
  r1 = r1
  Pages <- FivePages
  Readers <- NoReader
  Durabilities <- Mixed
  MaxTxn = 11
  MaxSavepoint = 3
  MaxData = 1
  MaxOps = 1
  MaxWrites = 4
  MaxCrash = 0
SPECIFICATION Spec
SYMMETRY PageSymmetry
INVARIANTS
  TypeOK
  CommittedTreesAllocated
  AllocatorExact
  SavepointsPinned
  UnpersistedExact
  FreedQueueSound
CHECK_DEADLOCK FALSE
ACTION_CONSTRAINT LastWithOneSavepoint
