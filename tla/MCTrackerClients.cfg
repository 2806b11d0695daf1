CONSTANTS
  w1 = w1
  w2 = w2
  w3 = w3
  r1 = r1
  r2 = r2
  Writers <- OneWriter
  Readers <- OneReader
  MaxTxn = 8
  MaxSavepoint = 2
SPECIFICATION Spec
INVARIANTS
  TypeOK
  ValidSavepointsPinned
  DurableAncestorPinned
  RefCountExact
  AssertionsHold
  SavepointOrder
  UserReferencesSeen
  PersistentMatchesTable
