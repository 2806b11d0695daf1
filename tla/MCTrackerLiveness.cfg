CONSTANTS
  w1 = w1
  w2 = w2
  w3 = w3
  r1 = r1
  r2 = r2
  Writers <- ThreeWriters
  Readers <- OneReader
  MaxTxn = 8
  MaxSavepoint = 0
SPECIFICATION FairSpec
INVARIANTS
  SingleWriter
  NoLostWakeup
PROPERTY WaitersServed
