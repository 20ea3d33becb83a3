SPECIFICATION FairSpec
CONSTANTS
  Readers = {r1, r2}
  BatchSizes <- MCBatchSizes
  MaxRows = 3
INVARIANTS
  SpoolInv
  NoCorruptRead
PROPERTIES
  ReadersFinish
  ImplementsStream
