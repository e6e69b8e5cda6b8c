SPECIFICATION FairSpec
CONSTANTS
  Keys <- MCKeys
  Values = {v1, v2}
  Batches <- MCBatches
  MaxColumns = 2
  MaxPending = 2
  MaxWritten = 4
INVARIANTS
  TypeOK
  WriteThrough
  OpenNeverMixes
PROPERTIES
  
  EachWriteIsCommitted
