SPECIFICATION Spec
CONSTANTS
  Keys <- MCKeys
  Values = {v1, v2}
  Batches <- PrefixBatches
  MaxColumns = 2
  MaxPending = 2
  MaxWritten = 4
INVARIANTS
  WriteThrough
