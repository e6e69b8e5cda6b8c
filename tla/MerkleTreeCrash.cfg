SPECIFICATION CrashSpec
CONSTANTS
  HEIGHT = 3
  OUTPLUSONELOG = 1
  Default = Default
  ZeroNote = ZeroNote
  None = None
  leaf_a = leaf_a
  leaf_b = leaf_b
  Leaf = {leaf_a, leaf_b}
  Txs <- PairTxs
  SkippedParts <- PairPrefixes
  MaxBatch = 2
INVARIANTS
  RootIsLedgerUnlessCrashed
  CrashIsRecoverable
CHECK_DEADLOCK FALSE
