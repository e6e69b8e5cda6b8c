SPECIFICATION Spec
CONSTANTS
  HEIGHT = 4
  OUTPLUSONELOG = 2
  Default = Default
  ZeroNote = ZeroNote
  None = None
  leaf_a = leaf_a
  leaf_b = leaf_b
  Leaf = {leaf_a, leaf_b}
  Txs <- MCTxs
  SkippedParts <- MCSkippedParts
  MaxBatch = 2
INVARIANTS
  RootAtNeverMissing
CHECK_DEADLOCK FALSE
