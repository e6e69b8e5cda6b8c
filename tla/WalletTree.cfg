SPECIFICATION Spec
CONSTANTS
  HEIGHT = 4
  OUTPLUSONELOG = 2
  Default = Default
  ZeroNote = ZeroNote
  None = None
  leaf_a = leaf_a
  leaf_b = leaf_b
  Leaf = {leaf_a, leaf_b}
  Txs <- MCTxs
  SkippedParts <- MCSkippedParts
  MaxBatch = 2
INVARIANTS
  TypeOK
  RootIsLedger
  LeafProofsLeadToRoot
  RootAtIsPastRoot
  RollbackNeverLosesTree
  SiblingsServePartialTree
  OptimisticIsCommitted
  LegacyDatabaseReopens
  AfterVirtualIsCommitted
PROPERTIES
  StableFollowsTree
  IsLeafVector
CHECK_DEADLOCK FALSE
