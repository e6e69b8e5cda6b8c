SPECIFICATION Spec
CONSTANTS
  HEIGHT = 3
  OUTPLUSONELOG = 1
  Default = Default
  ZeroNote = ZeroNote
  None = None
  leaf_a = leaf_a
  leaf_b = leaf_b
  LeafHashes = {leaf_a}
  Commitments <- PairCommitments
  CleanPoints = {2, 4, 9}
  MaxLeaves = 6
INVARIANTS
  TypeOK
  RootIsLedger
  LeafProofsLeadToRoot
  RollbackNeverWrong
PROPERTIES
  PermanentLeavesStay
CHECK_DEADLOCK FALSE
