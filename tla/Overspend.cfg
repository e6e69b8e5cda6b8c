SPECIFICATION Spec
CONSTANTS
  In = 2
  Out = 2
  ForeignTxs <- MCForeignTxs
  Requests <- OverspendRequests
  None = None
  MaxTxs = 4
  MaxCreated = 1
INVARIANTS
  OverspendRefused
