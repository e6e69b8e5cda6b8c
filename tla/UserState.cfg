SPECIFICATION Spec
CONSTANTS
  GroupSize = 2
  MaxIndex = 6
  Accounts = {a1}
  Notes = {n1}
  None = None
INVARIANTS
  TypeOK
  CachesMatchStore
  TxsWithinTree
  StoreMatchesChain
