SPECIFICATION Spec
CONSTANTS
  POOL_ID_BITS = 2
  Pools = {0, 1, 3, 4, 5}
  Keys = {k1, k2}
  Diversifiers = {d1, d2}
  Labels = {zkbob}
  MaxParts = 3
  None = None
INVARIANTS
  ParsedIsIssued
  AcceptedWhereIssued
CHECK_DEADLOCK FALSE
