SPECIFICATION Spec
CONSTANTS
  HEIGHT = 4
  OUTPLUSONELOG = 2
  OUT = 3
  DELEGATED_DEPOSITS_NUM = 2
  Default = Default
  ZeroNote = ZeroNote
  zero_note = ZeroNote
  zero_account = ZeroAccount
  None = None
  me = me
  other = other
  Wallet = me
  Transfers <- MCTransfers
  Deposits <- MCDeposits
  MaxChain = 3
INVARIANT
  NoOtherGaps
CHECK_DEADLOCK FALSE
