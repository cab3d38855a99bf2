CONSTANTS
  d1 = d1
  d2 = d2
  d3 = d3
  k1 = k1
  k2 = k2
  x1 = x1
  Devices <- MCTwoDevices
  Keys <- MCKeys
  TxIds <- MCTxIds
  N = 1
  AsyncFiles = FALSE
  StaleSenders = TRUE
  NoKey = NoKey
  NoTx = NoTx
  NoWallet = NoWallet
  MaxEvents = 6
SPECIFICATION Spec
INVARIANTS
  WalletTxMatchesRoom
CHECK_DEADLOCK FALSE
