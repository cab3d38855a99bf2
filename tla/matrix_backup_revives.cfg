\* One backup in the sync room; attachments are downloaded in the call, so
\* a backup is applied when a device consumes it.
CONSTANTS
  d1 = d1
  d2 = d2
  k1 = k1
  k2 = k2
  x1 = x1
  Devices <- MCDevices
  Keys <- MCKeys
  TxIds <- MCTxIds
  N = 1
  AsyncFiles = FALSE
  StaleSenders = FALSE
  NoKey = NoKey
  NoTx = NoTx
  NoWallet = NoWallet
  MaxEvents = 4
  MaxBackups = 1
SPECIFICATION Spec
INVARIANTS
  EndedWalletsStayEnded
CHECK_DEADLOCK FALSE
