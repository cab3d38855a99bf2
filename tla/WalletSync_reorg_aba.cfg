\* Sequential client, reliable fetches, reorgs: a status stored from a stale notification equals a later server status (ABA).
CONSTANTS
  Wallets = {w1}
  Addrs = {a1, a2}
  Txs = {t1, t2, t3}
  w1 = w1  w2 = w2  a1 = a1  a2 = a2  t1 = t1  t2 = t2  t3 = t3
  NoFail = NoFail
  Owner <- OneWalletOwner
  PayTo <- PayToDef
  Receive <- ReceiveDef
  SyncOrder <- SyncOrderDef
  WalletOrder <- WalletOrderOne
  AddrOrder <- AddrOrderDef
  BatchModes = {FALSE}
  FetchCanFail = FALSE
  Reorgs = TRUE
  MaxEvents = 4
  MaxReconnects = 1
SPECIFICATION Spec
PROPERTY ConfirmedEventuallyStored
\* Once the bounded server activity is over the client waits for notifications.
CHECK_DEADLOCK FALSE
