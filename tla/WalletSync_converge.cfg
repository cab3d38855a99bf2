\* Two escrow (single-address) wallets, reliable fetches, no reorgs or mempool drops; each connection may or may not support batch requests.
CONSTANTS
  Wallets = {w1, w2}
  Addrs = {a1, a2}
  Txs = {t1, t2, t3}
  w1 = w1  w2 = w2  a1 = a1  a2 = a2  t1 = t1  t2 = t2  t3 = t3
  NoFail = NoFail
  Owner <- EscrowOwner
  PayTo <- PayToDef
  Receive <- ReceiveDef
  SyncOrder <- SyncOrderDef
  WalletOrder <- WalletOrderTwo
  AddrOrder <- AddrOrderDef
  BatchModes = {FALSE, TRUE}
  FetchCanFail = FALSE
  Reorgs = FALSE
  MaxEvents = 4
  MaxReconnects = 1
SPECIFICATION Spec
PROPERTY ConfirmedEventuallyStored
\* Once the bounded server activity is over the client waits for notifications.
CHECK_DEADLOCK FALSE
