\* The VTX table: one wallet with a fee-bump chain A <- B <- C, cosigners
\* may broadcast the shared PSBTs.  Coin control: two coins, two names, row
\* ids up to 2, the app passing live ids only.
CONSTANTS
  F = F  A = A  B = B  C = C
  ExtTx = ExtTx  NoTx = NoTx
  Txs = {F, A, B, C}
  Funded = {F}
  Inputs <- InputsDef
  Outputs <- OutputsDef
  Replaces <- ReplacesDef
  Cosigners = TRUE
  c1 = c1  c2 = c2  n1 = n1  n2 = n2
  Names <- MCNames
  Memos = {"", "m"}
  MaxId = 2
  StaleIds = FALSE
SPECIFICATION WalletDbSpec
INVARIANT SpentByConfirmedNotCounted
PROPERTY StoreRefinesLifecycle CoinControlRefines
\* Once every tx is confirmed or evicted and stored, and no coin-control
\* call changes a row, nothing is left to do.
CHECK_DEADLOCK FALSE
