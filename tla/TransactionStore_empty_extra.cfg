\* The fee bump of a tx first stored by the synchronizer (EXTRA is empty).
CONSTANTS
  F = F  A = A  B = B  C = C
  ExtTx = ExtTx  NoTx = NoTx
  Txs = {F, A, B, C}
  Funded = {F}
  Inputs <- InputsDef
  Outputs <- OutputsDef
  Replaces <- ReplacesDef
  Cosigners = TRUE
SPECIFICATION Spec
PROPERTY StoreConverges
\* Once every tx is confirmed or evicted and stored, nothing is left to do.
CHECK_DEADLOCK FALSE
