--------------------------- MODULE MC_MatrixSync ---------------------------
(* Two devices of one account, two keys, one PSBT and a one-signer wallet. *)
EXTENDS MatrixSync, TLC

CONSTANTS d1, d2, k1, k2, x1

MCDevices == {d1, d2}
MCKeys == {k1, k2}
MCTxIds == {x1}
====
