--------------------------- MODULE MC_MatrixRoom ---------------------------
(* Three devices (two for the violation run), two keys, one PSBT and a     *)
(* one-signer wallet.                                                      *)
EXTENDS MatrixRoom, TLC

CONSTANTS d1, d2, d3, k1, k2, x1

MCDevices == {d1, d2, d3}
MCTwoDevices == {d1, d2}
MCKeys == {k1, k2}
MCTxIds == {x1}

\* Devices and keys are interchangeable: no action or property names one.
MCSymmetry == Permutations(MCDevices) \cup Permutations(MCKeys)
====
