------------------------- MODULE MC_TransactionStore -------------------------
(***************************************************************************)
(* A wallet funded by F (one confirmed coin of 5).  A spends it; B is a    *)
(* fee bump of A (replace_txid A) and C a fee bump of B.  Each pays 2 out  *)
(* and returns the rest as change.                                         *)
(***************************************************************************)
EXTENDS TransactionStore

CONSTANTS F, A, B, C

InputsDef == (F :> {<<ExtTx, 0>>}) @@ (A :> {<<F, 0>>}) @@ (B :> {<<F, 0>>})
             @@ (C :> {<<F, 0>>})

OutputsDef ==
  (F :> <<[own |-> "mine", amt |-> 5]>>)
  @@ (A :> <<[own |-> "ext", amt |-> 2], [own |-> "change", amt |-> 3]>>)
  @@ (B :> <<[own |-> "ext", amt |-> 2], [own |-> "change", amt |-> 2]>>)
  @@ (C :> <<[own |-> "ext", amt |-> 2], [own |-> "change", amt |-> 1]>>)

ReplacesDef == (F :> NoTx) @@ (A :> NoTx) @@ (B :> A) @@ (C :> B)
====
