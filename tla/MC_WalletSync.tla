---------------------------- MODULE MC_WalletSync ----------------------------
(***************************************************************************)
(* Model-checking instances of WalletSync.  w1, w2 are wallets, a1, a2     *)
(* addresses, t1..t3 transactions; t3 is a send-type transaction.          *)
(***************************************************************************)
EXTENDS WalletSync

CONSTANTS w1, w2, a1, a2, t1, t2, t3

\* One multisig wallet with two watched addresses.
OneWalletOwner == [a \in {a1, a2} |-> w1]
\* Two escrow wallets: a single address each.
EscrowOwner == (a1 :> w1) @@ (a2 :> w2)

\* t1, t3 pay a1; t2 pays a2.
PayToDef == (t1 :> a1) @@ (t2 :> a2) @@ (t3 :> a1)
ReceiveDef == {t1, t2}

\* BlockchainSync walks GetAllAddresses of each wallet from the back.
SyncOrderDef == <<a2, a1>>
WalletOrderOne == <<w1>>
WalletOrderTwo == <<w1, w2>>
AddrOrderDef == <<a1, a2>>
=============================================================================
