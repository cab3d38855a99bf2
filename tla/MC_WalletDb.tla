----------------------------- MODULE MC_WalletDb -----------------------------
(***************************************************************************)
(* The tables of one NunchukWalletDb (src/unnamed/part_001) checked in one *)
(* run: the VTX table under its writers (TransactionStore, instance of     *)
(* MC_TransactionStore) and the coin-control tables (CoinControl).  No     *)
(* statement of one reads the other's tables, so a behaviour exercises one *)
(* of them: coin-control calls start from the initial VTX table and VTX    *)
(* steps from empty coin-control tables, which keeps the state space the   *)
(* sum of the two instead of their product.                                *)
(***************************************************************************)
EXTENDS MC_TransactionStore

CONSTANTS c1, c2, n1, n2, Names, Memos, MaxId, StaleIds

VARIABLES tags, cointags, colls, coincolls, coininfo

ccvars == <<tags, cointags, colls, coincolls, coininfo>>

MCCoins == {c1, c2}
MCNames == {n1, n2}

\* A bundle exported by another device of the wallet: tag 2 holding c1, an
\* empty collection 1 and a memo with a lock on c1; and an empty bundle.
MCBundles ==
  { [tags |-> (2 :> [name |-> n1, coins |-> {c1}]),
     collections |-> (1 :> [name |-> n2, coins |-> {}]),
     coininfo |-> (c1 :> [memo |-> "m", locked |-> TRUE])],
    [tags |-> [id \in {} |-> [name |-> n1, coins |-> {}]],
     collections |-> [id \in {} |-> [name |-> n1, coins |-> {}]],
     coininfo |-> [c \in {} |-> [memo |-> "", locked |-> FALSE]]] }

CC == INSTANCE CoinControl WITH Coins <- MCCoins, Bundles <- MCBundles

WalletDbInit == Init /\ CC!Init

WalletDbNext ==
  \/ Next /\ CC!Init /\ UNCHANGED ccvars
  \/ CC!Next /\ Init /\ UNCHANGED vars

WalletDbSpec == WalletDbInit /\ [][WalletDbNext]_<<vars, ccvars>>

\* The coin-control tables implement CoinControlAbstract: a new tag or
\* collection has no coins, a delete takes its links with it, an import of
\* this wallet's own export changes nothing (CoinControl.tla).
CoinControlRefines == CC!CoinControlRefines
====
