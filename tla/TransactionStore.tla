-------------------------- MODULE TransactionStore --------------------------
(***************************************************************************)
(* The VTX table of one wallet (NunchukWalletDb, src/unnamed/part_001)     *)
(* under its three writers:                                                *)
(*  - the user: CreatePsbt, signing (UpdateTransaction at height -1),      *)
(*    broadcasting (Broadcast, then UpdateTransaction at height 0) and     *)
(*    deleting a PSBT;                                                     *)
(*  - the synchronizer (UpdateTransactions of                              *)
(*    src/src/backend/electrum/synchronizer.cpp), which stores each        *)
(*    unconfirmed-or-new tx of the server history by UpdateTransaction     *)
(*    when GetTransaction finds it and InsertTransaction otherwise;        *)
(*  - the network: cosigners broadcasting the shared PSBTs, and mining.    *)
(* Every storage call holds NunchukStorage's lock, so each is one step.    *)
(* A row is [h, signed, replace, replacedBy, extraJson]: HEIGHT, whether   *)
(* the signatures are complete, extra.replace_txid, extra.replaced_by_txid *)
(* and whether EXTRA holds a JSON object (InsertTransaction writes '').    *)
(***************************************************************************)
EXTENDS CoinLedger

CONSTANTS
  Funded,     \* txs confirmed and stored from the start (the wallet's funds)
  Replaces,   \* Replaces[t]: the replace_txid CreatePsbt is given for t
  Cosigners   \* other signers may broadcast a shared PSBT

ASSUME Funded \subseteq Txs /\ Replaces \in [Txs -> Txs \cup {NoTx}]
ASSUME Cosigners \in BOOLEAN

VARIABLES
  rows,  \* VTX: tx id -> row
  net,   \* server: tx id -> 0 (mempool) / 1 (confirmed)
  sent   \* txs the user broadcast whose UpdateTransaction(raw, 0) is still to run

vars == <<rows, net, sent>>

Rows == [h : {-1, 0, 1}, signed : BOOLEAN, replace : Txs \cup {NoTx},
         replacedBy : Txs \cup {NoTx}, extraJson : BOOLEAN]

(***************************************************************************)
(* Storage calls: each returns [rows, ok] where ok is FALSE when the call  *)
(* throws (nothing is written then).                                       *)
(***************************************************************************)
\* CreatePsbt: insert at height -1 with a JSON extra; on conflict only
\* VALUE and HEIGHT are overwritten.
CreatePsbt(r, t) ==
  IF t \in DOMAIN r
  THEN [r EXCEPT ![t].h = -1, ![t].signed = FALSE]
  ELSE r @@ (t :> [h |-> -1, signed |-> FALSE, replace |-> Replaces[t],
                   replacedBy |-> NoTx, extraJson |-> TRUE])

\* InsertTransaction: insert with EXTRA ''; on conflict only VALUE and
\* HEIGHT are overwritten.
InsertTransaction(r, t, height) ==
  IF t \in DOMAIN r
  THEN [r EXCEPT ![t].h = height, ![t].signed = TRUE]
  ELSE r @@ (t :> [h |-> height, signed |-> TRUE, replace |-> NoTx,
                   replacedBy |-> NoTx, extraJson |-> FALSE])

\* Mutant: the arguments swapped, the new tx's row is marked.
SetReplacedBySwapped(r, old, new) ==
  IF new \notin DOMAIN r THEN [rows |-> r, ok |-> TRUE]
  ELSE IF ~r[new].extraJson THEN [rows |-> r, ok |-> FALSE]
  ELSE [rows |-> [r EXCEPT ![new].replacedBy = old], ok |-> TRUE]

\* SetReplacedBy: when the old row exists, json::parse its EXTRA (which
\* throws on '') and add replaced_by_txid.
SetReplacedBy(r, old, new) ==
  IF old \notin DOMAIN r THEN [rows |-> r, ok |-> TRUE]
  ELSE IF ~r[old].extraJson THEN [rows |-> r, ok |-> FALSE]
  ELSE [rows |-> [r EXCEPT ![old].replacedBy = new], ok |-> TRUE]

\* UpdateTransaction(raw, height >= 0): for height <= 0 an existing PSBT
\* row of the tx is migrated first and its replace_txid marked replaced
\* (SetReplacedBy); then VALUE, HEIGHT (and EXTRA) are updated where the
\* row exists.
UpdateTransaction(r, t, height) ==
  IF height <= 0 /\ t \in DOMAIN r /\ r[t].h = -1 /\ r[t].replace # NoTx
  THEN LET s == SetReplacedBy(r, r[t].replace, t)
       IN IF s.ok THEN [rows |-> [s.rows EXCEPT ![t].h = height], ok |-> TRUE]
                  ELSE s
  ELSE [rows |-> IF t \in DOMAIN r THEN [r EXCEPT ![t].h = height] ELSE r,
        ok |-> TRUE]

(***************************************************************************)
(* Network.                                                                *)
(***************************************************************************)
Conflicts(t) == {u \in Txs : u # t /\ Inputs[u] \cap Inputs[t] # {}}

\* The server accepts t unless a conflicting tx is confirmed; conflicting
\* mempool txs are evicted (replace-by-fee).
CanEnterMempool(t) ==
  /\ t \notin DOMAIN net
  /\ \A u \in Conflicts(t) \cap DOMAIN net : net[u] = 0
  /\ \A c \in Inputs[t] : c[1] = ExtTx \/ (c[1] \in DOMAIN net /\ net[c[1]] = 1)

AcceptIntoMempool(t) ==
  [u \in (DOMAIN net \ Conflicts(t)) \cup {t} |-> IF u = t THEN 0 ELSE net[u]]

\* The coins of the wallet's current view, in GetTransactions order.
Coins == GetCoinsFromTransactions(rows, SetToSeq(DOMAIN rows))

Init ==
  /\ rows = [t \in Funded |-> [h |-> 1, signed |-> TRUE, replace |-> NoTx,
                                replacedBy |-> NoTx, extraJson |-> FALSE]]
  /\ net = [t \in Funded |-> 1]
  /\ sent = {}

(***************************************************************************)
(* User.                                                                   *)
(***************************************************************************)
\* The user's calls run one after another: none starts while a Broadcast
\* call is still to store its tx.
UserIdle == sent = {}

\* CreatePsbt for t: a new spend of unspent coins, or a replacement of a
\* tx the wallet shows as PENDING_CONFIRMATION.  Creating t again while it
\* is still a PSBT takes CreatePsbt's conflict branch (a published t
\* already spends the inputs it would spend).
UserCreatePsbt(t) ==
  /\ UserIdle
  /\ t \in DOMAIN rows => rows[t].h = -1
  /\ IF Replaces[t] = NoTx
     THEN \A c \in Inputs[t] : c \in DOMAIN Coins /\ Coins[c] = "CONFIRMED"
     ELSE Replaces[t] \in DOMAIN rows
          /\ TxStatus(rows[Replaces[t]]) = "PENDING_CONFIRMATION"
  /\ rows' = CreatePsbt(rows, t)
  /\ UNCHANGED <<net, sent>>

\* Signing: UpdateTransaction(psbt, -1) requires the PSBT row
\* (TX_NOT_FOUND otherwise) and stores the signed PSBT.
UserSign(t) ==
  /\ UserIdle
  /\ t \in DOMAIN rows /\ rows[t].h = -1 /\ ~rows[t].signed
  /\ rows' = [rows EXCEPT ![t].signed = TRUE]
  /\ UNCHANGED <<net, sent>>

\* Broadcast of a signed PSBT (Synchronizer::Broadcast) ...
UserBroadcast(t) ==
  /\ UserIdle
  /\ t \in DOMAIN rows /\ rows[t].h = -1 /\ rows[t].signed
  /\ CanEnterMempool(t)
  /\ net' = AcceptIntoMempool(t)
  /\ sent' = sent \cup {t}
  /\ UNCHANGED rows

\* ... then, in the next statement, UpdateTransaction(raw, 0); the
\* synchronizer may store t in between.
UserStoreBroadcast(t) ==
  /\ t \in sent
  /\ rows' = UpdateTransaction(rows, t, 0).rows
  /\ sent' = sent \ {t}
  /\ UNCHANGED net

\* DeleteTransaction of a PSBT row.
UserDeletePsbt(t) ==
  /\ UserIdle
  /\ t \in DOMAIN rows /\ rows[t].h = -1
  /\ rows' = Restrict(rows, DOMAIN rows \ {t})
  /\ UNCHANGED <<net, sent>>

(***************************************************************************)
(* Network.                                                                *)
(***************************************************************************)
\* Another signer broadcasts the shared, fully signed PSBT.
CosignerBroadcast(t) ==
  /\ Cosigners
  /\ t \in DOMAIN rows /\ rows[t].h = -1 /\ rows[t].signed
  /\ CanEnterMempool(t)
  /\ net' = AcceptIntoMempool(t)
  /\ UNCHANGED <<rows, sent>>

\* Timing assumption: no block confirms t between the user's Broadcast and
\* the UpdateTransaction that follows it.
Mine(t) ==
  /\ t \in DOMAIN net /\ net[t] = 0 /\ t \notin sent
  /\ net' = [net EXCEPT ![t] = 1]
  /\ UNCHANGED <<rows, sent>>

(***************************************************************************)
(* Synchronizer: one history entry of UpdateTransactions.                  *)
(***************************************************************************)
SyncTx(t) ==
  /\ t \in DOMAIN net
  /\ ~(t \in DOMAIN rows /\ TxStatus(rows[t]) = "CONFIRMED")
  /\ IF t \in DOMAIN rows
     THEN rows' = UpdateTransaction(rows, t, net[t]).rows
     ELSE rows' = InsertTransaction(rows, t, net[t])
  /\ UNCHANGED <<net, sent>>

Next ==
  \E t \in Txs :
    \/ UserCreatePsbt(t) \/ UserSign(t) \/ UserBroadcast(t) \/ UserStoreBroadcast(t)
    \/ UserDeletePsbt(t) \/ CosignerBroadcast(t) \/ Mine(t) \/ SyncTx(t)

\* The synchronizer eventually processes every tx of the server history,
\* and a broadcast call runs on to its UpdateTransaction.
Spec == Init /\ [][Next]_vars
        /\ \A t \in Txs : WF_vars(SyncTx(t)) /\ WF_vars(UserStoreBroadcast(t))

(***************************************************************************)
(* Properties.                                                             *)
(***************************************************************************)
TypeOK ==
  /\ sent \subseteq DOMAIN rows
  /\ DOMAIN rows \subseteq Txs /\ \A t \in DOMAIN rows : rows[t] \in Rows
  /\ DOMAIN net \subseteq Txs /\ \A t \in DOMAIN net : net[t] \in {0, 1}

\* GetBalance never counts a coin that a stored confirmed transaction
\* spends, whatever pending, unsigned or replaced spends of the same coin
\* the store also holds (used_by only records confirmed spends).
SpentByConfirmedNotCounted ==
  \A c \in DOMAIN Coins :
    (\E t \in DOMAIN rows : rows[t].h = 1 /\ c \in Inputs[t])
      => ~Counted(Coins, c, TRUE)

\* Replacement chain (spec section 8): once a replacement B with
\* replace_txid = A is stored as broadcast, A carries replaced_by_txid = B
\* (and shows REPLACED while pending).
ReplacementChain ==
  \A t \in DOMAIN rows :
    (rows[t].h >= 0 /\ rows[t].replace \in DOMAIN rows)
      => rows[rows[t].replace].replacedBy = t

\* The status GetTransaction shows for each tx; "NONE" when there is no row.
StatusView == [t \in Txs |-> IF t \in DOMAIN rows THEN TxStatus(rows[t])
                                                  ELSE "NONE"]

Life == INSTANCE TxLifecycle WITH status <- StatusView

\* Every step of the user, the cosigners, the miners and the synchronizer
\* moves the statuses GetTransaction shows only as TxLifecycle allows: a
\* broadcast tx never shows as a PSBT again, only the tx a published fee
\* bump replaces turns REPLACED (through UpdateTransaction's SetReplacedBy
\* on replace_txid), and CONFIRMED is final.
StoreRefinesLifecycle == Life!LSpec

\* A tx that stays on the server ends up stored with the server's height:
\* broadcast and synchronisation never leave it stuck as a PSBT or pending.
StoreConverges ==
  \A t \in Txs :
    <>[](t \in DOMAIN net)
      => <>[](t \in DOMAIN net /\ t \in DOMAIN rows /\ rows[t].h = net[t])
====
