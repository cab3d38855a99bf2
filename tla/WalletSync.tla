----------------------------- MODULE WalletSync -----------------------------
(***************************************************************************)
(* The Electrum chain synchronisation of libnunchuk against the wallet     *)
(* database: ElectrumSynchronizer                                          *)
(* (src/src/backend/electrum/synchronizer.cpp)                             *)
(* driving the VTX and ADDRESS tables of NunchukWalletDb                   *)
(* (src/unnamed/part_001).                                                 *)
(*                                                                         *)
(* The Electrum server is the environment: each transaction of the model   *)
(* pays one wallet address and is absent, in the mempool (height 0) or     *)
(* confirmed (height 1) on the server.  An address's Electrum status is    *)
(* abstracted by its history itself (a set of <<tx, height>> pairs; the    *)
(* empty set is the empty status string): equal histories have equal       *)
(* status hashes.  The server notifies subscribed addresses whose status   *)
(* changes, in order, over one connection.                                 *)
(*                                                                         *)
(* The client has two threads: the sync worker running BlockchainSync      *)
(* (one step per address in the sequential strategy, one step per wallet   *)
(* in the batch strategy) and the client's notification callback running   *)
(* OnScripthashStatusChange.  Each handler is one atomic step.             *)
(***************************************************************************)
EXTENDS Integers, FiniteSets, Sequences, SequencesExt

CONSTANTS
  Wallets,       \* wallet ids
  Addrs,         \* all derived addresses of all wallets
  Txs,           \* transaction ids
  Owner,         \* Owner[a]: the wallet address a belongs to
  PayTo,         \* PayTo[t]: the wallet address transaction t pays
  Receive,       \* the transactions that are receive-type for their wallet
  SyncOrder,     \* addresses in BlockchainSync order (wallet by wallet, addresses reversed)
  WalletOrder,   \* ListRecentlyUsedWallets
  AddrOrder,     \* iteration order of the scripthash map of a batch subscribe
  BatchModes,    \* values client_->support_batch_requests() may take on a connection
  FetchCanFail,  \* a single blockchain_transaction_get may throw
  Reorgs,        \* the server may drop mempool txs and un-mine confirmed ones
  NoFail,        \* marker: no fetch failed
  MaxEvents,     \* bound on server-side history changes
  MaxReconnects  \* bound on reconnections

ASSUME Owner \in [Addrs -> Wallets]
ASSUME PayTo \in [Txs -> Addrs]
ASSUME Receive \subseteq Txs
ASSUME BatchModes \subseteq BOOLEAN /\ BatchModes # {} /\ FetchCanFail \in BOOLEAN /\ Reorgs \in BOOLEAN
ASSUME NoFail \notin Txs
ASSUME ToSet(SyncOrder) = Addrs /\ ToSet(WalletOrder) = Wallets
ASSUME ToSet(AddrOrder) = Addrs
ASSUME MaxEvents \in Nat /\ MaxReconnects \in Nat

VARIABLES
  srv,         \* server: tx -> height (0 mempool, 1 confirmed) for txs it knows
  vtx,         \* VTX table: tx -> HEIGHT for stored rows
  addrStatus,  \* ADDRESS.UTXO status part, per address ("" = {})
  subscribed,  \* keys of scripthash_to_wallet_address_
  notif,       \* pending scripthash notifications <<address, status>>
  syncQ,       \* remaining BlockchainSync work of the current pass
  phase,       \* "syncing" while BlockchainSync runs, then "ready"
  events,      \* server changes so far
  reconnects,  \* reconnections so far
  batch        \* the current client supports batch requests

vars == <<srv, vtx, addrStatus, subscribed, notif, syncQ, phase, events,
          reconnects, batch>>

\* Electrum history heights: -1 for a mempool tx with unconfirmed inputs,
\* 0 for another mempool tx, a block height (1) once confirmed.  The
\* store keeps 0 for both mempool heights.
ServerHeights == {-1, 0, 1}
Heights == {0, 1}
Status == SUBSET (Txs \X ServerHeights)

(***************************************************************************)
(* Server side.                                                            *)
(***************************************************************************)
HistoryOf(a) == {t \in DOMAIN srv : PayTo[t] = a}
ServerStatus(a) == {<<t, srv[t]>> : t \in HistoryOf(a)}

(***************************************************************************)
(* Store helpers (NunchukWalletDb).                                        *)
(***************************************************************************)
\* GetTransaction(tx).get_status() == CONFIRMED: the row exists with HEIGHT > 0
StoredConfirmed(v, t) == t \in DOMAIN v /\ v[t] > 0

\* InsertTransaction / UpdateTransaction of each fetched history entry:
\* the row is upserted with the server height (height <= 0 stored as 0).
Upsert(v, T) ==
  [t \in DOMAIN v \cup T |-> IF t \in T THEN IF srv[t] <= 0 THEN 0 ELSE srv[t]
                                      ELSE v[t]]

\* GetTransactions(chain, wallet_id, PENDING_CONFIRMATION, true): the
\* wallet's unconfirmed receive-type rows
PendingReceiveTxs(v, w) ==
  {t \in DOMAIN v : t \in Receive /\ Owner[PayTo[t]] = w /\ v[t] = 0}

\* DeleteTransaction of every pending receive row not in `keep`
DeleteNotIn(v, w, keep) ==
  Restrict(v, DOMAIN v \ (PendingReceiveTxs(v, w) \ keep))

\* GetAllAddresses(wallet): the addresses of the wallet's address cache.
GetAllAddresses(w) == {a \in Addrs : Owner[a] = w}

\* GetAddressStatus: the part after '|' of the stored "utxo|status" string
\* (status hashes contain no '|', so the split returns what SetUtxos joined).
GetAddressStatus(a) == addrStatus[a]

\* SetUtxos(address, "utxo|status"): every modelled address is in the
\* address cache, so the ADDRESS row is rewritten.
SetUtxos(st, a, s) == [st EXCEPT ![a] = s]

\* SubscribeAddress / SubscribeAddresses record the scripthash in
\* scripthash_to_wallet_address_ before subscribing.
SubscribeAddress(a) == subscribed \cup {a}
SubscribeAddresses(w) == subscribed \cup GetAllAddresses(w)

(***************************************************************************)
(* UpdateTransactions(chain, wallet_id, history): the txs it fetches are   *)
(* the history entries not stored as confirmed.                            *)
(***************************************************************************)
\* Mutant: any stored tx counts as settled and is not fetched again.
ToFetchUnstored(v, a) == {t \in HistoryOf(a) : t \notin DOMAIN v}

ToFetch(v, a) == {t \in HistoryOf(a) : ~StoredConfirmed(v, t)}

\* Non-batch client.  `fail` is the first tx whose blockchain_transaction_get
\* throws (NoFail if none) and `done` the entries upserted before it; the
\* exception leaves the function, so nothing is evicted.  On success the
\* pending receive rows not in txs_hash (the fetched entries) are deleted.
UpdateTransactionsSeq(v, a, fail, done) ==
  IF fail = NoFail
  THEN [v |-> DeleteNotIn(Upsert(v, ToFetch(v, a)), Owner[a], ToFetch(v, a)),
        synced |-> TRUE, thrown |-> FALSE]
  ELSE [v |-> Upsert(v, done), synced |-> FALSE, thrown |-> TRUE]

\* Batch client, one history.  `rawtx` holds the txs the batch request
\* returned, `fallbackOk` those whose single fallback fetch succeeded.  The
\* pending receive rows not in rawtx are deleted; isSynced is false when a
\* fallback fetch failed.
UpdateTransactionsBatch(v, a, rawtx, fallbackOk) ==
  LET applied == ToFetch(v, a) \cap (rawtx \cup fallbackOk)
  IN [v |-> DeleteNotIn(Upsert(v, applied), Owner[a], rawtx),
      synced |-> ToFetch(v, a) \subseteq rawtx \cup fallbackOk,
      thrown |-> FALSE]

\* blockchain_scripthash_get_history, then UpdateTransactions on the
\* client's strategy.  `io.abort`: the history request (or, in the batch
\* path, get_multi_rawtx / get_multi_rawheader) throws before any row is
\* written.
FetchAndUpdate(a, io) ==
  CASE io.abort -> [v |-> vtx, synced |-> FALSE, thrown |-> TRUE]
    [] batch    -> UpdateTransactionsBatch(vtx, a, ToFetch(vtx, a) \ io.omitted,
                                           io.fallbackOk)
    [] OTHER    -> UpdateTransactionsSeq(vtx, a, io.fail, io.done)

(***************************************************************************)
(* UpdateScripthashStatus(chain, scripthash, status): ignore an empty      *)
(* status or an unknown scripthash, fetch the history, update the txs and  *)
(* SetUtxos(address, "utxo|status") when the update reports isSynced.     *)
(* `io` carries the fetch outcomes.                                        *)
(***************************************************************************)
UpdateScripthashStatus(a, s, io) ==
  IF s = {} \/ a \notin subscribed
  THEN [v |-> vtx, st |-> addrStatus, thrown |-> FALSE]
  ELSE LET r == FetchAndUpdate(a, io)
       IN [v |-> r.v,
           st |-> IF r.synced THEN SetUtxos(addrStatus, a, s) ELSE addrStatus,
           thrown |-> r.thrown]

\* The fetch outcomes a handler for address a may meet: with FetchCanFail,
\* a request before any write may throw (abort), and so may any single
\* blockchain_transaction_get (its batch fallback is caught, the
\* sequential one is not).
FetchOutcomes(a) ==
  LET tf == ToFetch(vtx, a)
      failing == IF FetchCanFail THEN tf ELSE {}
      aborts == IF FetchCanFail
                THEN {[abort |-> TRUE, omitted |-> {}, fallbackOk |-> {},
                       fail |-> NoFail, done |-> {}]}
                ELSE {}
  IN aborts \cup
     IF batch
     THEN UNION {{[abort |-> FALSE, omitted |-> o, fallbackOk |-> ok,
                   fail |-> NoFail, done |-> {}] :
                    ok \in {x \in SUBSET o : ~FetchCanFail => x = o}} :
                 o \in SUBSET tf}
     ELSE UNION {{[abort |-> FALSE, omitted |-> {}, fallbackOk |-> {},
                   fail |-> f, done |-> d] :
                    d \in {x \in SUBSET (tf \ {f}) : f = NoFail => x = {}}} :
                 f \in failing \cup {NoFail}}

(***************************************************************************)
(* UpdateScripthashesStatus(chain, scripthashes, status) of a batch        *)
(* BlockchainSync: one multi-history and one multi-rawtx request for all   *)
(* changed addresses, then UpdateTransactions(..., rawtx, rawheader) and   *)
(* SetUtxos per address in scripthash-map order.                           *)
(***************************************************************************)
UpdateScripthashesStatus(changed, rawtx, fallbackOk) ==
  LET step(acc, a) ==
        IF a \in changed
        THEN LET r == UpdateTransactionsBatch(acc.v, a, rawtx, fallbackOk)
             IN [v |-> r.v,
                 st |-> IF r.synced THEN SetUtxos(acc.st, a, ServerStatus(a))
                                    ELSE acc.st]
        ELSE acc
  IN FoldLeft(step, [v |-> vtx, st |-> addrStatus], AddrOrder)

(***************************************************************************)
(* Actions.                                                                *)
(***************************************************************************)
Init ==
  /\ srv = [t \in {} |-> 0]
  /\ vtx = [t \in {} |-> 0]
  /\ addrStatus = [a \in Addrs |-> {}]
  /\ subscribed = {}
  /\ notif = <<>>
  /\ batch \in BatchModes
  /\ syncQ = IF batch THEN WalletOrder ELSE SyncOrder
  /\ phase = "syncing"
  /\ events = 0
  /\ reconnects = 0

\* The server's view of tx t changes: broadcast into the mempool, mined,
\* dropped from the mempool (replaced or expired) or un-mined by a reorg.
\* A subscribed address is notified of its new status.
ServerTxChange(t) ==
  /\ events < MaxEvents
  /\ \/ /\ t \notin DOMAIN srv
        /\ \E h \in {-1, 0} : srv' = srv @@ (t :> h)
     \/ /\ t \in DOMAIN srv
        /\ srv[t] <= 0
        /\ srv' = [srv EXCEPT ![t] = 1]
     \/ /\ Reorgs
        /\ t \in DOMAIN srv
        /\ srv[t] <= 0
        /\ srv' = Restrict(srv, DOMAIN srv \ {t})
     \/ /\ Reorgs
        /\ t \in DOMAIN srv
        /\ srv[t] = 1
        /\ srv' = [srv EXCEPT ![t] = 0]
  /\ events' = events + 1
  /\ LET a == PayTo[t]
         s == {<<x, srv'[x]>> : x \in {y \in DOMAIN srv' : PayTo[y] = a}}
     IN notif' = IF a \in subscribed THEN Append(notif, <<a, s>>) ELSE notif
  /\ UNCHANGED <<vtx, addrStatus, subscribed, syncQ, phase, reconnects, batch>>

\* Sequential BlockchainSync, one address: SubscribeAddress, compare the
\* returned status with GetAddressStatus and UpdateScripthashStatus on a
\* difference.  A throwing fetch aborts the whole BlockchainSync pass; Run
\* swallows the exception and goes READY.
BlockchainSyncAddress ==
  /\ ~batch
  /\ phase = "syncing"
  /\ syncQ # <<>>
  /\ LET a == Head(syncQ)
         s == ServerStatus(a)
     IN /\ subscribed' = SubscribeAddress(a)
        /\ IF s # GetAddressStatus(a) /\ s # {}
           THEN \E io \in FetchOutcomes(a) :
                  LET r == FetchAndUpdate(a, io) IN
                  /\ vtx' = r.v
                  /\ addrStatus' = IF r.synced THEN SetUtxos(addrStatus, a, s)
                                               ELSE addrStatus
                  /\ syncQ' = IF r.thrown THEN <<>> ELSE Tail(syncQ)
           ELSE /\ syncQ' = Tail(syncQ)
                /\ UNCHANGED <<vtx, addrStatus>>
  /\ UNCHANGED <<srv, notif, phase, events, reconnects, batch>>

\* Batch BlockchainSync, one wallet: SubscribeAddresses for all its
\* addresses, keep those whose non-empty status differs from the stored
\* one, and UpdateScripthashesStatus them.
BlockchainSyncWallet ==
  /\ batch
  /\ phase = "syncing"
  /\ syncQ # <<>>
  /\ LET w == Head(syncQ)
         changed == {a \in GetAllAddresses(w) :
                       ServerStatus(a) # {} /\ ServerStatus(a) # GetAddressStatus(a)}
         tf == UNION {ToFetch(vtx, a) : a \in changed}
     IN /\ subscribed' = SubscribeAddresses(w)
        /\ \/ \E omitted \in SUBSET tf :
              \E fallbackOk \in {x \in SUBSET omitted : ~FetchCanFail => x = omitted} :
                LET r == UpdateScripthashesStatus(changed, tf \ omitted, fallbackOk)
                IN /\ vtx' = r.v
                   /\ addrStatus' = r.st
                   /\ syncQ' = Tail(syncQ)
           \* get_multi_history, get_multi_rawtx or get_multi_rawheader
           \* throws: the exception leaves BlockchainSync.
           \/ /\ FetchCanFail /\ changed # {}
              /\ syncQ' = <<>>
              /\ UNCHANGED <<vtx, addrStatus>>
  /\ UNCHANGED <<srv, notif, phase, events, reconnects, batch>>

\* BlockchainSync returned; Run moves SYNCING -> READY.
SyncFinished ==
  /\ phase = "syncing"
  /\ syncQ = <<>>
  /\ phase' = "ready"
  /\ UNCHANGED <<srv, vtx, addrStatus, subscribed, notif, syncQ, events,
                 reconnects, batch>>

\* OnScripthashStatusChange on the client's callback: the notified status
\* is handed to UpdateScripthashStatus, which fetches the current history.
OnScripthashStatusChange ==
  /\ notif # <<>>
  /\ LET a == Head(notif)[1]
         s == Head(notif)[2]
     IN \E io \in FetchOutcomes(a) :
          LET r == UpdateScripthashStatus(a, s, io) IN
          /\ vtx' = r.v
          /\ addrStatus' = r.st
  /\ notif' = Tail(notif)
  /\ UNCHANGED <<srv, subscribed, syncQ, phase, events, reconnects, batch>>

\* The connection drops; the reconnect callback re-enters Run, which clears
\* scripthash_to_wallet_address_, builds a new client (pending
\* notifications of the old one are lost) and runs BlockchainSync again.
Run ==
  /\ reconnects < MaxReconnects
  /\ reconnects' = reconnects + 1
  /\ subscribed' = {}
  /\ notif' = <<>>
  /\ batch' \in BatchModes
  /\ syncQ' = IF batch' THEN WalletOrder ELSE SyncOrder
  /\ phase' = "syncing"
  /\ UNCHANGED <<srv, vtx, addrStatus, events>>

Next ==
  \/ \E t \in Txs : ServerTxChange(t)
  \/ BlockchainSyncAddress
  \/ BlockchainSyncWallet
  \/ SyncFinished
  \/ OnScripthashStatusChange
  \/ Run

\* The sync worker and the notification callback run to completion while
\* connected; the server and disconnections are not fair.
Fairness ==
  /\ WF_vars(BlockchainSyncAddress)
  /\ WF_vars(BlockchainSyncWallet)
  /\ WF_vars(SyncFinished)
  /\ WF_vars(OnScripthashStatusChange)

Spec == Init /\ [][Next]_vars /\ Fairness

(***************************************************************************)
(* Properties.                                                             *)
(***************************************************************************)
TypeOK ==
  /\ DOMAIN srv \subseteq Txs /\ \A t \in DOMAIN srv : srv[t] \in ServerHeights
  /\ DOMAIN vtx \subseteq Txs /\ \A t \in DOMAIN vtx : vtx[t] \in Heights
  /\ addrStatus \in [Addrs -> Status]
  /\ subscribed \subseteq Addrs
  /\ notif \in Seq(Addrs \X Status)
  /\ syncQ \in Seq(Addrs \cup Wallets)
  /\ phase \in {"syncing", "ready"}
  /\ events \in 0..MaxEvents /\ reconnects \in 0..MaxReconnects
  /\ batch \in BatchModes

\* Spec 4.4: eviction reconciles the store "against the remote source of
\* truth": a pending receive tx is deleted only when it is absent from the
\* authoritative history.  An address whose stored status equals its
\* current server status is never refetched (BlockchainSync skips it and
\* no notification comes until the status changes), so every tx of its
\* server history must be stored.  UpdateTransactions evicts wallet-wide,
\* comparing with the history of one address.
StoredStatusSound ==
  \A a \in Addrs :
    addrStatus[a] = ServerStatus(a) => HistoryOf(a) \subseteq DOMAIN vtx

\* A transaction that ends up confirmed on the server ends up stored as
\* confirmed: the status-diff of BlockchainSync and the scripthash
\* notifications together never miss a confirmation.
ConfirmedEventuallyStored ==
  \A t \in Txs :
    <>[](t \in DOMAIN srv /\ srv[t] = 1) => <>[]StoredConfirmed(vtx, t)

====
