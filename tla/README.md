# TLA+ models of libnunchuk's chain synchronisation and wallet store

These modules model the parts of libnunchuk (`src/`) whose correctness
depends on interleavings, partial failures and the order of events: the
Electrum synchronizer, its worker-thread lifecycle, the per-wallet
transaction table and the coin view derived from it, coin control, the
Matrix shared-wallet rooms with their backups, the timelock encoding and
the output descriptors a wallet is exported and imported as.
Every definition is
translated from the code. `PROJECT.json` maps each one to the lines it
models. Definitions that stand for code outside `src/` (the Electrum
server, the Bitcoin network, the application layer) are marked
`spec_modelled` and follow `spec.md`.

## The system and how its parts interact

| Part | Source | What it does |
|---|---|---|
| Electrum synchronizer | `src/src/backend/electrum/synchronizer.cpp` | `BlockchainSync` subscribes every address of every recently used wallet and compares the server's status hash with the stored one (`GetAddressStatus`). When they differ, `UpdateScripthashStatus` (sequential client) or `UpdateScripthashesStatus` (batch client) fetches the history and calls `UpdateTransactions`. That function upserts every unconfirmed-or-new tx, evicts stored pending receive txs missing from the history, and reports `isSynced`; only then is the new status stored (`SetUtxos`). Status notifications from the server run the same path through `OnScripthashStatusChange`. |
| Synchronizer lifecycle | same file, `src/src/backend/synchronizer.cpp` | `status_` moves UNINITIALIZED → CONNECTING → SYNCING → READY, with STOPPED set by the destructor. `Run` posts a connect task to an `io_service` run by one worker thread. The client's disconnect callback posts a reconnect task that sleeps and calls `Run` again. The destructor sets STOPPED, drops the work guard and joins the worker. |
| Transaction store | `src/unnamed/part_001` (`NunchukWalletDb`) | VTX table: `CreatePsbt` (height −1, JSON `EXTRA` with `replace_txid`), `InsertTransaction` (`EXTRA` `''`), and `UpdateTransaction`. At height −1, `UpdateTransaction` re-stores a signed PSBT. At height ≥ 0 it updates height and value, and at height ≤ 0 it also migrates a PSBT row and calls `SetReplacedBy` on the tx it replaces. Also `DeleteTransaction`. Every call holds `NunchukStorage`'s lock, so each is atomic. |
| Coin view | same file | `GetCoinsFromTransactions` replays the stored txs in `SELECT *` order. Pass 1 builds `used_by` from confirmed inputs. Pass 2 skips replaced and invalid txs and raises each coin's status with `set_status` (max by `CoinStatus` rank). `GetBalance` sums the coins that are not spent or outgoing-pending-confirmation. |
| Address space | same file, `src/src/backend/synchronizer.cpp`, `synchronizer.cpp` of electrum | ADDRESS table (`SetAddress`, `AddAddress`, `SetUtxos`, `GetAddressStatus`, `GetCurrentAddressIndex`) and the address cache `GetAllAddressData` fills. `NewAddress` starts at `GetCurrentAddressIndex + 1` and asks the synchronizer to look ahead: `LookAhead` one address at a time, or `BatchLookAhead` over a gap-limit window when the client supports batch requests. Both give up at once unless `status_` is READY or SYNCING. |
| Coin control | same file | TAGS and COLLECTIONS tables (id, unique name), their join tables COINTAGS and COINCOLLECTIONS, COININFO (memo, locked). Create, rename, delete, add and remove per group; memo, lock and unlock per coin; `ExportCoinControlData` to a JSON bundle and `ImportCoinControlData`, which clears everything and inserts the bundle. |
| Matrix rooms | `src/src/nunchukmatriximpl.cpp` | The shared-wallet and shared-transaction protocol: every user action sends an `io.nunchuk` event to the room, and every device applies the room's events in timeline order in `ConsumeEvent` to its room DB and its Nunchuk store. Large bodies travel as attachments, sent and consumed through the app's file callbacks. |
| Matrix backups | `src/src/nunchukmatriximpl.cpp` | `Backup` (run by `AsyncBackup` after every storage update) sends the device's room wallets that are neither cancelled nor deleted, with their events, to the account's sync room. Another device of the account consuming it (`ConsumeSyncEvent`, or `DownloadFileCallback` for an attachment) runs `SyncWithBackup`: the events are stored, and each wallet is merged into the room's active wallet with the same init event or else written over the device's record. |
| Timelock encoding | `src/src/dto/timelock.cpp` | A `Timelock` (height or time, absolute or relative, value) is encoded by `k()` as the number of an `after()` (BIP65 nLockTime) or `older()` (BIP68 nSequence) miniscript fragment; `FromK` decodes it back. |
| Output descriptors | `src/src/dto/sandboxgroup.cpp` | `GetDescriptorForSigners` writes a wallet's descriptor: single-sig `pkh`/`sh(wpkh)`/`wpkh`/`tr`, `sh`/`sh(wsh)`/`wsh` over `(sorted)multi`, and for taproot multisig `GetMusigDescriptor` (the first m keys as a musig key path, every other m-subset as a `pk(musig())` leaf, enumerated by `std::prev_permutation` and paired by `GetScriptpathDescriptor`) or, above five keys, `musig` plus `(sorted)multi_a`. `ParseDescriptors` reads a wallet back: the first `PREFIX_MATCHER` prefix decides the types, and `ParseSignerString`'s regex reads each key. |
| Others | `dto/scriptnode.cpp`, `softwaresigner.cpp`, `part_002`, `part_003`, `descriptor.h`, `miniscript/` | BSMS records, miniscript, cryptography, the HWI process, DTOs: see "Not modelled". |

The synchronizer is the writer that the user's own calls race with. It
writes VTX rows (`InsertTransaction`/`UpdateTransaction`/`DeleteTransaction`)
and address statuses, and its subscriptions and statuses are what
`NewAddress` reads on the application thread. The user creates, signs and broadcasts PSBTs through
the same store. The coin view and the balance are derived from whatever
the store holds.

## Modules

- **`WalletSync.tla`** (with `MC_WalletSync.tla`) covers the Electrum sync
  against the store.
  - **State.**
    - `srv`: the server's tx heights (−1/0 mempool, 1 confirmed).
    - `vtx`: the VTX heights.
    - `addrStatus`: the status part of the ADDRESS `UTXO` column.
    - `subscribed`: the keys of `scripthash_to_wallet_address_`.
    - `notif`: pending notifications on the one connection.
    - `syncQ`: what remains of the current `BlockchainSync` pass.
    - `phase`, and the bound counters `events` and `reconnects`.
  - **Status abstraction.** An address's status hash is abstracted by the
    set of its `<<tx, height>>` history pairs: equal histories, equal
    hashes.
  - **Actions.**
    - `ServerTxChange`: server activity — broadcast, mining, a mempool
      drop, an un-mining reorg — plus the notification it sends.
    - `BlockchainSyncAddress`: one address of the sequential path.
    - `BlockchainSyncWallet`: one wallet of the batch path, through
      `UpdateScripthashesStatus`.
    - `SyncFinished`: SYNCING → READY.
    - `OnScripthashStatusChange`.
    - `Run`: a reconnect clears the map and drops pending notifications.
  - **Helpers.** The storage and protocol helpers (`ToFetch`, `Upsert`,
    `DeleteNotIn`, `UpdateTransactionsSeq/Batch`,
    `UpdateScripthashStatus`, `UpdateScripthashesStatus`) compute a whole
    handler's effect, its eviction included.
  - **Failures.** `FetchOutcomes` enumerates what the client calls may do,
    and `FetchAndUpdate` applies one:
    - batch replies that omit txs;
    - fallback fetches that fail;
    - a single fetch that throws, which aborts the function after the
      rows before it were upserted;
    - the history request or a `get_multi_*` request throwing before any
      write.
    A throw leaves `UpdateScripthashStatus` without storing the status;
    inside `BlockchainSync` it ends the whole pass (`syncQ' = <<>>`), as
    `Run` swallows it.
- **`SyncLifecycle.tla`** covers `status_`, the worker's task queue, the
  work guard, the client and the owner thread.
  - The connect task is split where it releases the lock:
    - `ConnectOk`/`ConnectFail`: building the client, then CONNECTING → SYNCING;
    - `SyncDone`: BlockchainSync, then SYNCING → READY.
  - `Reconnect` is the posted sleep-then-`Run` task.
  - `Disconnect` is the client's callback.
  - `OwnerRun`, `WaitForReady`, `Destroy` and `Joined` are the owner's
    steps.
- **`CoinLedger.tla`** holds pure operators only.
  - `GetCoinsFromTransactions(rows, seq)` is a `RECURSIVE` replay of
    `ApplyTx` over the rows in a given order, built from `UsedBy`,
    `Invalid`, `Skipped`, `SetStatus`, `SpendStatus` and `OutputStatus`.
  - `GetBalance` and its `Counted` test.
- **`TransactionStore.tla`** (with `MC_TransactionStore.tla`) extends
  `CoinLedger`.
  - **State.**
    - `rows`: the VTX table. A row is `[h, signed, replace, replacedBy,
      extraJson]`. `extraJson` records whether `EXTRA` holds a JSON
      object, which `SetReplacedBy` needs.
    - `net`: the server's mempool and chain.
    - `sent`: txs the user broadcast whose `UpdateTransaction(raw, 0)` is
      still to run.
  - **Storage calls.** These are operators: `CreatePsbt`,
    `InsertTransaction`, `SetReplacedBy`, `UpdateTransaction`. A throwing
    call writes nothing.
  - **Actions.**
    - The user: `UserCreatePsbt` (re-creating an unbroadcast PSBT takes
      `CreatePsbt`'s conflict branch and makes it unsigned again),
      `UserSign`, `UserBroadcast` (the server call) and
      `UserStoreBroadcast` (the caller's `UpdateTransaction(raw, 0)`),
      `UserDeletePsbt`. The user's calls run one at a time (`UserIdle`);
      the synchronizer and cosigners may step between the two halves of a
      broadcast.
    - Cosigners: `CosignerBroadcast`.
    - Mining: `Mine`.
    - The synchronizer: `SyncTx`, one history entry of
      `UpdateTransactions`, which uses `GetTransaction` to choose between
      `UpdateTransaction` and `InsertTransaction`.
  - **Replace-by-fee.** The mempool evicts conflicting unconfirmed spends
    when it accepts a replacement.

- **`AddressSpace.tla`** covers `NewAddress` and the ADDRESS table of one
  non-escrow wallet's external branch. An address is its derivation index;
  a status is the number of server history changes (0 is the empty status).
  - **State.** `srv` (server statuses), `rows` (ADDRESS: index → status),
    `cache` (`addr_cache_`), `subscribed`, `notif` (pending
    notifications), NewAddress's `pc` and `index`, and the ghost `issued`
    (each result and whether its look-ahead saw history).
  - **Actions.** `Pay` (the server), `OnScripthashStatusChange` (the
    notification callback), `NewAddress`, `LookAheadStep` (one `LookAhead`
    of the sequential loop) and `BatchStep` (one `BatchLookAhead` window).
    `RunReset` and `BlockchainSync` are the synchronizer's effects on the
    address state, taken together with `SyncLifecycle`'s steps.
  - `status_` is a variable the module reads but never writes.
- **`SyncAddressSpace.tla`** composes `SyncLifecycle` and `AddressSpace`
  (`INSTANCE` of both over the shared `status`). `OwnerRun` and
  `Reconnect` clear the subscriptions and notifications of a client
  replaced on a move to CONNECTING. `SyncDone` is `BlockchainSync`.
  Application and server steps leave the lifecycle unchanged.
- **`MatrixRoom.tla`** (with `MC_MatrixRoom.tla`) covers one room and, per
  device, its room DB (`rwallet`, `rtx`, `stored`) and its Nunchuk store
  (`wallets`, `store`).
  - **Timeline.** The room's `timeline` is ordered by the homeserver.
    `cursor[d]` is how far device d has consumed it. `deferred` holds
    events waiting for the app's upload, and `pendingDl[d]` attachment
    events waiting for d's download.
  - **Actions.** The user actions `InitWallet`, `JoinWallet`,
    `LeaveWallet`, `CancelWallet`, `DeleteWallet`, `CreateWallet`,
    `InitTransaction`, `SignTransaction`, `RejectTransaction`,
    `CancelTransaction` and `BroadcastTransaction` each read the
    device's own room DB and send one event through `NewEvent`. The
    other actions are `UploadFileCallback`, `ConsumeNext` (the device's
    `ConsumeEvent` of the next timeline event) and
    `DownloadFileCallback`.
  - The room DB (`NunchukRoomDb`) is not under `src/`. Its getters are
    modelled from the way the code uses them and marked `spec_modelled`.
- **`CoinControlAbstract.tla`** is what coin control promises:
  - tags and collections (`group`) with referentially intact memberships
    (`member`), and coin info;
  - a delete removes the group's members;
  - an import replaces everything at once.
- **`CoinControl.tla`** (composed with the store in `MC_WalletDb.tla`) covers the SQL tables
  as the code uses them.
  - **Ids.** A new row id is one more than the largest (`NextRowId`: an
    `INTEGER PRIMARY KEY` without `AUTOINCREMENT`), so the id of a
    deleted last row comes back.
  - **Links.** `AddToCoinTag` inserts a join row without checking that
    the tag exists. `DeleteCoinTag` deletes the tag, then its join rows.
  - **Coin info.** Memo and lock are single-column upserts of COININFO.
  - **Refinement.** `CoinControlRefines` is `ASpec` of
    `CoinControlAbstract` under a mapping that hides join rows whose group
    is gone (`LiveLinks`). `Next` may import this wallet's own export, so
    the round trip must map to a stutter.
- **`MC_WalletDb.tla`** is one wallet database: `MC_TransactionStore`'s
  VTX table and `CoinControl`'s tables (`INSTANCE` with the model's coins
  and bundles). The two share no state, so a step of one leaves the other
  in its initial state.
- **`MatrixSync.tla`** (with `MC_MatrixSync.tla`) composes `MatrixRoom`
  (by `INSTANCE`) with the account's sync room.
  - **State.** `MatrixRoom`'s variables, plus `syncroom` (the backups in
    sync-room order), `synccur[d]` (how far d has consumed it) and
    `syncDl[d]` (backups whose attachment d has still to download).
  - **Actions.** Every `MatrixRoom` step; `Backup` (the snapshot
    `ExportBackup` takes); `ConsumeSyncNext` (own backups are only stored,
    other devices' are applied or left for the download);
    `SyncDownloadCallback`.
  - **Not under `src/`.** `nu->SyncWithBackup`'s result is a free choice,
    and `RoomWallet::merge` is taken to be the union of the joins and
    leaves, keeping each event id already set (`spec_modelled`).
- **`TxLifecycle.tla`** is the abstract status lifecycle of spec section
  4.3, over `status[t]` (a `TransactionStatus` or `"NONE"`): `LCreate`,
  `LSign`, `LDelete` of a PSBT; `LPublish` (a PSBT or unknown tx becomes
  pending or confirmed, and a published fee bump may turn the pending tx
  it replaces REPLACED in the same step); `LConfirm`. CONFIRMED is final.
  `TransactionStore` instantiates it with `status <- StatusView`, the
  status `GetTransaction` derives from each row (`TxStatus`), and checks
  `StoreRefinesLifecycle == Life!LSpec`.
- **`Descriptor.tla`** models the descriptor writer and reader over token
  sequences: words, punctuation, one token per derivation-path character,
  and one token per fingerprint, key, key path and checksum. `Split`,
  prefixes, `find(")")` and the signer regex (`SignerMatch`) work on the
  tokens as the code works on characters. A key is the only part of 20
  characters or more.
  - **State.** `exported` (the last wallet whose EXTERNAL_ALL descriptor
    `GetDescriptorsImportString` wrote), `descriptor`, and `imported` (what
    `ParseJSONDescriptors` read back).
  - **Actions.** `Export(x)` and `Import`.
  - **Reference.** `Expected(x)` is the wallet itself, with each path
    normalised as `FormalizePath` and the regex leave it.
- **`MC_Codecs.tla`** checks `Timelock` and `Descriptor` in one run. The
  two share no state, so a behaviour exercises one of them.
- **`Timelock.tla`** holds the lock an application builds and whether its
  last call threw.
  - **Actions.** `Construct` (the constructor, with its 512-second clamp
    and its call of `k()`), `ParseK` (`FromK`) and `ParseMiniscript`
    (`FromK` of the fragment `to_miniscript` wrote).
  - **Encoding.** `K` and `FromK` use the code's masks and shifts
    (`Bitwise`).
  - **Reference.** `Enforced` reads a number as BIP65/BIP68 do, with plain
    arithmetic.

## Runs

| Run | Config | Expect | What it shows |
|---|---|---|---|
| `ws_converge` | `WalletSync_converge.cfg` | pass | Two wallets, batch and sequential sync, reliable fetches, no reorgs. `ConfirmedEventuallyStored`: every confirmation the server reports reaches the store. |
| `ws_reorg_aba` | `WalletSync_reorg_aba.cfg` | violation | `ConfirmedEventuallyStored` is broken. A stale notified status is stored with a newer history. After a reorg the status returns to it, and the confirmation is skipped. |
| `ws_evict` | `WalletSync_evict.cfg` | violation | `StoredStatusSound` is broken. Syncing a1 deletes a2's pending receive tx while a2's stored status still equals the server's, so nothing fetches it again. |
| `ws_throw` | `WalletSync_throw.cfg` | violation | `ConfirmedEventuallyStored` is broken. A fetch for a2 throws out of `BlockchainSync`; a1 is never subscribed and its confirmation is never stored. |
| `lifecycle` | `SyncAddressSpace.cfg` | pass | `SyncAddressSpace` under both look-ahead modes, with failing connects and disconnects. `DestructorReturns`: the destructor's join returns whatever tasks are queued. `IssuedIncreasing`: successive `NewAddress` results increase across reconnects, syncs and notifications. |
| `address_batch_reuse` | `SyncAddressSpace_batch_reuse.cfg` | violation | `NoAddressReuse` is broken. `NewAddress` reads index i. `BlockchainSync` then stores i's new status. `BatchLookAhead` sees no change and returns i, which has history. |
| `walletdb` | `WalletDb.cfg` | pass | The VTX table under the user, a cosigner, mining and the synchronizer, composed with the coin-control tables. `SpentByConfirmedNotCounted`: a coin a stored confirmed tx spends is never in the balance. `StoreRefinesLifecycle`: the statuses `GetTransaction` shows move only as `TxLifecycle` allows (a broadcast tx never shows as a PSBT again, only the tx a published fee bump replaces turns REPLACED, CONFIRMED is final). `CoinControlRefines`: with rowid reuse and orphan join rows, the tables implement `CoinControlAbstract`, and importing the wallet's own export changes nothing. |
| `store_empty_extra` | `TransactionStore_empty_extra.cfg` | violation | `StoreConverges` is broken. The fee bump of a tx the synchronizer inserted (EXTRA `''`) throws in `SetReplacedBy` on every update and stays a PSBT while in the mempool. |
| `matrix` | `matrix.cfg` | pass | Three devices, users acting on stale room DBs, attachments sent and consumed late. `RoomRecordsConverge`: once every event is consumed, the devices' room records agree. |
| `matrix_tx_dropped` | `matrix_tx_dropped.cfg` | violation | `WalletTxMatchesRoom` is broken. A sign consumed after a reject re-imports the PSBT the reject deleted. |
| `codecs` | `Codecs.cfg` | pass | `DescriptorRoundTrip`: `ParseDescriptors` reads back the types, m, n and every signer (in order) of each exported wallet. The exceptions are exactly these: it rejects wallets with a signer on the master path `m`, taproot single-sig wallets and unsorted `multi()` wallets, and it reads a taproot escrow wallet as MULTI_SIG. `MusigCoversCombinations`: a taproot m-of-n descriptor with n ≤ 5 has the first m keys on the key path and exactly one leaf for every other m-subset, in a tree no deeper than needed. `KEncodesValue`: every lock the constructor or `FromK` accepts has a `k()` that means to Bitcoin what the lock describes (a relative time rounded down to 512 s). `MiniscriptRoundTrip`: `FromK` of a lock's fragment never throws and returns exactly the lock the fragment enforces. |
| `matrix_backup_revives` | `matrix_backup_revives.cfg` | violation | `EndedWalletsStayEnded` is broken. A device that has not yet consumed a wallet's cancel backs up its room DB. Another device that has consumed the cancel imports the backup, and `SetWallet` writes the uncancelled record over its own. |

The findings each violation shows are in `PROJECT.json`, with the line
where the code does it:

- the stale-status ABA;
- the eviction that deletes another address's pending receive tx;
- the fetch failure that throws out of `BlockchainSync` (the spec says
  it reports `isSynced=false`);
- the batch look-ahead that returns an address with history;
- the parse of an empty `EXTRA`;
- the re-import of a rejected PSBT;
- the backup that brings a cancelled wallet back.

Each property of a passing run has a mutant in `PROJECT.json`: a plausible
bug in the mapped code under which TLC finds the property violated. Examples:

- `k()` without the BIP68 type flag;
- a fetch list that skips stored pending txs;
- `used_by` recorded for spends at every height;
- `GetCurrentAddressIndex` counting used rows only;
- musig leaves collected in a do-while loop;
- `DeleteCoinTag` without its second `DELETE`.

**Retired runs.** The project keeps twelve runs. Three violations TLC
found in earlier sittings were retired to make room, and each is kept as
a hazard note in `PROJECT.json`:

- a batch `rawtx` omission stored and then evicted;
- a fee bump synchronised already confirmed, which never marks the tx it
  replaces;
- a failed connect that posts no retry, so `WaitForReady` never returns.

## Bounds and why they are enough

- **WalletSync.**
  - Size: two addresses, three txs, at most 4 server changes and 1
    reconnect.
  - Tx layout: t1 and t3 pay a1 and t2 pays a2, so one address has two
    txs and the eviction of one address can hit the other's.
  - Why 4 changes: a tx can appear, be mined, be un-mined and be mined
    again (the ABA case), or two txs can each appear and confirm.
  - Why 1 reconnect: one reconnect is enough to replay `BlockchainSync`
    after notifications were lost.
  - State count: 36 thousand distinct states (`ws_converge`, about 80 s).
- **SyncAddressSpace.**
  - Bounds: gap limit 2, a cache of 2, payments to indexes 0–2 (at most
    2), indexes up to 8, 2 `NewAddress` calls, 2 disconnects.
  - Why they are enough: a payment can land inside or just past a batch
    window, a sync can fall between `NewAddress` and its look-ahead, and
    reconnects can clear subscriptions mid-call.
  - State count: 64 thousand distinct states.
- **TransactionStore.**
  - Four txs:
    - F, the wallet's confirmed funding;
    - A, a spend of F's coin;
    - B, a fee bump of A;
    - C, a fee bump of B.
  - Each returns change, so conflicting pending, unsigned, replaced and
    confirmed spends of one coin all occur.
  - Cosigners may broadcast shared PSBTs, so the synchronizer can see a
    tx before the user's own `UpdateTransaction`.
  - Composed with coin control (`walletdb`): 60 thousand distinct
    states, about two minutes.
- **MatrixRoom.**
  - Bounds: three devices (two in `matrix_tx_dropped`), two keys, one
    PSBT, a one-signer wallet, 6 events.
  - Why they are enough: two creates of one init, a leave between a join
    and a create, and a sign racing a reject all fit. The third device
    consumes while two others act on stale room DBs.
  - Symmetry: devices and keys (no action or property names one).
  - State count: 677 thousand distinct states, in about a minute.
- **MatrixSync.** Two devices of one account, 4 room events and one
  backup: an init, a cancel and one stale backup are all the violation
  needs.
- **Descriptor.** 448 wallets. Each single-sig wallet has one signer on
  each of two paths: `m/48h` and `m`. The `SingleSigner` constructor runs
  every path through `GetDerivationPathView`, which writes `m/48h`, so
  `m/48'` and `48h` never reach the writer. Multisig and escrow
  wallets are m-of-n for n ≤ 6 on `m/48h`, plus 2-signer wallets with
  every pair of paths. All four address types and sorted and unsorted
  keys are covered. Five keys is the largest musig tree (9 leaves), and six
  takes the `multi_a` branch. The codecs run has 3.5 thousand distinct
  states and takes about 30 s.
- **Timelock.** Values and numbers at every boundary: the 512-second clamp
  and unit, the 16-bit mask, the relative limits (65535, 33554431), the
  absolute threshold 500000000, the largest 32-bit value, and numbers with
  and without the type flag. The encoding is arithmetic, so boundaries are
  where it can go wrong.
- **CoinControl.**
  - Bounds: two coins, two names, row ids up to 2, memos `""` and `"m"`.
  - Bundles: an import of another device's bundle, of the empty bundle,
    or of the wallet's own export.
  - Why they are enough: create, link, delete, create again reuses the
    id, and an import can overwrite a live tag.
  - Checked inside `walletdb`.

## Fairness

- **WalletSync.** The sync worker (`BlockchainSyncAddress`,
  `BlockchainSyncWallet`, `SyncFinished`) and the notification callback
  are weakly fair. Their tasks run to completion on the worker and the
  client threads while connected.
- **SyncLifecycle and SyncAddressSpace.** These are weakly fair:
  - the worker's tasks (`ConnectOk`, `ConnectFail`, `SyncDone`,
    `Reconnect`);
  - the owner's two waits (`WaitForReady`, `Joined`).
- **TransactionStore.** `SyncTx` is weakly fair per tx: every tx of a
  synchronised history is eventually processed. `UserStoreBroadcast` is
  weakly fair: it is the next statement of the broadcast call.
- **Timing assumption.** No block confirms a tx between the user's
  `Broadcast` and the `UpdateTransaction(raw, 0)` that follows it (`Mine`
  is disabled while the tx is in `sent`). Without it the synchronizer can
  store the tx CONFIRMED and the caller's update, which sets `HEIGHT = 0`
  unconditionally, demotes it; TLC finds `StoreRefinesLifecycle` broken
  that way. It is a hazard in `PROJECT.json`.
- **MatrixRoom.** These are weakly fair, as the app's sync loop, upload
  and download run while it is online:
  - each device's `ConsumeNext` and `DownloadFileCallback`;
  - `UploadFileCallback`.

  The matrix runs check invariants only.
- **Not fair.** These are never assumed fair:
  - the server, mining, users, cosigners and room members;
  - disconnections and the destructor call;
  - every coin-control call.

  A tx may stay in the mempool forever, and the application may never
  destroy the synchronizer.

## Not modelled, and why

- **Data race.** `Run` clears `scripthash_to_wallet_address_` while the
  notification callback reads it. That is undefined behaviour, and the
  handlers are modelled as atomic.
- **STOPPED overwritten.** A connect task that fails after the
  destructor set STOPPED overwrites it with UNINITIALIZED.
  `StoppedAbsorbing` in `SyncLifecycle` states the requirement and is
  broken by that path. It is not the property of a run.
- **Address space.**
  - Escrow wallets never look ahead.
  - The internal branch runs the same code as the external one.
  - Concurrent `NewAddress` callers live outside `src/`: nothing
    serialises them, and the model has one application thread.
  - The address cache is never extended as addresses become used, which
    spec sections 3 and 8 contradict. It is a hazard without a run.
- **Transaction lifecycle.** NETWORK_REJECTED is not in
  `TransactionStore`, so `TxLifecycle` leaves it out. `SyncTx` leaves out
  the eviction of `UpdateTransactions`: it deletes only unconfirmed
  receive-type rows, and every tx of this instance is a send or the
  confirmed funding. `WalletSync` models the eviction.
- **Rest of the transaction store.** `UpdatePsbt`, `UpdatePsbtTxId`, and
  the memo and schedule updates. `UpdatePsbtTxId`'s callers are outside
  `src/`, so the ids they pass are unknown. Its unchecked insert and its
  crash window between insert and delete are hazards.
- **Coin control.**
  - Colours and collection settings are left out: no decision reads them.
  - The getters only read.
  - A crash between the statements of one call is not modelled.
    `ImportCoinControlData` runs without the transaction spec section 5
    promises, and `DeleteCoinTag` deletes in two statements. Both are
    hazards in `PROJECT.json`.
  - A throwing `CreateCoinTag` leaves a transaction open. Its effect
    depends on how `NunchukDb` closes the connection, which is not under
    `src/`.
- **Matrix.**
  - `transaction.receive` events are left out. They write only the notify
    table, and duplicates are accepted by design (`RandomDelay`).
  - No pass run checks backups. A stale backup breaks
    `RoomRecordsConverge`, so `MatrixSync` has only the violation run.
  - `AsyncBackup`'s retry and `delay_`, a list of futures that only
    grows, are left out.
  - `SendErrorEvent` and the chain check are left out.
  - The Matrix transport itself is out of scope (spec section 1).
- **Timelock encoding.** The getters are left out. `k()` refuses a
  relative height of 65535, which BIP68 allows. That is a hazard without a
  run.
- **Out of reach or without behaviour.** These are not planned:
  - in `dto/sandboxgroup.cpp`:
    - the `SingleSigner` and `SandboxGroup` getters;
    - the `*_PUBKEY` key paths, which need BIP32 derivation;
    - the JSON fields of `GetDescriptorsImportString` other than the
      descriptor, and `ParseJSONDescriptors`' JSON parsing;
    - `GetDerivationPathView` (only its normal form is input) and `GetSignerNameFromDerivationPath`;
    - the checksum's value;
  - the BSMS record code of `part_003`, which calls another version of
    `ParseDescriptors`;
  - `descriptor.h`, and the miniscript policy compiler
    (`miniscript/compiler.h`), a tree rewriting with no state;
  - the software signer's cryptography;
  - the HWI external process;
  - string helpers, DTO getters and build files.
- **Abstractions.**
  - Listener callbacks, the chain tip, block headers and times, fees and
    tx memos are left out: no property depends on them.
  - The status hash is its history.
  - The utxo part of the ADDRESS column is always empty in the code
    (`json utxo;`).
  - In `TransactionStore`, an exception in `SyncTx` stops only that tx.
    In the code it aborts the rest of that address's history;
    `WalletSync` models that abort.

## Plan for the next sittings

1. Crashes inside coin-control calls, against the atomic import the spec
   promises.
2. Matrix receive notifications, if a property about them is found
   worth a run.
3. NETWORK_REJECTED in `TransactionStore`, with `TxLifecycle` extended
   to match.
