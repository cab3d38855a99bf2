----------------------------- MODULE MatrixRoom -----------------------------
(***************************************************************************)
(* The shared-wallet room protocol of libnunchuk over Matrix:              *)
(* NunchukMatrixImpl (src/src/nunchukmatriximpl.cpp).                      *)
(*                                                                         *)
(* One room; each device of a member has its own room DB (RoomWallet and   *)
(* RoomTransaction records, the events it stored) and its own Nunchuk      *)
(* wallet store.  A user action on a device reads that device's room DB,   *)
(* may change its Nunchuk store and sends one io.nunchuk event.  The       *)
(* homeserver orders the events of the room into one timeline, and every   *)
(* device hands the timeline to ConsumeEvent in that order.  An event      *)
(* whose body is too large travels in an attachment: with asynchronous     *)
(* file functions (RegisterFileFunc) it is sent only when the app's upload *)
(* calls UploadFileCallback, and it is consumed only when the app's        *)
(* download calls DownloadFileCallback, so such events can be sent and     *)
(* consumed out of timeline order.                                         *)
(*                                                                         *)
(* Event ids are timeline positions.  A wallet is identified by its        *)
(* descriptor, abstracted to the set of its keys; a PSBT by its tx id.     *)
(***************************************************************************)
EXTENDS Integers, FiniteSets, Sequences, SequencesExt, BagsExt

CONSTANTS
  Devices,      \* devices of the room's members
  Keys,         \* signer keys (SingleSigner::get_descriptor())
  TxIds,        \* tx ids of the PSBTs InitTransaction may create
  N,            \* n of the io.nunchuk.wallet.init body
  AsyncFiles,   \* the app registered asynchronous file functions
  StaleSenders, \* a user may act on a device that has not consumed the whole room
  NoKey, NoTx, NoWallet,  \* absent key, tx id and wallet id
  MaxEvents     \* bound on the events of the room

ASSUME N \in Nat \ {0} /\ MaxEvents \in Nat
ASSUME AsyncFiles \in BOOLEAN /\ StaleSenders \in BOOLEAN
ASSUME {NoKey, NoTx, NoWallet} \cap (Keys \cup TxIds) = {}

WalletKinds == {"wallet.init", "wallet.join", "wallet.leave", "wallet.cancel",
                "wallet.delete", "wallet.create"}
TxKinds == {"transaction.init", "transaction.sign", "transaction.reject",
            "transaction.cancel", "transaction.broadcast"}
WalletIds == SUBSET Keys
Ids == 1..MaxEvents

\* An event: kind (msgtype), init event it relates to
\* (io.nunchuk.relates_to.init_event, 0 for none), joined key, join event a
\* leave withdraws, join events a create lists, wallet id (the descriptor of
\* a create, the wallet_id of a transaction.init), tx id (the PSBT of a
\* transaction.init, the tx_id of a broadcast), body in an attachment.
Event == [kind : WalletKinds \cup TxKinds, rel : 0..MaxEvents,
          key : Keys \cup {NoKey}, join : 0..MaxEvents, joins : SUBSET Ids,
          wid : WalletIds \cup {NoWallet}, tx : TxIds \cup {NoTx},
          file : BOOLEAN]

NewEv(k) == [kind |-> k, rel |-> 0, key |-> NoKey, join |-> 0,
             joins |-> {}, wid |-> NoWallet, tx |-> NoTx, file |-> FALSE]

VARIABLES
  timeline,   \* the room's events in homeserver order
  deferred,   \* bag of events waiting for the app's upload (UploadFileCallback)
  cursor,     \* cursor[d]: timeline events handed to ConsumeEvent on d
  pendingDl,  \* pendingDl[d]: attachment events waiting for DownloadFileCallback
  stored,     \* stored[d]: ids of the events in d's room DB (HasEvent)
  rwallet,    \* rwallet[d]: init event id -> RoomWallet
  rtx,        \* rtx[d]: init event id -> RoomTransaction
  wallets,    \* wallets[d]: wallet ids of d's Nunchuk (HasWallet)
  store       \* store[d]: tx id -> "psbt" | "sent", d's Nunchuk transactions

vars == <<timeline, deferred, cursor, pendingDl, stored, rwallet, rtx,
          wallets, store>>
local == <<stored, rwallet, rtx, wallets, store>>

(***************************************************************************)
(* Room DB (NunchukRoomDb, used by the code as below).                     *)
(***************************************************************************)
NoRoomWallet == [joins |-> {}, leaves |-> {}, finalize |-> 0, cancel |-> 0,
                 delete |-> 0, wid |-> NoWallet]
NoRoomTx == [signs |-> {}, rejects |-> {}, cancel |-> 0, broadcast |-> 0,
             tx |-> NoTx, wid |-> NoWallet]

\* GetWallet(init_event_id, false) / GetTransaction(init_event_id): the
\* stored record, or an empty one for an init id not seen yet.
GetWallet(d, i) == IF i \in DOMAIN rwallet[d] THEN rwallet[d][i] ELSE NoRoomWallet
GetTransaction(d, i) == IF i \in DOMAIN rtx[d] THEN rtx[d][i] ELSE NoRoomTx

\* HasActiveWallet / GetActiveWallet: the room's latest wallet that was
\* neither cancelled nor deleted.
ActiveIds(d) == {i \in DOMAIN rwallet[d] :
                   rwallet[d][i].cancel = 0 /\ rwallet[d][i].delete = 0}
HasActiveWallet(d) == ActiveIds(d) # {}
GetActiveWallet(d) == Max(ActiveIds(d))

\* The join events of a wallet not withdrawn by one of its leave events
\* (the leave_ids loop of JoinWallet and CreateWallet), and their keys.
CurrentJoins(w) == w.joins \ {timeline[l].join : l \in w.leaves}
JoinedKeys(w) == {timeline[j].key : j \in CurrentJoins(w)}

(***************************************************************************)
(* Sending: NewEvent.                                                      *)
(***************************************************************************)
CanSend == Len(timeline) + BagCardinality(deferred) < MaxEvents

\* A user acts on a device that has consumed the room so far, unless stale
\* senders are allowed (two users acting at once: the later event in the
\* timeline was made from a room DB without the earlier one).
UpToDate(d) == StaleSenders \/ (cursor[d] = Len(timeline) /\ pendingDl[d] = {})

\* NewEvent: a body over CONTENT_MAX_LEN goes to EncryptAttachment; with an
\* asynchronous upload function it returns "" and the event is sent later
\* by UploadFileCallback.  Otherwise sendfunc_ appends it to the room.
NewEvent(e) ==
  IF e.file
  THEN deferred' = BagAdd(deferred, e) /\ UNCHANGED timeline
  ELSE timeline' = Append(timeline, e) /\ UNCHANGED deferred

\* A PSBT-carrying body may exceed CONTENT_MAX_LEN; without asynchronous
\* file functions the attachment is uploaded and downloaded in the call.
PsbtInFile == IF AsyncFiles THEN BOOLEAN ELSE {FALSE}

(***************************************************************************)
(* User actions (NunchukMatrixImpl API), on device d.                      *)
(***************************************************************************)
InitWallet(d) ==
  /\ CanSend /\ UpToDate(d)
  /\ ~HasActiveWallet(d)
  /\ NewEvent(NewEv("wallet.init"))
  /\ UNCHANGED <<cursor, pendingDl, local>>

\* The init body's chain and escrow flag match and its member list is
\* empty, so only the duplicate-key check can refuse the key.
JoinWallet(d, k) ==
  /\ CanSend /\ UpToDate(d)
  /\ HasActiveWallet(d)
  /\ LET i == GetActiveWallet(d) IN
     /\ k \notin JoinedKeys(rwallet[d][i])
     /\ NewEvent([NewEv("wallet.join") EXCEPT !.rel = i, !.key = k])
  /\ UNCHANGED <<cursor, pendingDl, local>>

\* The caller names one of the wallet's join events.
LeaveWallet(d) ==
  /\ CanSend /\ UpToDate(d)
  /\ HasActiveWallet(d)
  /\ LET i == GetActiveWallet(d) IN
     \E j \in CurrentJoins(rwallet[d][i]) :
       NewEvent([NewEv("wallet.leave") EXCEPT !.rel = i, !.join = j])
  /\ UNCHANGED <<cursor, pendingDl, local>>

CancelWallet(d) ==
  /\ CanSend /\ UpToDate(d)
  /\ HasActiveWallet(d)
  /\ NewEvent([NewEv("wallet.cancel") EXCEPT !.rel = GetActiveWallet(d)])
  /\ UNCHANGED <<cursor, pendingDl, local>>

\* The wallet of a PSBT: the wallet_id of its transaction.init.
TxWallet(x) == CHOOSE w \in WalletIds :
                 \E e \in ToSet(timeline) \cup BagToSet(deferred) :
                   e.kind = "transaction.init" /\ e.tx = x /\ e.wid = w

\* nu->DeleteWallet(wallet_id) first (it throws for an unknown wallet); the
\* wallet goes from d's Nunchuk with its transactions.
DeleteWallet(d) ==
  /\ CanSend /\ UpToDate(d)
  /\ HasActiveWallet(d)
  /\ LET i == GetActiveWallet(d)
         w == rwallet[d][i].wid
     IN /\ w \in wallets[d]
        /\ wallets' = [wallets EXCEPT ![d] = @ \ {w}]
        /\ store' = [store EXCEPT ![d] =
                       Restrict(@, {x \in DOMAIN @ : TxWallet(x) # w})]
        /\ NewEvent([NewEv("wallet.delete") EXCEPT !.rel = i])
  /\ UNCHANGED <<cursor, pendingDl, stored, rwallet, rtx>>

\* The descriptor is built from the keys of the current joins; the app
\* calls CreateWallet once n keys have joined.
CreateWallet(d) ==
  /\ CanSend /\ UpToDate(d)
  /\ HasActiveWallet(d)
  /\ LET i == GetActiveWallet(d)
         w == rwallet[d][i]
     IN /\ Cardinality(JoinedKeys(w)) = N
        /\ NewEvent([NewEv("wallet.create") EXCEPT !.rel = i,
                       !.joins = CurrentJoins(w), !.wid = JoinedKeys(w)])
  /\ UNCHANGED <<cursor, pendingDl, local>>

\* nu->CreateTransaction stores a new PSBT in the active wallet.
InitTransaction(d) ==
  /\ CanSend /\ UpToDate(d)
  /\ HasActiveWallet(d)
  /\ LET w == rwallet[d][GetActiveWallet(d)]
         used == {e.tx : e \in ToSet(timeline) \cup BagToSet(deferred)}
                   \cup UNION {DOMAIN store[x] : x \in Devices}
     IN /\ w.wid \in wallets[d]
        /\ \E x \in TxIds \ used, f \in PsbtInFile :
             /\ store' = [store EXCEPT ![d] = @ @@ (x :> "psbt")]
             /\ NewEvent([NewEv("transaction.init") EXCEPT !.wid = w.wid,
                            !.tx = x, !.file = f])
  /\ UNCHANGED <<cursor, pendingDl, stored, rwallet, rtx, wallets>>

\* SignTransaction, SignAirgapTransaction and SignTapsignerTransaction:
\* the room transaction's PSBT must be in d's wallet, still unsigned-off.
SignTransaction(d, i) ==
  /\ CanSend /\ UpToDate(d)
  /\ i \in DOMAIN rtx[d]
  /\ rtx[d][i].tx \in DOMAIN store[d] /\ store[d][rtx[d][i].tx] = "psbt"
  /\ \E f \in PsbtInFile :
       NewEvent([NewEv("transaction.sign") EXCEPT !.rel = i, !.file = f])
  /\ UNCHANGED <<cursor, pendingDl, local>>

\* RejectTransaction / CancelTransaction only need the init event.
RejectTransaction(d, i) ==
  /\ CanSend /\ UpToDate(d)
  /\ i \in DOMAIN rtx[d]
  /\ NewEvent([NewEv("transaction.reject") EXCEPT !.rel = i])
  /\ UNCHANGED <<cursor, pendingDl, local>>

CancelTransaction(d, i) ==
  /\ CanSend /\ UpToDate(d)
  /\ i \in DOMAIN rtx[d]
  /\ NewEvent([NewEv("transaction.cancel") EXCEPT !.rel = i])
  /\ UNCHANGED <<cursor, pendingDl, local>>

\* nu->BroadcastTransaction; the tx id it returns is the PSBT's, so saving
\* it in the room record changes nothing.
BroadcastTransaction(d, i) ==
  /\ CanSend /\ UpToDate(d)
  /\ i \in DOMAIN rtx[d]
  /\ LET x == rtx[d][i].tx IN
     /\ x \in DOMAIN store[d] /\ store[d][x] = "psbt"
     /\ store' = [store EXCEPT ![d][x] = "sent"]
     /\ NewEvent([NewEv("transaction.broadcast") EXCEPT !.rel = i, !.tx = x])
  /\ UNCHANGED <<cursor, pendingDl, stored, rwallet, rtx, wallets>>

\* The app's upload finished: UploadFileCallback sends the event with the
\* attachment's url.
UploadFileCallback(e) ==
  /\ BagIn(e, deferred)
  /\ deferred' = BagRemove(deferred, e)
  /\ timeline' = Append(timeline, e)
  /\ UNCHANGED <<cursor, pendingDl, local>>

(***************************************************************************)
(* ConsumeEvent on device d.                                               *)
(***************************************************************************)
\* A create binds the room wallet to its descriptor's wallet when the room
\* wallet has no wallet id yet and was not deleted.
BindsWallet(w) == w.wid = NoWallet /\ w.delete = 0

\* A wallet event: the RoomWallet of its init event is updated.  A create
\* sets the finalize event and, when it binds the wallet, takes the
\* descriptor's wallet id and creates the wallet in Nunchuk unless HasWallet.
ApplyWalletEvent(d, i, e, st) ==
  LET init == IF e.kind = "wallet.init" THEN i ELSE e.rel
      w == GetWallet(d, init)
      creates == e.kind = "wallet.create" /\ BindsWallet(w)
      w2 == CASE e.kind = "wallet.join"   -> [w EXCEPT !.joins = @ \cup {i}]
              [] e.kind = "wallet.leave"  -> [w EXCEPT !.leaves = @ \cup {i}]
              [] e.kind = "wallet.cancel" -> [w EXCEPT !.cancel = i]
              [] e.kind = "wallet.delete" -> [w EXCEPT !.delete = i]
              [] e.kind = "wallet.create" ->
                   [w EXCEPT !.finalize = i, !.wid = IF creates THEN e.wid ELSE @]
              [] OTHER -> w
  IN /\ rwallet' = [rwallet EXCEPT ![d] = (init :> w2) @@ @]
     /\ wallets' = IF creates THEN [wallets EXCEPT ![d] = @ \cup {e.wid}]
                              ELSE wallets
     /\ stored' = [stored EXCEPT ![d] = st \cup {i}]
     /\ UNCHANGED <<rtx, store>>

\* Mutant of RoomTxUpdate: a sign replaces the sign events instead of
\* adding to them.
RoomTxUpdateSetSign(t, i, e) ==
  CASE e.kind = "transaction.sign"   -> [t EXCEPT !.signs = {i}]
    [] e.kind = "transaction.reject" -> [t EXCEPT !.rejects = @ \cup {i}]
    [] e.kind = "transaction.cancel" -> [t EXCEPT !.cancel = i]
    [] e.kind = "transaction.broadcast" -> [t EXCEPT !.broadcast = i, !.tx = e.tx]
    [] OTHER -> t

\* The RoomTransaction change of event i: a sign or reject adds its event,
\* a cancel or broadcast sets it, a broadcast records the broadcast tx id.
RoomTxUpdate(t, i, e) ==
  CASE e.kind = "transaction.sign"   -> [t EXCEPT !.signs = @ \cup {i}]
    [] e.kind = "transaction.reject" -> [t EXCEPT !.rejects = @ \cup {i}]
    [] e.kind = "transaction.cancel" -> [t EXCEPT !.cancel = i]
    [] e.kind = "transaction.broadcast" -> [t EXCEPT !.broadcast = i, !.tx = e.tx]
    [] OTHER -> t

\* A transaction event: the RoomTransaction of its init event takes the
\* init's wallet id; while no broadcast event was seen the init PSBT is
\* imported (ImportPsbt) and its tx id recorded.  A reject or cancel
\* deletes the tx from Nunchuk (DeleteTransaction), a broadcast updates it
\* to the sent tx (UpdateTransaction).  ScanWalletAddress and ImportPsbt
\* throw when d has no such wallet: only the init event stays stored.
ApplyTxEvent(d, i, e, st) ==
  LET init == IF e.kind = "transaction.init" THEN i ELSE e.rel
      ie == timeline[init]
      t0 == [GetTransaction(d, init) EXCEPT !.wid = ie.wid]
      unsent == t0.broadcast = 0
      t1 == IF unsent THEN [t0 EXCEPT !.tx = ie.tx] ELSE t0
      s1 == IF unsent /\ ie.tx \notin DOMAIN store[d]
            THEN store[d] @@ (ie.tx :> "psbt") ELSE store[d]
      s2 == CASE e.kind \in {"transaction.reject", "transaction.cancel"} ->
                   Restrict(s1, DOMAIN s1 \ {t1.tx})
              [] e.kind = "transaction.broadcast" -> (e.tx :> "sent") @@ s1
              [] OTHER -> s1
  IN IF ie.wid \notin wallets[d]
     THEN /\ stored' = [stored EXCEPT ![d] = st]
          /\ UNCHANGED <<rwallet, rtx, wallets, store>>
     ELSE /\ rtx' = [rtx EXCEPT ![d] = (init :> RoomTxUpdate(t1, i, e)) @@ @]
          /\ store' = [store EXCEPT ![d] = s2]
          /\ stored' = [stored EXCEPT ![d] = st \cup {i}]
          /\ UNCHANGED <<rwallet, wallets>>

\* ConsumeEvent(nu, event) for timeline event i: skip an event already in
\* the room DB (HasEvent); an attachment the app has not downloaded yet
\* (DecryptAttachment returns "") leaves it for DownloadFileCallback.
\* Otherwise the init event a body relates to is stored first (SetEvent of
\* relates_to.init_event) and the event is applied.
ConsumeEvent(d, i, downloaded) ==
  LET e == timeline[i]
      st == IF e.rel # 0 THEN stored[d] \cup {e.rel} ELSE stored[d]
  IN \/ /\ i \in stored[d]
        /\ pendingDl' = [pendingDl EXCEPT ![d] = @ \ {i}]
        /\ UNCHANGED local
     \/ /\ i \notin stored[d] /\ e.file /\ ~downloaded
        /\ pendingDl' = [pendingDl EXCEPT ![d] = @ \cup {i}]
        /\ UNCHANGED local
     \/ /\ i \notin stored[d] /\ (~e.file \/ downloaded)
        /\ pendingDl' = [pendingDl EXCEPT ![d] = @ \ {i}]
        /\ IF e.kind \in WalletKinds THEN ApplyWalletEvent(d, i, e, st)
                                      ELSE ApplyTxEvent(d, i, e, st)

\* The app hands d the next event of the room timeline.
ConsumeNext(d) ==
  /\ cursor[d] < Len(timeline)
  /\ cursor' = [cursor EXCEPT ![d] = @ + 1]
  /\ ConsumeEvent(d, cursor[d] + 1, FALSE)
  /\ UNCHANGED <<timeline, deferred>>

\* The app finished downloading the attachment of event i:
\* DownloadFileCallback puts the body into the event and consumes it.
DownloadFileCallback(d, i) ==
  /\ i \in pendingDl[d]
  /\ ConsumeEvent(d, i, TRUE)
  /\ UNCHANGED <<timeline, deferred, cursor>>

(***************************************************************************)
(* Specification.                                                          *)
(***************************************************************************)
Init ==
  /\ timeline = <<>>
  /\ deferred = EmptyBag
  /\ cursor = [d \in Devices |-> 0]
  /\ pendingDl = [d \in Devices |-> {}]
  /\ stored = [d \in Devices |-> {}]
  /\ rwallet = [d \in Devices |-> [i \in {} |-> NoRoomWallet]]
  /\ rtx = [d \in Devices |-> [i \in {} |-> NoRoomTx]]
  /\ wallets = [d \in Devices |-> {}]
  /\ store = [d \in Devices |-> [x \in {} |-> "psbt"]]

UserAction(d) ==
  \/ InitWallet(d)
  \/ \E k \in Keys : JoinWallet(d, k)
  \/ LeaveWallet(d)
  \/ CancelWallet(d)
  \/ DeleteWallet(d)
  \/ CreateWallet(d)
  \/ InitTransaction(d)
  \/ \E i \in Ids : SignTransaction(d, i)
  \/ \E i \in Ids : RejectTransaction(d, i)
  \/ \E i \in Ids : CancelTransaction(d, i)
  \/ \E i \in Ids : BroadcastTransaction(d, i)

Next ==
  \/ \E d \in Devices : UserAction(d)
  \/ \E e \in BagToSet(deferred) : UploadFileCallback(e)
  \/ \E d \in Devices : ConsumeNext(d)
  \/ \E d \in Devices, i \in Ids : DownloadFileCallback(d, i)

\* Users act when they like; the app's Matrix sync hands every device the
\* room's events and its file transfers complete.
Fairness ==
  /\ \A d \in Devices : WF_vars(ConsumeNext(d))
  /\ \A d \in Devices : WF_vars(\E i \in Ids : DownloadFileCallback(d, i))
  /\ WF_vars(\E e \in BagToSet(deferred) : UploadFileCallback(e))

Spec == Init /\ [][Next]_vars /\ Fairness

(***************************************************************************)
(* Properties.                                                             *)
(***************************************************************************)
TypeOK ==
  /\ timeline \in Seq(Event) /\ Len(timeline) <= MaxEvents
  /\ IsABag(deferred) /\ BagToSet(deferred) \subseteq Event
  /\ cursor \in [Devices -> 0..MaxEvents]
  /\ pendingDl \in [Devices -> SUBSET Ids]
  /\ stored \in [Devices -> SUBSET Ids]
  /\ \A d \in Devices :
       /\ DOMAIN rwallet[d] \subseteq Ids /\ DOMAIN rtx[d] \subseteq Ids
       /\ wallets[d] \subseteq WalletIds
       /\ DOMAIN store[d] \subseteq TxIds
       /\ \A x \in DOMAIN store[d] : store[d][x] \in {"psbt", "sent"}

\* Every device has consumed every event of the room.
Quiescent ==
  /\ deferred = EmptyBag
  /\ \A d \in Devices : cursor[d] = Len(timeline) /\ pendingDl[d] = {}

\* A device whose user deleted a room wallet from its Nunchuk: once the
\* create is consumed, only DeleteWallet removes the wallet.
Deleter(d) == \E i \in DOMAIN rwallet[d] : rwallet[d][i].wid \notin wallets[d] \cup {NoWallet}

\* Once every device has consumed the room, all devices hold the same
\* RoomWallet records, and all devices that kept the wallet hold the same
\* RoomTransaction records: the order in which attachment events complete
\* their download (DownloadFileCallback) does not matter.
RoomRecordsConverge ==
  Quiescent =>
    /\ \A d1, d2 \in Devices : rwallet[d1] = rwallet[d2]
    /\ \A d1, d2 \in {d \in Devices : ~Deleter(d)} : rtx[d1] = rtx[d2]

\* A device that holds a room transaction's wallet has the transaction in
\* its Nunchuk exactly when the room did not drop it: ConsumeEvent deletes
\* the PSBT for a cancel or a reject (DeleteTransaction) and imports it for
\* the other events while no broadcast was seen, and a broadcast keeps the
\* sent transaction.
WalletTxMatchesRoom ==
  \A d \in Devices : \A i \in DOMAIN rtx[d] :
    LET t == rtx[d][i] IN
      t.wid \in wallets[d] =>
        (t.tx \in DOMAIN store[d] <=>
           t.broadcast # 0 \/ (t.cancel = 0 /\ t.rejects = {}))
====
