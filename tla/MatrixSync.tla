----------------------------- MODULE MatrixSync -----------------------------
(***************************************************************************)
(* Automatic backups of the room DB through the account's sync room        *)
(* (src/src/nunchukmatriximpl.cpp: Backup, ExportBackup, ConsumeSyncEvent, *)
(* SyncWithBackup, DownloadFileCallback), composed with the shared-wallet  *)
(* room of MatrixRoom.  The devices of the room are devices of one account *)
(* and share its sync room.                                                *)
(*                                                                         *)
(* Backup sends an io.nunchuk.sync.file event whose body holds the device's*)
(* room wallets that are neither cancelled nor deleted, with their events. *)
(* Another device consuming it imports the events and writes each wallet   *)
(* into its own room DB.  The sync room and the shared room are separate   *)
(* timelines: a device may consume a backup before or after the room       *)
(* events that were sent after it was made.                                *)
(***************************************************************************)
EXTENDS Integers, FiniteSets, Sequences, SequencesExt, BagsExt

CONSTANTS
  Devices, Keys, TxIds, N, AsyncFiles, StaleSenders,
  NoKey, NoTx, NoWallet, MaxEvents,
  MaxBackups    \* bound on the events of the sync room

ASSUME MaxBackups \in Nat

VARIABLES
  timeline, deferred, cursor, pendingDl, stored, rwallet, rtx, wallets, store,
  syncroom,   \* the sync room's io.nunchuk.sync.file events, in order
  synccur,    \* synccur[d]: sync events handed to ConsumeSyncEvent on d
  syncDl      \* syncDl[d]: sync events whose attachment d has yet to download

R == INSTANCE MatrixRoom

roomVars == <<timeline, deferred, cursor, pendingDl, stored, rwallet, rtx,
              wallets, store>>
syncVars == <<syncroom, synccur, syncDl>>
vars == <<roomVars, syncVars>>

(***************************************************************************)
(* ExportBackup and SyncWithBackup.                                        *)
(***************************************************************************)
\* ExportBackup skips a wallet with a cancel or delete event; for the others
\* it exports the wallet and the events it names that d's room DB holds
\* (exportEvent swallows the GetEvent failure of a missing one).
Exported(d) == {i \in DOMAIN rwallet[d] :
                  rwallet[d][i].cancel = 0 /\ rwallet[d][i].delete = 0}

WalletEventIds(i, w) == ({i, w.finalize} \cup w.joins \cup w.leaves) \ {0}

ExportBackup(d) ==
  [dev |-> d,
   wallets |-> [i \in Exported(d) |-> rwallet[d][i]],
   events |-> stored[d] \cap
                UNION {WalletEventIds(i, rwallet[d][i]) : i \in Exported(d)}]

\* RoomWallet::merge (not under src/): the union of the join and leave
\* events, each other event id kept unless unset.
Keep(a, b) == IF a # 0 THEN a ELSE b
Merge(w0, w1) ==
  [joins |-> w0.joins \cup w1.joins, leaves |-> w0.leaves \cup w1.leaves,
   finalize |-> Keep(w0.finalize, w1.finalize),
   cancel |-> Keep(w0.cancel, w1.cancel), delete |-> Keep(w0.delete, w1.delete),
   wid |-> IF w0.wid # NoWallet THEN w0.wid ELSE w1.wid]

ActiveIn(rw) == {i \in DOMAIN rw : rw[i].cancel = 0 /\ rw[i].delete = 0}

\* The importChain loop, one backed-up wallet at a time in init order: it
\* is merged into the room's active wallet when that has the same init
\* event, and otherwise written over d's record (SetWallet(w1)).
RECURSIVE ImportWallets(_, _)
ImportWallets(rw, ws) ==
  IF DOMAIN ws = {} THEN rw
  ELSE LET i == Min(DOMAIN ws)
           new == IF ActiveIn(rw) # {} /\ Max(ActiveIn(rw)) = i
                  THEN Merge(rw[i], ws[i]) ELSE ws[i]
       IN ImportWallets((i :> new) @@ rw,
                        [j \in DOMAIN ws \ {i} |-> ws[j]])

\* NunchukMatrixImpl::SyncWithBackup, run when nu->SyncWithBackup(data)
\* returned true: SetEvent for every event, then the wallets.
SyncWithBackup(d, b) ==
  /\ stored' = [stored EXCEPT ![d] = @ \cup b.events]
  /\ rwallet' = [rwallet EXCEPT ![d] = ImportWallets(@, b.wallets)]
  /\ UNCHANGED <<timeline, deferred, cursor, pendingDl, rtx, wallets, store>>

\* nu->SyncWithBackup (not under src/) restores the Nunchuk side and
\* returns whether the matrix part is to be imported; either is possible.
ApplyBackup(d, b) ==
  \/ SyncWithBackup(d, b)
  \/ UNCHANGED roomVars

(***************************************************************************)
(* Actions.                                                                *)
(***************************************************************************)
\* Backup(nu): AsyncBackup runs it after a storage update and once more
\* 60 s after a failure; the export is taken under the lock.
Backup(d) ==
  /\ Len(syncroom) < MaxBackups
  /\ syncroom' = Append(syncroom, ExportBackup(d))
  /\ UNCHANGED <<roomVars, synccur, syncDl>>

\* ConsumeSyncEvent for the next sync event: d's own backup (same
\* device_id) is only stored; another device's is applied, unless its body
\* is an attachment the app has not downloaded yet (DecryptAttachment
\* returns "", data is empty) and DownloadFileCallback applies it later.
ConsumeSyncNext(d) ==
  /\ synccur[d] < Len(syncroom)
  /\ synccur' = [synccur EXCEPT ![d] = @ + 1]
  /\ LET n == synccur[d] + 1
         b == syncroom[n]
     IN \/ b.dev = d /\ UNCHANGED <<roomVars, syncDl>>
        \/ /\ b.dev # d /\ AsyncFiles
           /\ syncDl' = [syncDl EXCEPT ![d] = @ \cup {n}]
           /\ UNCHANGED roomVars
        \/ b.dev # d /\ ApplyBackup(d, b) /\ UNCHANGED syncDl
  /\ UNCHANGED syncroom

\* DownloadFileCallback for an io.nunchuk.sync event.
SyncDownloadCallback(d, n) ==
  /\ n \in syncDl[d]
  /\ syncDl' = [syncDl EXCEPT ![d] = @ \ {n}]
  /\ ApplyBackup(d, syncroom[n])
  /\ UNCHANGED <<syncroom, synccur>>

Init ==
  /\ R!Init
  /\ syncroom = <<>>
  /\ synccur = [d \in Devices |-> 0]
  /\ syncDl = [d \in Devices |-> {}]

Next ==
  \/ R!Next /\ UNCHANGED syncVars
  \/ \E d \in Devices : Backup(d)
  \/ \E d \in Devices : ConsumeSyncNext(d)
  \/ \E d \in Devices, n \in 1..MaxBackups : SyncDownloadCallback(d, n)

Spec == Init /\ [][Next]_vars

(***************************************************************************)
(* Properties.                                                             *)
(***************************************************************************)
\* A cancel or delete event of a wallet that d's room DB holds is in d's
\* record of that wallet: once ConsumeEvent applied it, no later step, a
\* backup of another device taken before it included, brings the wallet
\* back (ExportBackup leaves cancelled and deleted wallets out).
EndedWalletsStayEnded ==
  \A d \in Devices : \A j \in stored[d] :
    LET e == timeline[j]
        w == R!GetWallet(d, e.rel)
    IN /\ e.kind = "wallet.cancel" => w.cancel # 0
       /\ e.kind = "wallet.delete" => w.delete # 0
====
