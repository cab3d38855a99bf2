---------------------------- MODULE AddressSpace ----------------------------
(***************************************************************************)
(* Handing out receive addresses: Synchronizer::NewAddress                 *)
(* (src/src/backend/synchronizer.cpp) with the look-ahead of               *)
(* ElectrumSynchronizer (LookAhead, SupportBatchLookAhead, BatchLookAhead, *)
(* src/src/backend/electrum/synchronizer.cpp), over the ADDRESS table and  *)
(* the address cache of NunchukWalletDb (src/unnamed/part_001).            *)
(*                                                                         *)
(* One non-escrow wallet and one branch (external); an address is its      *)
(* derivation index.  A status is abstracted to the number of server       *)
(* history changes of the address, 0 being the empty status.  Three        *)
(* actors: the server (payments to addresses, given out earlier or by a    *)
(* cosigner's device), the client's notification callback                  *)
(* (UpdateScripthashStatus), and one application thread calling           *)
(* NewAddress.  The synchronizer's status_ is read, never written: the     *)
(* module is composed with SyncLifecycle in SyncAddressSpace.              *)
(***************************************************************************)
EXTENDS Integers, FiniteSets, Sequences, FiniteSetsExt, TLC

CONSTANTS
  GapLimit,      \* wallet.get_gap_limit()
  CacheAhead,    \* ADDRESS_LOOK_AHEAD of GetAllAddressData
  BatchModes,    \* values client_->support_batch_requests() may take
  PayIdx,        \* indexes the server may see paid
  MaxIdx,        \* highest index the model derives
  MaxPays,       \* bound on server history changes
  MaxCalls       \* bound on NewAddress calls

ASSUME GapLimit \in Nat \ {0} /\ CacheAhead \in Nat \ {0}
ASSUME BatchModes \subseteq BOOLEAN /\ BatchModes # {}
ASSUME PayIdx \subseteq 0..MaxIdx /\ MaxPays \in Nat /\ MaxCalls \in Nat

VARIABLES
  status,      \* the synchronizer's status_ (SyncLifecycle), read only
  srv,         \* srv[i]: server status of address i
  pays,        \* server history changes so far
  rows,        \* ADDRESS table: IDX -> status part of UTXO (0 for '')
  cache,       \* addr_cache_: indexes GetAllAddressData returns
  subscribed,  \* indexes in scripthash_to_wallet_address_
  notif,       \* pending scripthash notifications <<index, status>>
  pc,          \* NewAddress: "idle", "batch" or "seq" (its look-ahead loop)
  index,       \* NewAddress's local index
  issued       \* ghost: the NewAddress results, [idx, seen] records in order

avars == <<srv, pays, rows, cache, subscribed, notif, pc, index, issued>>

Idx == 0..MaxIdx

(***************************************************************************)
(* NunchukWalletDb.                                                        *)
(***************************************************************************)
\* GetAddressStatus: the status part of the stored UTXO, '' without a row.
GetAddressStatus(i) == IF i \in DOMAIN rows THEN rows[i] ELSE 0

\* Mutant of GetCurrentAddressIndex: only rows with USED = 1 count.
GetCurrentAddressIndexUsed ==
  LET used == {i \in DOMAIN rows : rows[i] # 0} IN
  IF used = {} THEN -1 ELSE Max(used)

\* GetCurrentAddressIndex: SELECT MAX(IDX), -1 for an empty table.
GetCurrentAddressIndex == IF DOMAIN rows = {} THEN -1 ELSE Max(DOMAIN rows)

\* SetAddress: INSERT, or ON CONFLICT(ADDR) overwrite USED and UTXO.
SetAddress(r, i, st) == (i :> st) @@ r

\* AddAddress: SetAddress with an empty UTXO (the address then joins the
\* cache unless IsMyAddress).
AddAddress(r, i) == SetAddress(r, i, 0)

\* SetUtxos: only an address of GetAllAddressData is written.
SetUtxos(r, i, st) == IF i \in cache THEN SetAddress(r, i, st) ELSE r

(***************************************************************************)
(* Server and notification callback.                                       *)
(***************************************************************************)
\* A payment to address i changes its server status; a subscribed address
\* is notified.
Pay(i) ==
  /\ pays < MaxPays
  /\ pays' = pays + 1
  /\ srv' = [srv EXCEPT ![i] = pays + 1]
  /\ notif' = IF i \in subscribed THEN Append(notif, <<i, pays + 1>>) ELSE notif
  /\ UNCHANGED <<status, rows, cache, subscribed, pc, index, issued>>

\* OnScripthashStatusChange -> UpdateScripthashStatus: an empty status or
\* an unknown scripthash is ignored; otherwise the history is stored
\* (WalletSync) and SetUtxos records the notified status.
OnScripthashStatusChange ==
  /\ notif # <<>>
  /\ LET i == Head(notif)[1]
         st == Head(notif)[2]
     IN rows' = IF st # 0 /\ i \in subscribed THEN SetUtxos(rows, i, st) ELSE rows
  /\ notif' = Tail(notif)
  /\ UNCHANGED <<status, srv, pays, cache, subscribed, pc, index, issued>>

(***************************************************************************)
(* NewAddress on the application thread.                                   *)
(***************************************************************************)
\* LookAhead, SupportBatchLookAhead and BatchLookAhead give up unless
\* status_ is READY or SYNCING.
Online == status \in {"READY", "SYNCING"}

\* NewAddress, up to its loop: index = GetCurrentAddressIndex + 1, and
\* SupportBatchLookAhead picks the loop.
NewAddress ==
  /\ pc = "idle"
  /\ Len(issued) < MaxCalls
  /\ index' = GetCurrentAddressIndex + 1
  /\ \E b \in BatchModes : pc' = IF Online /\ b THEN "batch" ELSE "seq"
  /\ UNCHANGED <<status, srv, pays, rows, cache, subscribed, notif, issued>>

\* One LookAhead(index) of the sequential loop and what NewAddress does
\* with it.  Offline, LookAhead returns false at once.  Online it
\* subscribes the address; both statuses empty means unused; a status that
\* differs from the stored one is AddAddress'ed and handed to
\* UpdateScripthashStatus, which stores it when non-empty.  On false the
\* address is AddAddress'ed and returned, otherwise the next index is tried.
LookAheadStep ==
  /\ pc = "seq"
  /\ index <= MaxIdx
  /\ LET sub == srv[index]
         prev == GetAddressStatus(index)
     IN /\ subscribed' = IF Online THEN subscribed \cup {index} ELSE subscribed
        /\ IF ~Online \/ (sub = 0 /\ prev = 0)
           THEN /\ rows' = AddAddress(rows, index)
                /\ cache' = cache \cup {index}
                /\ issued' = Append(issued, [idx |-> index, seen |-> Online /\ sub # 0])
                /\ pc' = "idle"
                /\ UNCHANGED index
           ELSE /\ IF sub # prev
                   THEN /\ rows' = SetAddress(rows, index, sub)
                        /\ cache' = cache \cup {index}
                   ELSE UNCHANGED <<rows, cache>>
                /\ index' = index + 1
                /\ UNCHANGED <<pc, issued>>
  /\ UNCHANGED <<status, srv, pays, notif>>

\* BatchLookAhead's lastUsedIdx: the highest window position whose status
\* changed to a non-empty one.
BatchWindowLast(used) == Max({k \in 0..GapLimit - 1 : index + k \in used} \cup {-1})

\* One BatchLookAhead over the window index .. index+gap-1 and what
\* NewAddress does with its result: SubscribeAddresses; every address whose
\* status differs from the stored one is AddAddress'ed, the non-empty ones
\* are handed to UpdateScripthashesStatus; below the last window position
\* the address after lastUsedIdx is returned, else the window moves on.
BatchStep ==
  /\ pc = "batch"
  /\ index + GapLimit - 1 <= MaxIdx
  /\ LET W == index .. index + GapLimit - 1
         changed == IF Online THEN {i \in W : srv[i] # GetAddressStatus(i)} ELSE {}
         used == {i \in changed : srv[i] # 0}
         last == BatchWindowLast(used)
         a == index + last + 1
         rows1 == [i \in DOMAIN rows \cup changed |->
                     IF i \in changed THEN srv[i] ELSE rows[i]]
     IN /\ subscribed' = IF Online THEN subscribed \cup W ELSE subscribed
        /\ IF last < GapLimit - 1
           THEN /\ rows' = AddAddress(rows1, a)
                /\ cache' = cache \cup changed \cup {a}
                /\ issued' = Append(issued, [idx |-> a, seen |-> Online /\ srv[a] # 0])
                /\ pc' = "idle"
                /\ UNCHANGED index
           ELSE /\ rows' = rows1
                /\ cache' = cache \cup changed
                /\ index' = index + GapLimit
                /\ UNCHANGED <<pc, issued>>
  /\ UNCHANGED <<status, srv, pays, notif>>

(***************************************************************************)
(* Steps of the synchronizer's worker (taken with SyncLifecycle's).        *)
(***************************************************************************)
\* Run: a move to CONNECTING clears scripthash_to_wallet_address_ and
\* replaces the client, whose pending notifications are lost.
RunReset ==
  /\ IF status' = "CONNECTING"
     THEN subscribed' = {} /\ notif' = <<>>
     ELSE UNCHANGED <<subscribed, notif>>
  /\ UNCHANGED <<srv, pays, rows, cache, pc, index, issued>>

\* BlockchainSync of the connect task: it returns at once unless status_ is
\* READY or SYNCING; otherwise SubscribeAddresses of GetAllAddresses, and
\* every non-empty status that differs from the stored one goes through
\* UpdateScripthashStatus to SetUtxos.
BlockchainSync ==
  /\ IF Online
     THEN /\ subscribed' = subscribed \cup cache
          /\ rows' = [i \in DOMAIN rows \cup {j \in cache : srv[j] # 0} |->
                       IF i \in cache /\ srv[i] # 0 THEN srv[i] ELSE rows[i]]
     ELSE UNCHANGED <<subscribed, rows>>
  /\ UNCHANGED <<srv, pays, cache, notif, pc, index, issued>>

(***************************************************************************)
(* Specification (status_ is driven by SyncLifecycle).                     *)
(***************************************************************************)
\* A fresh wallet: no rows; GetAllAddressData has filled the cache with
\* indexes 0 .. GetCurrentAddressIndex + ADDRESS_LOOK_AHEAD.
AInit ==
  /\ srv = [i \in Idx |-> 0]
  /\ pays = 0
  /\ rows = [i \in {} |-> 0]
  /\ cache = 0 .. CacheAhead - 1
  /\ subscribed = {}
  /\ notif = <<>>
  /\ pc = "idle"
  /\ index = 0
  /\ issued = <<>>

ANext ==
  \/ \E i \in PayIdx : Pay(i)
  \/ OnScripthashStatusChange
  \/ NewAddress
  \/ LookAheadStep
  \/ BatchStep

(***************************************************************************)
(* Properties.                                                             *)
(***************************************************************************)
\* NewAddress never hands out an address whose server status its own
\* look-ahead has just seen non-empty: an address with history is treated
\* as used, also when that status is already stored (spec: NewAddress
\* never allocates from inside an already-used gap).
NoAddressReuse == \A k \in 1..Len(issued) : ~issued[k].seen

\* Successive NewAddress calls hand out strictly increasing indexes: the
\* AddAddress of a result raises GetCurrentAddressIndex past it (spec:
\* twice in a row on an empty wallet gives 0 then 1).
IssuedIncreasing ==
  \A j, k \in 1..Len(issued) : j < k => issued[j].idx < issued[k].idx

====
