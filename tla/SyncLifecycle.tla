---------------------------- MODULE SyncLifecycle ----------------------------
(***************************************************************************)
(* The connection status machine of ElectrumSynchronizer                   *)
(* (src/src/backend/electrum/synchronizer.cpp) and the worker thread of    *)
(* Synchronizer (src/src/backend/synchronizer.cpp).                        *)
(*                                                                         *)
(* Three actors share status_ under status_mutex_:                         *)
(*  - the owner thread, which calls Run once, may block in WaitForReady    *)
(*    and finally runs the destructor;                                     *)
(*  - the worker thread, running the io_service tasks one at a time: the   *)
(*    connect task posted by Run and the reconnect task posted by the      *)
(*    client's disconnect callback;                                        *)
(*  - the Electrum client, whose connection may drop.                      *)
(* The connect task is split where it releases the lock: constructing the  *)
(* client and moving CONNECTING -> SYNCING is one step, BlockchainSync and *)
(* the move SYNCING -> READY another.                                      *)
(***************************************************************************)
EXTENDS Naturals, Sequences

CONSTANTS
  ConnectCanFail,  \* the ElectrumClient constructor may throw
  MaxDisconnects   \* bound on connection drops

ASSUME ConnectCanFail \in BOOLEAN /\ MaxDisconnects \in Nat

VARIABLES
  status,       \* status_
  tasks,        \* io_service queue: "connect" / "reconnect" tasks
  worker,       \* "idle", or "sync" while the connect task runs BlockchainSync
  client,       \* client_: "none", "up" (connected) or "down" (dropped)
  owner,        \* owner thread: "init", "waiting", "running", "stopping", "done"
  workGuard,    \* sync_worker_: the work guard keeping io_service::run alive
  disconnects   \* connection drops so far

vars == <<status, tasks, worker, client, owner, workGuard, disconnects>>

Statuses == {"UNINITIALIZED", "CONNECTING", "SYNCING", "READY", "STOPPED"}
Tasks == {"connect", "reconnect"}

\* Run(): leave a stopped synchronizer alone, otherwise go CONNECTING and
\* post the connect task (the caches it clears are modelled in WalletSync).
RunBody ==
  IF status = "STOPPED"
  THEN UNCHANGED <<status, tasks>>
  ELSE /\ status' = "CONNECTING"
       /\ tasks' = Append(tasks, "connect")

Init ==
  /\ status = "UNINITIALIZED"
  /\ tasks = <<>>
  /\ worker = "idle"
  /\ client = "none"
  /\ owner = "init"
  /\ workGuard = TRUE
  /\ disconnects = 0

(***************************************************************************)
(* Owner thread.                                                           *)
(***************************************************************************)
\* The application starts the synchronizer and waits for it.
OwnerRun ==
  /\ owner = "init"
  /\ RunBody
  /\ owner' = "waiting"
  /\ UNCHANGED <<worker, client, workGuard, disconnects>>

\* WaitForReady returns once status_ is READY or SYNCING.
WaitForReady ==
  /\ owner = "waiting"
  /\ status \in {"READY", "SYNCING"}
  /\ owner' = "running"
  /\ UNCHANGED <<status, tasks, worker, client, workGuard, disconnects>>

\* Mutant: the destructor keeps the work guard.
DestroyKeepingGuard ==
  /\ owner = "running"
  /\ status' = "STOPPED"
  /\ owner' = "stopping"
  /\ UNCHANGED <<tasks, worker, client, workGuard, disconnects>>

\* ~ElectrumSynchronizer, first half: STOPPED under the lock, then the work
\* guard is released (sync_worker_.reset()).
Destroy ==
  /\ owner = "running"
  /\ status' = "STOPPED"
  /\ owner' = "stopping"
  /\ workGuard' = FALSE
  /\ UNCHANGED <<tasks, worker, client, disconnects>>

\* sync_thread_.join(): io_service::run returns once no task is queued or
\* running and the work guard is gone.
Joined ==
  /\ owner = "stopping"
  /\ ~workGuard
  /\ tasks = <<>>
  /\ worker = "idle"
  /\ owner' = "done"
  /\ UNCHANGED <<status, tasks, worker, client, workGuard, disconnects>>

(***************************************************************************)
(* Worker thread.                                                          *)
(***************************************************************************)
\* Connect task: the client is built; then, under the lock, CONNECTING
\* becomes SYNCING (any other status ends the task).
ConnectOk ==
  /\ worker = "idle"
  /\ tasks # <<>> /\ Head(tasks) = "connect"
  /\ client' = "up"
  /\ IF status = "CONNECTING"
     THEN status' = "SYNCING" /\ worker' = "sync"
     ELSE UNCHANGED <<status, worker>>
  /\ tasks' = Tail(tasks)
  /\ UNCHANGED <<owner, workGuard, disconnects>>

\* Connect task: the ElectrumClient constructor throws; status_ becomes
\* UNINITIALIZED and the task returns.  client_ is never assigned, so it
\* keeps the previous (dropped) client, or none on the first Run.
ConnectFail ==
  /\ ConnectCanFail
  /\ worker = "idle"
  /\ tasks # <<>> /\ Head(tasks) = "connect"
  /\ status' = "UNINITIALIZED"
  /\ tasks' = Tail(tasks)
  /\ UNCHANGED <<worker, client, owner, workGuard, disconnects>>

\* Connect task, second half: BlockchainSync returns (its exceptions are
\* swallowed) and, under the lock, SYNCING becomes READY.
SyncDone ==
  /\ worker = "sync"
  /\ worker' = "idle"
  /\ status' = IF status = "SYNCING" THEN "READY" ELSE status
  /\ UNCHANGED <<tasks, client, owner, workGuard, disconnects>>

\* Reconnect task: sleep RECONNECT_DELAY_SECOND, then Run().
Reconnect ==
  /\ worker = "idle"
  /\ tasks # <<>> /\ Head(tasks) = "reconnect"
  /\ \/ /\ status = "STOPPED"
        /\ tasks' = Tail(tasks)
        /\ UNCHANGED status
     \/ /\ status # "STOPPED"
        /\ status' = "CONNECTING"
        /\ tasks' = Append(Tail(tasks), "connect")
  /\ UNCHANGED <<worker, client, owner, workGuard, disconnects>>

(***************************************************************************)
(* Electrum client.                                                        *)
(***************************************************************************)
\* The connection drops; the callback passed to the client posts a
\* reconnect task.
Disconnect ==
  /\ client = "up"
  /\ disconnects < MaxDisconnects
  /\ client' = "down"
  /\ tasks' = Append(tasks, "reconnect")
  /\ disconnects' = disconnects + 1
  /\ UNCHANGED <<status, worker, owner, workGuard>>

Next ==
  \/ OwnerRun \/ WaitForReady \/ Destroy \/ Joined
  \/ ConnectOk \/ ConnectFail \/ SyncDone \/ Reconnect
  \/ Disconnect

\* The worker runs its queued tasks and the owner's waits return when
\* enabled; the owner never has to destroy the synchronizer, nor the
\* connection to drop.
Spec ==
  /\ Init /\ [][Next]_vars
  /\ WF_vars(WaitForReady) /\ WF_vars(Joined)
  /\ WF_vars(ConnectOk) /\ WF_vars(ConnectFail) /\ WF_vars(SyncDone)
  /\ WF_vars(Reconnect)

(***************************************************************************)
(* Properties.                                                             *)
(***************************************************************************)
TypeOK ==
  /\ status \in Statuses
  /\ tasks \in Seq(Tasks)
  /\ worker \in {"idle", "sync"}
  /\ client \in {"none", "up", "down"}
  /\ owner \in {"init", "waiting", "running", "stopping", "done"}
  /\ workGuard \in BOOLEAN
  /\ disconnects \in 0..MaxDisconnects

\* STOPPED, set by the destructor, is terminal: no later Run, connect task
\* or end of BlockchainSync moves the synchronizer out of it.
StoppedAbsorbing ==
  [][status = "STOPPED" => status' = "STOPPED"]_vars

\* WaitForReady returns: after Run, the connect/reconnect tasks bring the
\* synchronizer to SYNCING or READY.
WaitForReadyReturns ==
  owner = "waiting" ~> owner = "running"

\* Once the connection stops dropping and the synchronizer is not being
\* destroyed, it ends up READY with a live client: a reconnect is never
\* left half done.
EventuallyOnline ==
  <>[](owner = "running" /\ disconnects = MaxDisconnects)
    => <>[](status = "READY" /\ client = "up")

\* The destructor's join returns: the worker drains its queue after STOPPED.
DestructorReturns ==
  owner = "stopping" ~> owner = "done"
====
