-------------------------- MODULE SyncAddressSpace --------------------------
(***************************************************************************)
(* The synchronizer's lifecycle (SyncLifecycle) together with NewAddress   *)
(* and the address table (AddressSpace).  They share status_: LookAhead,   *)
(* SupportBatchLookAhead and BatchLookAhead read it under status_mutex_.   *)
(* Run, posted by the owner and by the reconnect task, resets the          *)
(* subscriptions; the connect task's BlockchainSync ends in SyncDone.      *)
(***************************************************************************)
EXTENDS Naturals

CONSTANTS ConnectCanFail, MaxDisconnects,
          GapLimit, CacheAhead, BatchModes, PayIdx, MaxIdx, MaxPays, MaxCalls

VARIABLES status, tasks, worker, client, owner, workGuard, disconnects,
          srv, pays, rows, cache, subscribed, notif, pc, index, issued

L == INSTANCE SyncLifecycle
A == INSTANCE AddressSpace

lvars == <<status, tasks, worker, client, owner, workGuard, disconnects>>
avars == <<srv, pays, rows, cache, subscribed, notif, pc, index, issued>>
vars == <<lvars, avars>>

Init == L!Init /\ A!AInit

\* Lifecycle steps that run Run() or end BlockchainSync carry the address
\* side with them; the others leave it alone.
OwnerRun == L!OwnerRun /\ A!RunReset
Reconnect == L!Reconnect /\ A!RunReset
SyncDone == L!SyncDone /\ A!BlockchainSync
WaitForReady == L!WaitForReady /\ UNCHANGED avars
Destroy == L!Destroy /\ UNCHANGED avars
Joined == L!Joined /\ UNCHANGED avars
ConnectOk == L!ConnectOk /\ UNCHANGED avars
ConnectFail == L!ConnectFail /\ UNCHANGED avars
Disconnect == L!Disconnect /\ UNCHANGED avars

\* Address steps leave the lifecycle alone.
Pay == \E i \in PayIdx : A!Pay(i) /\ UNCHANGED lvars
OnScripthashStatusChange == A!OnScripthashStatusChange /\ UNCHANGED lvars
NewAddress == A!NewAddress /\ UNCHANGED lvars
LookAheadStep == A!LookAheadStep /\ UNCHANGED lvars
BatchStep == A!BatchStep /\ UNCHANGED lvars

Next ==
  \/ OwnerRun \/ Reconnect \/ SyncDone \/ WaitForReady \/ Destroy \/ Joined
  \/ ConnectOk \/ ConnectFail \/ Disconnect
  \/ Pay \/ OnScripthashStatusChange \/ NewAddress \/ LookAheadStep \/ BatchStep

\* SyncLifecycle's fairness: the worker runs its queued tasks and the
\* owner's waits return when enabled.
Spec ==
  /\ Init /\ [][Next]_vars
  /\ WF_vars(WaitForReady) /\ WF_vars(Joined)
  /\ WF_vars(ConnectOk) /\ WF_vars(ConnectFail)
  /\ WF_vars(SyncDone) /\ WF_vars(Reconnect)

\* SyncLifecycle's and AddressSpace's properties, on the composition.
DestructorReturns == L!DestructorReturns
IssuedIncreasing == A!IssuedIncreasing
NoAddressReuse == A!NoAddressReuse
====
