----------------------------- MODULE TxLifecycle -----------------------------
(***************************************************************************)
(* What the transaction store promises about the status of a transaction  *)
(* (spec section 4.3): a PSBT is created unsigned (PENDING_SIGNATURES),    *)
(* and created again is unsigned again,                                    *)
(* becomes READY_TO_BROADCAST once signed and may be deleted while         *)
(* unbroadcast; a published transaction is PENDING_CONFIRMATION or         *)
(* CONFIRMED; publishing a fee bump may turn the pending transaction it    *)
(* replaces into REPLACED; a pending or replaced transaction may confirm;  *)
(* CONFIRMED is final.  "NONE" is a transaction the store does not hold.   *)
(* NETWORK_REJECTED is not modelled.                                       *)
(***************************************************************************)
CONSTANTS Txs, Funded, Replaces, NoTx

VARIABLE status   \* status[t]: the TransactionStatus the store shows for t

Unbroadcast == {"PENDING_SIGNATURES", "READY_TO_BROADCAST"}
Published == {"PENDING_CONFIRMATION", "CONFIRMED"}

LInit == status = [t \in Txs |-> IF t \in Funded THEN "CONFIRMED" ELSE "NONE"]

\* Creating t again while it is a PSBT replaces it with the new, unsigned
\* one (spec 4.3: on conflict the payload is overwritten).
LCreate(t) ==
  /\ status[t] \in Unbroadcast \cup {"NONE"}
  /\ status' = [status EXCEPT ![t] = "PENDING_SIGNATURES"]

LSign(t) ==
  /\ status[t] = "PENDING_SIGNATURES"
  /\ status' = [status EXCEPT ![t] = "READY_TO_BROADCAST"]

LDelete(t) ==
  /\ status[t] \in Unbroadcast
  /\ status' = [status EXCEPT ![t] = "NONE"]

\* t is published (by this wallet or learnt from the server) with status s;
\* when `marks`, the pending tx t replaces becomes REPLACED in the same step.
LPublish(t, s, marks) ==
  LET old == Replaces[t] IN
  /\ status[t] \in Unbroadcast \cup {"NONE"}
  /\ marks => old # NoTx /\ status[old] = "PENDING_CONFIRMATION"
  /\ status' = [u \in Txs |-> CASE u = t -> s
                                [] marks /\ u = old -> "REPLACED"
                                [] OTHER -> status[u]]

LConfirm(t) ==
  /\ status[t] \in {"PENDING_CONFIRMATION", "REPLACED"}
  /\ status' = [status EXCEPT ![t] = "CONFIRMED"]

LNext ==
  \E t \in Txs :
    \/ LCreate(t) \/ LSign(t) \/ LDelete(t) \/ LConfirm(t)
    \/ \E s \in Published, marks \in BOOLEAN : LPublish(t, s, marks)

LSpec == LInit /\ [][LNext]_status
====
