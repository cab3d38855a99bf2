------------------------------ MODULE MC_Codecs ------------------------------
(***************************************************************************)
(* The encodings of src/src/dto checked in one run: the Timelock state     *)
(* machine (timelock.cpp) and the descriptor export and import             *)
(* (sandboxgroup.cpp).  The two share no state, so a behaviour exercises   *)
(* one of them: descriptor steps start from the initial Timelock and       *)
(* Timelock steps from the initial descriptor state, which keeps the state *)
(* space the sum of the two instead of their product.  Each property is    *)
(* about one exported wallet, so a new export waits until the last one was *)
(* read back.                                                              *)
(***************************************************************************)
EXTENDS Timelock, Descriptor

CodecsInit == Init /\ DInit

CodecsNext ==
  \/ Next /\ exported = NoWallet /\ UNCHANGED dvars
  \/ /\ lock = NoLock /\ (exported = NoWallet \/ imported.done)
     /\ \E x \in ValidWallets : Export(x)
     /\ UNCHANGED vars
  \/ Import /\ UNCHANGED vars

CodecsSpec == CodecsInit /\ [][CodecsNext]_<<vars, dvars>>
====
