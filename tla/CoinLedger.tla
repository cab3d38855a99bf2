----------------------------- MODULE CoinLedger -----------------------------
(***************************************************************************)
(* The coin view of a wallet (NunchukWalletDb, src/unnamed/part_001):      *)
(* GetCoinsFromTransactions replays the stored transactions in the order   *)
(* GetTransactions returns them and derives the status of every owned      *)
(* output; GetBalance sums the coins.  Pure operators over a store `rows`: *)
(* a function from the stored tx ids to                                    *)
(*   [h |-> HEIGHT, signed |-> signatures complete,                        *)
(*    replace |-> extra.replace_txid, replacedBy |-> extra.replaced_by_txid]*)
(***************************************************************************)
EXTENDS Integers, FiniteSets, Sequences, SequencesExt, FiniteSetsExt

CONSTANTS
  Txs,      \* transaction ids
  ExtTx,    \* a transaction outside the wallet, funding the first input
  NoTx,     \* "no txid" in extra
  Inputs,   \* Inputs[t]: the coins <<txid, vout>> t spends
  Outputs   \* Outputs[t]: sequence of [own |-> "mine"/"change"/"ext", amt |-> n]

ASSUME NoTx \notin Txs /\ ExtTx \notin Txs

Vouts(t) == 0 .. Len(Outputs[t]) - 1
CoinIds == UNION {{<<t, v>> : v \in Vouts(t)} : t \in Txs}
OutOf(c) == Outputs[c[1]][c[2] + 1]
\* IsMyAddress / IsMyChange of the address of output c
IsMine(c) == OutOf(c).own # "ext"
IsChange(c) == OutOf(c).own = "change"

(***************************************************************************)
(* Transaction status as GetTransaction reports it: GetTransactionFromStr  *)
(* derives it from the height and the signatures, then FillExtra turns a   *)
(* PENDING_CONFIRMATION tx with replaced_by_txid into REPLACED.            *)
(***************************************************************************)
TxStatus(r) ==
  IF r.h = -1 THEN IF r.signed THEN "READY_TO_BROADCAST" ELSE "PENDING_SIGNATURES"
  ELSE IF r.h = 0 THEN IF r.replacedBy # NoTx THEN "REPLACED"
                                           ELSE "PENDING_CONFIRMATION"
  ELSE "CONFIRMED"

\* CoinStatus in declaration order; set_status compares these ranks.
CoinRank == [INCOMING_PENDING_CONFIRMATION |-> 0, CONFIRMED |-> 1,
             OUTGOING_PENDING_SIGNATURES |-> 2, OUTGOING_PENDING_BROADCAST |-> 3,
             OUTGOING_PENDING_CONFIRMATION |-> 4, SPENT |-> 5]
CoinStatuses == DOMAIN CoinRank

\* The status an input gets from the status of the tx spending it.
SpendStatus(s) ==
  CASE s = "CONFIRMED"            -> "SPENT"
    [] s = "PENDING_CONFIRMATION" -> "OUTGOING_PENDING_CONFIRMATION"
    [] s = "READY_TO_BROADCAST"   -> "OUTGOING_PENDING_BROADCAST"
    [] s = "PENDING_SIGNATURES"   -> "OUTGOING_PENDING_SIGNATURES"

\* The status an output gets from the height of the tx creating it.
OutputStatus(r) == IF r.h > 0 THEN "CONFIRMED" ELSE "INCOMING_PENDING_CONFIRMATION"

(***************************************************************************)
(* GetCoinsFromTransactions, pass 1: used_by maps each input of a tx with  *)
(* height > 0 to that tx.  A tx is invalid when one of its inputs is used  *)
(* by another tx.                                                          *)
(***************************************************************************)
\* Mutant: used_by also records the inputs of unconfirmed txs.
UsedByAllHeights(rows) ==
  UNION {{<<c, t>> : c \in Inputs[t]} : t \in DOMAIN rows}

UsedBy(rows) ==
  UNION {{<<c, t>> : c \in Inputs[t]} : t \in {u \in DOMAIN rows : rows[u].h > 0}}

Invalid(rows, t) == \E c \in Inputs[t], u \in DOMAIN rows :
                      u # t /\ <<c, u>> \in UsedBy(rows)

\* Skipped in pass 2: REPLACED (NETWORK_REJECTED is not modelled) or invalid.
Skipped(rows, t) == TxStatus(rows[t]) = "REPLACED" \/ Invalid(rows, t)

\* The owned coins a tx spends: the previous tx is stored and its output
\* address is mine.
SpentCoins(rows, t) == {c \in Inputs[t] : c[1] \in DOMAIN rows /\ IsMine(c)}
CreatedCoins(t) == {<<t, v>> : v \in {x \in Vouts(t) : IsMine(<<t, x>>)}}

\* set_status: coins[id] (created with the lowest status on first access)
\* takes `s` when that is higher.
SetStatus(coins, id, s) ==
  IF id \in DOMAIN coins /\ CoinRank[coins[id]] >= CoinRank[s]
  THEN coins
  ELSE [x \in DOMAIN coins \cup {id} |-> IF x = id THEN s ELSE coins[x]]

\* Pass 2 for one tx: its spent inputs, then its owned outputs.
ApplyTx(rows, t, coins) ==
  IF Skipped(rows, t) THEN coins
  ELSE LET spent == FoldSet(LAMBDA c, acc :
                              SetStatus(acc, c, SpendStatus(TxStatus(rows[t]))),
                            coins, SpentCoins(rows, t))
       IN FoldSet(LAMBDA c, acc : SetStatus(acc, c, OutputStatus(rows[t])),
                  spent, CreatedCoins(t))

RECURSIVE Replay(_, _, _)
Replay(rows, seq, coins) ==
  IF seq = <<>> THEN coins
  ELSE Replay(rows, Tail(seq), ApplyTx(rows, Head(seq), coins))

\* GetCoinsFromTransactions(transactions) for `seq`, the stored txs in
\* GetTransactions order: coin id -> CoinStatus.
GetCoinsFromTransactions(rows, seq) ==
  Replay(rows, seq, [c \in {} |-> "SPENT"])

\* GetBalance(include_mempool) skips the coins that are SPENT or
\* OUTGOING_PENDING_CONFIRMATION and, without the mempool, the unconfirmed
\* incoming coins of non-change addresses; it sums the others.
Counted(coins, c, includeMempool) ==
  /\ coins[c] \notin {"SPENT", "OUTGOING_PENDING_CONFIRMATION"}
  /\ (~includeMempool /\ ~IsChange(c)) => coins[c] # "INCOMING_PENDING_CONFIRMATION"

GetBalance(coins, includeMempool) ==
  FoldSet(LAMBDA c, acc : acc + OutOf(c).amt, 0,
          {c \in DOMAIN coins : Counted(coins, c, includeMempool)})
====
