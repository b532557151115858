------------------------------ MODULE DfcCore ------------------------------
(***************************************************************************)
(* The dfc-core node and its database, as Horizon's submission system uses *)
(* them: POST /tx through clients/dfccore, the `accounts` table for the    *)
(* sequence numbers and `txhistory` for the results.  The node's own code  *)
(* is not part of this repository; this module is its environment model.   *)
(*                                                                         *)
(* A transaction of an account is applied only at the account's sequence   *)
(* number plus one and consumes it whether it succeeds or fails.  A ledger *)
(* that applies several transactions is several steps here, which adds     *)
(* intermediate states and loses none.                                     *)
(***************************************************************************)
EXTENDS Naturals, FiniteSets

CONSTANTS
  Accounts,
  Txs,          \* transactions
  Source,       \* Txs -> Accounts, the source account
  SeqNum        \* Txs -> Nat \ {0}, the sequence number

VARIABLES
  exists,       \* the account has a row in `accounts`
  ledgerSeq,    \* its sequence number in the last closed ledger
  mempool,      \* transactions the node holds and has not applied
  result        \* result in `txhistory`, "none" while there is none

vars == <<exists, ledgerSeq, mempool, result>>

Init ==
  /\ exists = [a \in Accounts |-> TRUE]
  /\ ledgerSeq = [a \in Accounts |-> 0]
  /\ mempool = {}
  /\ result = [t \in Txs |-> "none"]

Held(a) == {t \in mempool : Source[t] = a}

(* The node takes a transaction when its sequence number follows the       *)
(* account's and those of the transactions it already holds.               *)
Follows(t) ==
  /\ exists[Source[t]]
  /\ SeqNum[t] = ledgerSeq[Source[t]] + Cardinality(Held(Source[t])) + 1

Take(t) ==
  /\ Follows(t)
  /\ mempool' = mempool \cup {t}
  /\ UNCHANGED <<exists, ledgerSeq, result>>

(* A ledger closes with t in it.                                           *)
Apply(t, r) ==
  /\ t \in mempool
  /\ SeqNum[t] = ledgerSeq[Source[t]] + 1
  /\ mempool' = mempool \ {t}
  /\ ledgerSeq' = [ledgerSeq EXCEPT ![Source[t]] = @ + 1]
  /\ result' = [result EXCEPT ![t] = r]
  /\ UNCHANGED exists

(* After three ledgers without room the node drops a transaction, and with *)
(* it those of the account that come after it.                             *)
Drop(t) ==
  /\ t \in mempool
  /\ mempool' = {u \in mempool : Source[u] = Source[t] => SeqNum[u] < SeqNum[t]}
  /\ UNCHANGED <<exists, ledgerSeq, result>>

(* The account is merged into another one: its row goes away.              *)
Merge(a) ==
  /\ exists[a]
  /\ exists' = [exists EXCEPT ![a] = FALSE]
  /\ mempool' = mempool \ Held(a)
  /\ UNCHANGED <<ledgerSeq, result>>
=============================================================================
