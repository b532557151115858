---------------------------- MODULE BridgeSender ----------------------------
(***************************************************************************)
(* The sending half of the bridge server: the handlers of /payment (with   *)
(* and without the compliance protocol) and /authorize, the transaction    *)
(* submitter with its in-memory sequence numbers, and the table of sent    *)
(* transactions that makes a request with an id safe to send again.        *)
(*                                                                         *)
(* A step is one call to the database or to Horizon, or one section under  *)
(* a mutex. Loading an account is one step: its mutex is held until the    *)
(* answer is stored. There is one source account.                          *)
(***************************************************************************)
EXTENDS Naturals

CONSTANTS
  Requests,    \* clients
  Ids,         \* the ids a payment may carry
  Pays,        \* request -> its id, or itself when it carries none
  Protocols,   \* functions request -> "standard" or "compliance"
  MaxTries,    \* bound of the model: sending a request not yet recorded
  MaxFaults    \* bound of the model: failed calls, crashes and the like

ASSUME BridgeSenderAssumption ==
  /\ Pays \in [Requests -> Requests \cup Ids] /\ Requests \cap Ids = {}
  /\ \A r \in Requests : Pays[r] \in Ids \cup {r}
  /\ Protocols \subseteq [Requests -> {"standard", "compliance"}]
  /\ MaxTries \in Nat /\ MaxFaults \in Nat

VARIABLES
  protocol,    \* request -> the protocol it uses
  up,          \* whether the server runs
  entry,       \* the source account's entry in TransactionSubmitter.Accounts
  rows,        \* table sent_transaction: payment_id is unique
  handler,     \* request -> its handler
  tries,       \* request -> how often it was sent before it was recorded
  seqNum,      \* the account's sequence number on the ledger
  pool,        \* transactions the network holds
  applied,     \* transactions applied
  failed,      \* transactions that took their number and failed
  faults       \* how many there have been

ledgerVars == <<seqNum, pool, applied, failed>>
vars == <<protocol, up, entry, rows, handler, tries, ledgerVars, faults>>

NoEntry == [made |-> FALSE, number |-> 0]
\* What is paid, under which sequence number.
Tx(pays, seq) == [pays |-> pays, seq |-> seq]
NoTx == [pays |-> "nothing", seq |-> 0]
Idle == [at |-> "idle", tx |-> NoTx, code |-> "none"]

Init ==
  /\ protocol \in Protocols
  /\ up = FALSE
  /\ entry = NoEntry
  /\ rows = {}
  /\ handler = [r \in Requests |-> Idle]
  /\ tries = [r \in Requests |-> 0]
  /\ seqNum = 2
  /\ pool = {} /\ applied = {} /\ failed = {}
  /\ faults = 0

Fault == faults < MaxFaults /\ faults' = faults + 1

-----------------------------------------------------------------------------
(* The network and Horizon.                                                *)

Final == applied \cup failed
\* The number is still free, and every number before it is taken.
Free(tx) == tx.seq > seqNum
InTurn(tx) == \A n \in seqNum + 1 .. tx.seq - 1 : \E u \in pool : u.seq = n

\* The account's number passes n: transactions left behind are forgotten.
Advance(n) == seqNum' = n /\ pool' = {u \in pool : u.seq > n}

(* A ledger closes with a transaction of the pool.                         *)
Apply(tx) ==
  /\ tx.seq = seqNum + 1
  /\ Advance(tx.seq)
  /\ \/ applied' = applied \cup {tx} /\ UNCHANGED <<failed, faults>>
     \/ Fault /\ failed' = failed \cup {tx} /\ UNCHANGED applied
  /\ UNCHANGED <<protocol, up, entry, rows, handler, tries>>

(* The network drops a transaction it held.                                *)
Drop(tx) ==
  /\ Fault
  /\ pool' = pool \ {tx}
  /\ UNCHANGED <<protocol, up, entry, rows, handler, tries, seqNum, applied,
                 failed>>

(* Someone else uses the account.                                          *)
UseElsewhere ==
  /\ Fault
  /\ Advance(seqNum + 1)
  /\ UNCHANGED <<protocol, up, entry, rows, handler, tries, applied, failed>>

-----------------------------------------------------------------------------
(* The server's life.                                                      *)

(* NewApp: the accounts of the configuration are loaded before the server  *)
(* listens; one that a request names in `source` is not.                   *)
StartServer ==
  /\ ~up
  /\ up' = TRUE
  /\ entry' \in {NoEntry, [made |-> TRUE, number |-> seqNum]}
  /\ UNCHANGED <<protocol, rows, handler, tries, ledgerVars, faults>>

Running(r) == handler[r].at \notin {"idle", "ended"}

(* The process stops: the numbers are lost, and the clients get no answer. *)
Crash ==
  /\ up /\ Fault
  /\ up' = FALSE
  /\ entry' = NoEntry
  /\ handler' = [r \in Requests |->
       IF Running(r) THEN [handler[r] EXCEPT !.at = "ended", !.code = "error"]
       ELSE handler[r]]
  /\ UNCHANGED <<protocol, rows, tries, ledgerVars>>

-----------------------------------------------------------------------------
(* The request handlers.                                                   *)

Goto(r, place) == handler' = [handler EXCEPT ![r].at = place]
End(r, code) == handler' = [handler EXCEPT ![r].at = "ended", ![r].code = code]
\* A failed call ends the request with an internal server error.
Fails(r) == Fault /\ End(r, "error")

Recorded(p) == \E row \in rows : row.tx.pays = p

(* A client sends its request, or sends it again when it was not told of a *)
(* success.                                                                *)
Payment(r) ==
  /\ up
  /\ ~Running(r) /\ handler[r].code # "success"
  /\ \/ tries[r] < MaxTries /\ tries' = [tries EXCEPT ![r] = @ + 1]
     \/ /\ Pays[r] \in Ids /\ protocol[r] = "standard" /\ Recorded(Pays[r])
        /\ UNCHANGED tries
  /\ handler' = [handler EXCEPT ![r] = [Idle EXCEPT !.at =
       CASE protocol[r] = "compliance" -> "compliance"
         [] Pays[r] \in Ids -> "lookup"
         [] OTHER -> "load"]]
  /\ UNCHANGED <<protocol, up, entry, rows, ledgerVars, faults>>

(* complianceProtocolPayment asks the compliance server, which may leave   *)
(* the request pending, deny it or fail; the id is not looked up.          *)
ComplianceSend(r) ==
  /\ handler[r].at = "compliance"
  /\ Goto(r, "load") \/ End(r, "error")
  /\ UNCHANGED <<protocol, up, entry, rows, tries, ledgerVars, faults>>

\* A transaction that failed is not submitted again.
GetSentTransactionUnlessFailed(r) ==
  /\ handler[r].at = "lookup"
  /\ \/ Fails(r)
     \/ \E row \in rows : /\ row.tx.pays = Pays[r]
                          /\ handler' = [handler EXCEPT ![r].tx = row.tx,
                               ![r].at = IF row.status = "failure" THEN "ended"
                                         ELSE "resubmit"]
                          /\ UNCHANGED faults
     \/ ~Recorded(Pays[r]) /\ Goto(r, "load") /\ UNCHANGED faults
  /\ UNCHANGED <<protocol, up, entry, rows, tries, ledgerVars>>

\* The payment is built again, with the number at hand.
GetSentTransactionRenumbered(r) ==
  /\ handler[r].at = "lookup"
  /\ \/ Fails(r)
     \/ /\ Recorded(Pays[r])
        /\ handler' = [handler EXCEPT ![r].at = "resubmit",
                                      ![r].tx = Tx(Pays[r], entry.number + 1)]
        /\ UNCHANGED faults
     \/ ~Recorded(Pays[r]) /\ Goto(r, "load") /\ UNCHANGED faults
  /\ UNCHANGED <<protocol, up, entry, rows, tries, ledgerVars>>

(* standardPayment: a recorded transaction is submitted again as it was.   *)
GetSentTransactionByPaymentID(r) ==
  /\ handler[r].at = "lookup"
  /\ \/ Fails(r)
     \/ \E row \in rows : /\ row.tx.pays = Pays[r]
                          /\ handler' = [handler EXCEPT ![r].at = "resubmit",
                                                        ![r].tx = row.tx]
                          /\ UNCHANGED faults
     \/ ~Recorded(Pays[r]) /\ Goto(r, "load") /\ UNCHANGED faults
  /\ UNCHANGED <<protocol, up, entry, rows, tries, ledgerVars>>

-----------------------------------------------------------------------------
(* TransactionSubmitter.                                                   *)

(* LoadAccount: the entry is made before the number is read, so whoever    *)
(* finds it does not wait for the number.                                  *)
LoadAccount(r) ==
  /\ handler[r].at = "load"
  /\ entry' = [entry EXCEPT !.made = TRUE]
  /\ Goto(r, IF entry.made THEN "number" ELSE "read")
  /\ UNCHANGED <<protocol, up, rows, tries, ledgerVars, faults>>

(* ... and its maker reads it, unless it has been used already; when that  *)
(* fails the entry stays.                                                  *)
ReadNumber(r) ==
  /\ handler[r].at = "read"
  /\ \/ /\ entry' = IF entry.number # 0 THEN entry
                    ELSE [entry EXCEPT !.number = seqNum]
        /\ Goto(r, "number")
        /\ UNCHANGED faults
     \/ entry.number = 0 /\ Fails(r) /\ UNCHANGED entry
  /\ UNCHANGED <<protocol, up, rows, tries, ledgerVars>>

TakeNumber(r) ==
  /\ handler[r].at = "number"
  /\ entry' = [entry EXCEPT !.number = @ + 1]
  /\ handler' = [handler EXCEPT ![r].at = "insert",
                                ![r].tx = Tx(Pays[r], entry.number + 1)]
  /\ UNCHANGED <<protocol, up, rows, tries, ledgerVars, faults>>

Sending(tx) == [tx |-> tx, status |-> "sending"]

\* payment_id is not unique.
InsertSentTransactionTwice(r) ==
  LET tx == handler[r].tx IN
  /\ handler[r].at = "insert"
  /\ \/ rows' = rows \cup {Sending(tx)} /\ Goto(r, "submit") /\ UNCHANGED faults
     \/ rows' \in {rows, rows \cup {Sending(tx)}} /\ Fails(r)
  /\ UNCHANGED <<protocol, up, entry, tries, ledgerVars>>

\* A failed insert is logged, and the transaction sent.
InsertSentTransactionIgnored(r) ==
  LET tx == handler[r].tx IN
  /\ handler[r].at = "insert"
  /\ Goto(r, "submit")
  /\ IF tx.pays \in Ids /\ Recorded(tx.pays)
     THEN UNCHANGED <<rows, faults>>
     ELSE \/ rows' = rows \cup {Sending(tx)} /\ UNCHANGED faults
          \/ Fault /\ UNCHANGED rows
  /\ UNCHANGED <<protocol, up, entry, tries, ledgerVars>>

(* The insert breaks on a payment id that is there; it may also fail after *)
(* the row was made, in the query for its new id.                          *)
InsertSentTransaction(r) ==
  LET tx == handler[r].tx IN
  /\ handler[r].at = "insert"
  /\ IF tx.pays \in Ids /\ Recorded(tx.pays)
     THEN End(r, "error") /\ UNCHANGED <<rows, faults>>
     ELSE \/ rows' = rows \cup {Sending(tx)} /\ Goto(r, "submit") /\ UNCHANGED faults
          \/ rows' \in {rows, rows \cup {Sending(tx)}} /\ Fails(r)
  /\ UNCHANGED <<protocol, up, entry, tries, ledgerVars>>

Fresh(r) == handler[r].at \in {"submit", "await"}

(* Horizon posts a transaction whose turn has come.                        *)
Post(r) ==
  LET tx == handler[r].tx IN
  /\ handler[r].at \in {"submit", "resubmit"}
  /\ tx \notin Final /\ Free(tx) /\ InTurn(tx)
  /\ pool' = pool \cup {tx}
  /\ Goto(r, IF Fresh(r) THEN "await" ELSE "reawait")
  /\ UNCHANGED <<protocol, up, entry, rows, tries, seqNum, applied, failed, faults>>

(* What Horizon can answer for a transaction: its result once it is final, *)
(* a bad number when that was taken by another or is too high for its      *)
(* queue, and a timeout while the network holds it or has lost it.         *)
Verdict(tx, posted) ==
  CASE tx \in applied -> "success"
    [] tx \in failed -> "tx_failed"
    [] tx \notin Final /\ ~Free(tx) -> "tx_bad_seq"
    [] posted -> "timeout"
    [] OTHER -> "tx_bad_seq"

\* There is something to answer: a transaction is posted when it can be.
Answerable(tx, posted) == posted \/ ~(tx \notin Final /\ Free(tx) /\ InTurn(tx))

(* SignAndSubmitRawTransaction gets the answer, or none: then the row is   *)
(* left as it is.                                                          *)
Submitted(r) ==
  LET tx == handler[r].tx IN
  /\ Fresh(r)
  /\ \/ /\ Answerable(tx, handler[r].at = "await")
        /\ handler' = [handler EXCEPT ![r].at = "update",
                         ![r].code = Verdict(tx, handler[r].at = "await")]
        /\ UNCHANGED faults
     \/ Fails(r)
  /\ UNCHANGED <<protocol, up, entry, rows, tries, ledgerVars>>

(* standardPayment: any error of a resubmission is an internal error.      *)
Resubmitted(r) ==
  LET tx == handler[r].tx
      posted == handler[r].at = "reawait" IN
  /\ handler[r].at \in {"resubmit", "reawait"}
  /\ \/ /\ Answerable(tx, posted)
        /\ End(r, IF Verdict(tx, posted) = "success" THEN "success" ELSE "error")
        /\ UNCHANGED faults
     \/ Fails(r)
  /\ UNCHANGED <<protocol, up, entry, rows, tries, ledgerVars>>

\* A timeout counts as a success.
AnswerTrustsTimeouts(code) ==
  IF code \in {"success", "timeout"} THEN "success" ELSE "failure"

Answer(code) == IF code = "success" THEN "success" ELSE "failure"

(* The row gets the outcome; a timeout counts as a failure. When the       *)
(* update fails, so does the request, whatever the outcome.                *)
UpdateSentTransaction(r) ==
  LET code == handler[r].code IN
  /\ handler[r].at = "update"
  /\ \/ /\ rows' = {IF row.tx = handler[r].tx THEN [row EXCEPT !.status = Answer(code)]
                    ELSE row : row \in rows}
        /\ IF code = "tx_bad_seq" THEN Goto(r, "resync") ELSE End(r, Answer(code))
        /\ UNCHANGED faults
     \/ Fails(r) /\ UNCHANGED rows
  /\ UNCHANGED <<protocol, up, entry, tries, ledgerVars>>

(* After tx_bad_seq the number is read again.                              *)
SyncSequence(r) ==
  /\ handler[r].at = "resync"
  /\ \/ entry' = [entry EXCEPT !.number = seqNum] /\ UNCHANGED faults
     \/ Fault /\ UNCHANGED entry
  /\ End(r, "failure")
  /\ UNCHANGED <<protocol, up, rows, tries, ledgerVars>>

Handle(r) ==
  \/ ComplianceSend(r) \/ GetSentTransactionByPaymentID(r)
  \/ LoadAccount(r) \/ ReadNumber(r) \/ TakeNumber(r)
  \/ InsertSentTransaction(r) \/ Post(r) \/ Submitted(r) \/ Resubmitted(r)
  \/ UpdateSentTransaction(r) \/ SyncSequence(r)

Next ==
  \/ StartServer \/ Crash \/ UseElsewhere
  \/ \E tx \in pool : Apply(tx) \/ Drop(tx)
  \/ \E r \in Requests : Payment(r) \/ Handle(r)

Spec == Init /\ [][Next]_vars

(* Handlers go on, the server is restarted, ledgers close, and a client    *)
(* sends its request again until it is told of a success.                  *)
Fairness ==
  /\ WF_vars(StartServer)
  /\ WF_vars(\E tx \in pool : Apply(tx))
  /\ \A r \in Requests : WF_vars(Payment(r)) /\ WF_vars(Handle(r))

FairSpec == Spec /\ Fairness

-----------------------------------------------------------------------------
(* Properties.                                                             *)

Places == {"idle", "ended", "compliance", "lookup", "load", "read", "number",
           "insert", "submit", "await", "resubmit", "reawait", "update",
           "resync"}
Codes == {"none", "success", "failure", "error", "timeout", "tx_failed",
          "tx_bad_seq"}
Txs == [pays : Requests \cup Ids, seq : Nat]
Rows == [tx : Txs, status : {"sending", "success", "failure"}]
Handlers == [at : Places, tx : Txs \cup {NoTx}, code : Codes]

(* Types, the unique payment_id, and that only a running server handles.   *)
TypeOK ==
  /\ protocol \in [Requests -> {"standard", "compliance"}]
  /\ up \in BOOLEAN /\ entry \in [made : BOOLEAN, number : Nat]
  /\ rows \subseteq Rows
  /\ \A x, y \in rows : x.tx.pays = y.tx.pays /\ x.tx.pays \in Ids => x = y
  /\ handler \in [Requests -> Handlers]
  /\ \A r \in Requests : Running(r) => up
  /\ tries \in [Requests -> 0 .. MaxTries]
  /\ seqNum \in Nat /\ pool \subseteq Txs /\ Final \subseteq Txs
  /\ \A tx \in pool : Free(tx)
  /\ faults \in 0 .. MaxFaults

(* A payment id is paid once, however many requests carry it at the same   *)
(* time, by either protocol, with lost answers, restarts and numbers that  *)
(* went wrong.                                                             *)
PaidOnce ==
  \A p \in Ids : \A t, u \in applied : t.pays = p /\ u.pays = p => t = u

(* What the network has seen of the server is in the table, envelope and   *)
(* all: a server that stops at any point can send it again.                *)
SentIsRecorded ==
  \A tx \in pool \cup Final : \E row \in rows : row.tx = tx

(* A success, told to a client or kept in the table, was one: of the       *)
(* payment the client asked for, and of the very transaction of the row.   *)
HonestSuccess ==
  /\ \A r \in Requests : handler[r].at = "ended" /\ handler[r].code = "success" =>
       \E tx \in applied : tx.pays = Pays[r]
  /\ \A row \in rows : row.status = "success" => row.tx \in applied

\* Applied, failed, or never to be applied because its number is gone.
Settled(tx) == tx \in Final \/ ~Free(tx)
\* Numbers before it were given to transactions that never got out.
BehindGap(tx) == Free(tx) /\ ~InTurn(tx)

(* A payment with an id that a client keeps sending by the standard        *)
(* protocol is settled, once it is recorded and unless a number before it  *)
(* is missing: also when the answer was lost, the server crashed with the  *)
(* row still "sending", or a timeout marked it a failure and the network   *)
(* dropped it.                                                             *)
RetriedIsSettled ==
  \A p \in Ids :
    Recorded(p) /\ (\E r \in Requests : Pays[r] = p /\ protocol[r] = "standard")
      ~> \A row \in rows : row.tx.pays = p => Settled(row.tx) \/ BehindGap(row.tx)
=============================================================================
