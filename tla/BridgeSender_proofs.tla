------------------------- MODULE BridgeSender_proofs -------------------------
(***************************************************************************)
(* Proofs about the sending half of the bridge server, for any clients,    *)
(* ids, protocols and bounds.                                              *)
(***************************************************************************)
EXTENDS BridgeSender, TLAPS

\* Places after the insert, and those where a handler has its transaction.
Sent == {"submit", "await", "update", "resync", "resubmit", "reawait"}
Holding == Sent \cup {"insert"}

(* A handler's transaction pays what its client asked for; after the       *)
(* insert, or when it was found there, it is in the table.                 *)
HandlerInv ==
  \A r \in Requests :
    /\ handler[r].at \in Holding => handler[r].tx \in Txs /\ handler[r].tx.pays = Pays[r]
    /\ handler[r].at \in Sent => \E row \in rows : row.tx = handler[r].tx
    /\ handler[r].at = "update" /\ handler[r].code = "success" =>
         handler[r].tx \in applied

IInv == TypeOK /\ HandlerInv /\ SentIsRecorded /\ HonestSuccess

\* The type of the account's entry.
EntryType == [made : BOOLEAN, number : Nat]

LEMMA NoEntryType == NoEntry \in EntryType
<1>1. 0 \in Nat
  OBVIOUS
<1> QED BY <1>1, Zenon DEF NoEntry, EntryType

LEMMA InitInv == Init => IInv
<1> SUFFICES ASSUME Init PROVE IInv
  OBVIOUS
<1>1. Idle \in Handlers /\ Idle.at = "idle" /\ Idle.code = "none"
  BY DEF Idle, Handlers, Places, Codes
<1>2. handler = [r \in Requests |-> Idle] /\ rows = {} /\ pool = {} /\ Final = {}
  BY DEF Init, Final
<1>3. /\ protocol \in [Requests -> {"standard", "compliance"}]
      /\ tries \in [Requests -> 0 .. MaxTries]
      /\ seqNum \in Nat /\ faults \in 0 .. MaxFaults
  BY BridgeSenderAssumption DEF Init
<1>4. TypeOK
  <2>1. up \in BOOLEAN /\ entry \in EntryType
    BY NoEntryType DEF Init
  <2> QED BY <1>1, <1>2, <1>3, <2>1 DEF TypeOK, Running, EntryType
<1>5. HandlerInv
  BY <1>1, <1>2 DEF HandlerInv, Sent, Holding
<1>6. SentIsRecorded /\ HonestSuccess
  BY <1>1, <1>2 DEF SentIsRecorded, HonestSuccess
<1> QED BY <1>4, <1>5, <1>6 DEF IInv

-----------------------------------------------------------------------------
(* The network.                                                            *)

LEMMA ApplyInv ==
  ASSUME IInv, NEW tx \in pool, Apply(tx)
  PROVE  IInv'
<1> USE DEF IInv
<1>1. /\ UNCHANGED <<protocol, up, entry, rows, handler, tries>>
      /\ seqNum' = tx.seq /\ pool' = {u \in pool : u.seq > tx.seq}
      /\ faults' \in 0 .. MaxFaults
      /\ applied \subseteq applied' /\ Final' = Final \cup {tx}
  BY BridgeSenderAssumption DEF Apply, Advance, Fault, Final, TypeOK
<1>2. tx \in Txs /\ tx.seq \in Nat
  BY DEF TypeOK, Txs
<1>3. TypeOK'
  BY <1>1, <1>2 DEF TypeOK, Free, Running
<1>4. HandlerInv'
  BY <1>1 DEF HandlerInv
<1>5. SentIsRecorded'
  BY <1>1 DEF SentIsRecorded
<1>6. HonestSuccess'
  BY <1>1 DEF HonestSuccess
<1> QED BY <1>3, <1>4, <1>5, <1>6

LEMMA DropInv ==
  ASSUME IInv, NEW tx \in pool, Drop(tx)
  PROVE  IInv'
<1> USE DEF IInv
<1>1. /\ UNCHANGED <<protocol, up, entry, rows, handler, tries, seqNum, applied, failed>>
      /\ pool' \subseteq pool /\ faults' \in 0 .. MaxFaults
  BY BridgeSenderAssumption DEF Drop, Fault, TypeOK
<1>2. TypeOK'
  BY <1>1 DEF TypeOK, Free, Running, Final
<1>3. HandlerInv' /\ SentIsRecorded' /\ HonestSuccess'
  BY <1>1 DEF HandlerInv, SentIsRecorded, HonestSuccess, Final
<1> QED BY <1>2, <1>3

LEMMA UseElsewhereInv ==
  ASSUME IInv, UseElsewhere
  PROVE  IInv'
<1> USE DEF IInv
<1>1. /\ UNCHANGED <<protocol, up, entry, rows, handler, tries, applied, failed>>
      /\ seqNum' = seqNum + 1 /\ pool' = {u \in pool : u.seq > seqNum + 1}
      /\ faults' \in 0 .. MaxFaults
  BY BridgeSenderAssumption DEF UseElsewhere, Advance, Fault, TypeOK
<1>2. TypeOK'
  BY <1>1 DEF TypeOK, Free, Running, Final
<1>3. HandlerInv' /\ SentIsRecorded' /\ HonestSuccess'
  BY <1>1 DEF HandlerInv, SentIsRecorded, HonestSuccess, Final
<1> QED BY <1>2, <1>3

-----------------------------------------------------------------------------
(* The server's life.                                                      *)

LEMMA StartServerInv ==
  ASSUME IInv, StartServer
  PROVE  IInv'
<1> USE DEF IInv
<1>1. /\ UNCHANGED <<protocol, rows, handler, tries, ledgerVars, faults>>
      /\ up' = TRUE
  BY Zenon DEF StartServer
<1>2. entry' \in EntryType
  <2>1. seqNum \in Nat
    BY DEF TypeOK
  <2>2. [made |-> TRUE, number |-> seqNum] \in EntryType
    BY <2>1, Zenon DEF EntryType
  <2> QED BY <2>2, NoEntryType, Zenon DEF StartServer
<1>3. TypeOK'
  BY <1>1, <1>2 DEF TypeOK, Free, Running, Final, ledgerVars, EntryType
<1>4. HandlerInv' /\ SentIsRecorded' /\ HonestSuccess'
  BY <1>1 DEF HandlerInv, SentIsRecorded, HonestSuccess, Final, ledgerVars
<1> QED BY <1>3, <1>4

LEMMA CrashInv ==
  ASSUME IInv, Crash
  PROVE  IInv'
<1> USE DEF IInv
<1>1. /\ UNCHANGED <<protocol, rows, tries, ledgerVars>>
      /\ up' \in BOOLEAN /\ entry' \in EntryType
      /\ faults' \in 0 .. MaxFaults
  <2>1. Fault => faults' \in 0 .. MaxFaults
    BY BridgeSenderAssumption DEF Fault, TypeOK
  <2> QED BY <2>1, NoEntryType, Zenon DEF Crash
<1>2. ASSUME NEW r \in Requests
      PROVE  /\ handler'[r] \in Handlers
             /\ handler'[r].at \in {"idle", "ended"}
             /\ handler'[r].code = "error" \/ handler'[r] = handler[r]
  <2>1. handler[r] \in Handlers
    BY DEF TypeOK
  <2>2. handler'[r] = IF Running(r)
                      THEN [handler[r] EXCEPT !.at = "ended", !.code = "error"]
                      ELSE handler[r]
    BY DEF Crash
  <2> QED BY <2>1, <2>2 DEF Running, Handlers, Places, Codes
<1>3. handler' \in [Requests -> Handlers]
  BY <1>2 DEF Crash
<1>4. TypeOK'
  BY <1>1, <1>2, <1>3 DEF TypeOK, Free, Running, Final, ledgerVars, EntryType
<1>5. HandlerInv'
  BY <1>2 DEF HandlerInv, Sent, Holding
<1>6. SentIsRecorded' /\ HonestSuccess'
  BY <1>1, <1>2 DEF SentIsRecorded, HonestSuccess, Final, ledgerVars
<1> QED BY <1>4, <1>5, <1>6

-----------------------------------------------------------------------------
(* The handlers. A step moves one handler, and may change the entry, the   *)
(* table and the pool.                                                     *)

\* What the invariant says of one handler.
GoodHandler(r, h) ==
  /\ h.at \in Holding => h.tx \in Txs /\ h.tx.pays = Pays[r]
  /\ h.at \in Sent => \E row \in rows' : row.tx = h.tx
  /\ h.at = "update" /\ h.code = "success" => h.tx \in applied
  /\ h.at = "ended" /\ h.code = "success" => \E tx \in applied : tx.pays = Pays[r]

\* What it says of the table and of the pool.
GoodRows ==
  /\ rows' \subseteq Rows
  /\ \A x, y \in rows' : x.tx.pays = y.tx.pays /\ x.tx.pays \in Ids => x = y
  /\ \A x \in rows : \E y \in rows' : y.tx = x.tx
  /\ \A x \in rows' : x.status = "success" => x.tx \in applied

GoodPool ==
  /\ pool' \subseteq Txs
  /\ \A tx \in pool' : Free(tx) /\ \E row \in rows' : row.tx = tx

LEMMA HandlerStep ==
  ASSUME IInv, NEW r \in Requests, NEW h \in Handlers,
         handler' = [handler EXCEPT ![r] = h], up, GoodHandler(r, h),
         GoodRows, GoodPool, entry' \in EntryType,
         tries' \in [Requests -> 0 .. MaxTries], faults' \in 0 .. MaxFaults,
         UNCHANGED <<protocol, up, seqNum, applied, failed>>
  PROVE  IInv'
<1> USE DEF IInv
<1>1. /\ handler' \in [Requests -> Handlers] /\ handler'[r] = h
      /\ \A q \in Requests \ {r} : handler'[q] = handler[q]
  BY DEF TypeOK
<1>2. Final' = Final
  BY DEF Final
<1>3. up' \in BOOLEAN /\ (\A q \in Requests : Running(q)' => up')
  BY DEF TypeOK
<1>4. TypeOK'
  BY <1>1, <1>2, <1>3 DEF TypeOK, GoodRows, GoodPool, Free, EntryType
<1>5. HandlerInv'
  <2>1. \A q \in Requests : handler[q].at \in Sent =>
          \E row \in rows' : row.tx = handler[q].tx
    BY DEF HandlerInv, GoodRows
  <2> QED BY <1>1, <2>1 DEF HandlerInv, GoodHandler
<1>6. SentIsRecorded'
  BY <1>2 DEF SentIsRecorded, GoodPool, GoodRows
<1>7. HonestSuccess'
  BY <1>1 DEF HonestSuccess, GoodHandler, GoodRows
<1> QED BY <1>4, <1>5, <1>6, <1>7

(* Most steps leave the table and the pool alone.                          *)
LEMMA UnchangedTable ==
  ASSUME IInv, UNCHANGED <<rows, pool>>
  PROVE  GoodRows /\ GoodPool
<1> USE DEF IInv
<1>1. GoodRows
  BY DEF GoodRows, TypeOK, HonestSuccess
<1>2. GoodPool
  BY DEF GoodPool, TypeOK, SentIsRecorded
<1> QED BY <1>1, <1>2

(* Going on to a place keeps the transaction; ending loses it.             *)
LEMMA MovedHandler ==
  ASSUME TypeOK, NEW r \in Requests
  PROVE  /\ \A place \in Places :
              /\ [handler[r] EXCEPT !.at = place] \in Handlers
              /\ [handler[r] EXCEPT !.at = place].at = place
              /\ [handler[r] EXCEPT !.at = place].tx = handler[r].tx
              /\ [handler[r] EXCEPT !.at = place].code = handler[r].code
              /\ Goto(r, place) <=>
                   handler' = [handler EXCEPT ![r] = [handler[r] EXCEPT !.at = place]]
         /\ \A code \in Codes :
              /\ [handler[r] EXCEPT !.at = "ended", !.code = code] \in Handlers
              /\ [handler[r] EXCEPT !.at = "ended", !.code = code].at = "ended"
              /\ [handler[r] EXCEPT !.at = "ended", !.code = code].code = code
              /\ End(r, code) <=>
                   handler' = [handler EXCEPT ![r] =
                                 [handler[r] EXCEPT !.at = "ended", !.code = code]]
<1>1. handler[r] \in Handlers
  BY DEF TypeOK
<1>2. ASSUME NEW place \in Places
      PROVE  /\ [handler[r] EXCEPT !.at = place] \in Handlers
             /\ [handler[r] EXCEPT !.at = place].at = place
             /\ [handler[r] EXCEPT !.at = place].tx = handler[r].tx
             /\ [handler[r] EXCEPT !.at = place].code = handler[r].code
             /\ Goto(r, place) <=>
                  handler' = [handler EXCEPT ![r] = [handler[r] EXCEPT !.at = place]]
  BY <1>1 DEF Handlers, Goto
<1>3. ASSUME NEW code \in Codes
      PROVE  /\ [handler[r] EXCEPT !.at = "ended", !.code = code] \in Handlers
             /\ [handler[r] EXCEPT !.at = "ended", !.code = code].at = "ended"
             /\ [handler[r] EXCEPT !.at = "ended", !.code = code].code = code
             /\ End(r, code) <=>
                  handler' = [handler EXCEPT ![r] =
                                [handler[r] EXCEPT !.at = "ended", !.code = code]]
  BY <1>1 DEF Handlers, Places, End
<1> QED BY <1>2, <1>3

(* A request that ends without a success.                                  *)
LEMMA EndStep ==
  ASSUME IInv, NEW r \in Requests, Running(r), NEW code \in Codes,
         code # "success", End(r, code), GoodRows, GoodPool,
         entry' \in EntryType, faults' \in 0 .. MaxFaults,
         UNCHANGED <<protocol, up, tries, seqNum, applied, failed>>
  PROVE  IInv'
<1> DEFINE h == [handler[r] EXCEPT !.at = "ended", !.code = code]
<1>1. /\ h \in Handlers /\ h.at = "ended" /\ h.code = code
      /\ handler' = [handler EXCEPT ![r] = h]
  BY MovedHandler DEF IInv
<1>2. up /\ tries' \in [Requests -> 0 .. MaxTries]
  BY DEF IInv, TypeOK
<1> HIDE DEF h
<1>3. GoodHandler(r, h)
  BY <1>1 DEF GoodHandler, Holding, Sent
<1> QED BY <1>1, <1>2, <1>3, HandlerStep

(* A request whose handler goes on to a place.                             *)
LEMMA GotoStep ==
  ASSUME IInv, NEW r \in Requests, Running(r), NEW place \in Places,
         place \notin {"ended", "update"}, Goto(r, place),
         place \in Holding => handler[r].at \in Holding,
         place \in Sent => \E row \in rows' : row.tx = handler[r].tx,
         GoodRows, GoodPool,
         entry' \in EntryType, faults' \in 0 .. MaxFaults,
         UNCHANGED <<protocol, up, tries, seqNum, applied, failed>>
  PROVE  IInv'
<1> DEFINE h == [handler[r] EXCEPT !.at = place]
<1>1. /\ h \in Handlers /\ h.at = place /\ h.tx = handler[r].tx
      /\ handler' = [handler EXCEPT ![r] = h]
  BY MovedHandler DEF IInv
<1>2. up /\ tries' \in [Requests -> 0 .. MaxTries]
  BY DEF IInv, TypeOK
<1> HIDE DEF h
<1>3. GoodHandler(r, h)
  BY <1>1 DEF GoodHandler, IInv, HandlerInv
<1> QED BY <1>1, <1>2, <1>3, HandlerStep

LEMMA FaultType ==
  ASSUME TypeOK, Fault
  PROVE  faults' \in 0 .. MaxFaults
BY BridgeSenderAssumption DEF Fault, TypeOK

(* A failed call ends the request.                                         *)
LEMMA FailsStep ==
  ASSUME IInv, NEW r \in Requests, Running(r), Fails(r), GoodRows, GoodPool,
         entry' \in EntryType,
         UNCHANGED <<protocol, up, tries, seqNum, applied, failed>>
  PROVE  IInv'
<1>1. "error" \in Codes /\ "error" # "success"
  BY DEF Codes
<1> QED BY <1>1, EndStep, FaultType DEF Fails, IInv

-----------------------------------------------------------------------------
(* The actions of a request.                                               *)

LEMMA PaymentInv ==
  ASSUME IInv, NEW r \in Requests, Payment(r)
  PROVE  IInv'
<1> DEFINE place == CASE protocol[r] = "compliance" -> "compliance"
                      [] Pays[r] \in Ids -> "lookup"
                      [] OTHER -> "load"
           h == [Idle EXCEPT !.at = place]
<1>1. place \in {"compliance", "lookup", "load"}
  <2>1. CASE protocol[r] = "compliance"
    BY <2>1
  <2>2. CASE protocol[r] # "compliance" /\ Pays[r] \in Ids
    BY <2>2
  <2>3. CASE protocol[r] # "compliance" /\ Pays[r] \notin Ids
    BY <2>3
  <2> QED BY <2>1, <2>2, <2>3
<1>2. handler' = [handler EXCEPT ![r] = h] /\ up
  BY DEF Payment
<1>3. UNCHANGED <<protocol, up, entry, rows, ledgerVars, faults>>
  BY DEF Payment
<1>4. tries' \in [Requests -> 0 .. MaxTries]
  <2>1. tries \in [Requests -> 0 .. MaxTries] /\ MaxTries \in Nat
    BY BridgeSenderAssumption DEF IInv, TypeOK
  <2>2. CASE tries[r] < MaxTries /\ tries' = [tries EXCEPT ![r] = @ + 1]
    BY <2>1, <2>2
  <2>3. CASE UNCHANGED tries
    BY <2>1, <2>3
  <2> QED BY <2>2, <2>3 DEF Payment
<1> HIDE DEF place
<1>5. h \in Handlers /\ h.at = place /\ h.code = "none"
  BY <1>1 DEF Handlers, Idle, Places, Codes
<1> HIDE DEF h
<1>6. GoodHandler(r, h)
  BY <1>1, <1>5 DEF GoodHandler, Holding, Sent
<1>7. GoodRows /\ GoodPool
  BY <1>3, UnchangedTable DEF ledgerVars
<1>8. entry' \in EntryType /\ faults' \in 0 .. MaxFaults
  BY <1>3 DEF IInv, TypeOK, EntryType
<1> QED BY <1>2, <1>3, <1>4, <1>5, <1>6, <1>7, <1>8, HandlerStep DEF ledgerVars

LEMMA ComplianceSendInv ==
  ASSUME IInv, NEW r \in Requests, ComplianceSend(r)
  PROVE  IInv'
<1>1. /\ UNCHANGED <<protocol, up, entry, rows, tries, ledgerVars, faults>>
      /\ Running(r)
  BY DEF ComplianceSend, Running
<1>2. /\ GoodRows /\ GoodPool
      /\ entry' \in EntryType /\ faults' \in 0 .. MaxFaults
  BY <1>1, UnchangedTable DEF ledgerVars, IInv, TypeOK, EntryType
<1>3. CASE Goto(r, "load")
  <2>1. "load" \in Places \ (Holding \cup {"ended", "update"})
    BY DEF Places, Holding, Sent
  <2> QED BY <1>1, <1>2, <1>3, <2>1, GotoStep DEF ledgerVars, Holding
<1>4. CASE End(r, "error")
  <2>1. "error" \in Codes /\ "error" # "success"
    BY DEF Codes
  <2> QED BY <1>1, <1>2, <1>4, <2>1, EndStep DEF ledgerVars
<1> QED BY <1>3, <1>4 DEF ComplianceSend

LEMMA LookupInv ==
  ASSUME IInv, NEW r \in Requests, GetSentTransactionByPaymentID(r)
  PROVE  IInv'
<1>1. /\ UNCHANGED <<protocol, up, entry, rows, tries, ledgerVars>>
      /\ Running(r) /\ up /\ tries' \in [Requests -> 0 .. MaxTries]
  BY DEF GetSentTransactionByPaymentID, Running, IInv, TypeOK
<1>2. GoodRows /\ GoodPool /\ entry' \in EntryType
  BY <1>1, UnchangedTable DEF ledgerVars, IInv, TypeOK, EntryType
<1>3. CASE Fails(r)
  BY <1>1, <1>2, <1>3, FailsStep DEF ledgerVars
<1>4. ASSUME NEW row \in rows, row.tx.pays = Pays[r],
             handler' = [handler EXCEPT ![r].at = "resubmit", ![r].tx = row.tx],
             UNCHANGED faults
      PROVE  IInv'
  <2> DEFINE h == [handler[r] EXCEPT !.at = "resubmit", !.tx = row.tx]
  <2>1. row.tx \in Txs
    BY DEF IInv, TypeOK, Rows
  <2>2. /\ h \in Handlers /\ h.at = "resubmit" /\ h.tx = row.tx
        /\ handler' = [handler EXCEPT ![r] = h]
    BY <1>4, <2>1 DEF IInv, TypeOK, Handlers, Places
  <2> HIDE DEF h
  <2>3. GoodHandler(r, h)
    BY <1>1, <1>4, <2>1, <2>2 DEF GoodHandler
  <2>4. faults' \in 0 .. MaxFaults
    BY <1>4 DEF IInv, TypeOK
  <2> QED BY <1>1, <1>2, <2>2, <2>3, <2>4, HandlerStep DEF ledgerVars
<1>5. CASE Goto(r, "load") /\ UNCHANGED faults
  <2>1. "load" \in Places \ (Holding \cup {"ended", "update"})
    BY DEF Places, Holding, Sent
  <2>2. faults' \in 0 .. MaxFaults
    BY <1>5 DEF IInv, TypeOK
  <2> QED BY <1>1, <1>2, <1>5, <2>1, <2>2, GotoStep DEF ledgerVars, Holding
<1> QED BY <1>3, <1>4, <1>5 DEF GetSentTransactionByPaymentID

LEMMA LoadAccountInv ==
  ASSUME IInv, NEW r \in Requests, LoadAccount(r)
  PROVE  IInv'
<1>1. /\ UNCHANGED <<protocol, up, rows, tries, ledgerVars, faults>>
      /\ Running(r)
  BY DEF LoadAccount, Running
<1>2. GoodRows /\ GoodPool /\ faults' \in 0 .. MaxFaults
  BY <1>1, UnchangedTable DEF ledgerVars, IInv, TypeOK
<1>3. entry' \in EntryType
  <2>1. entry \in EntryType /\ entry' = [entry EXCEPT !.made = TRUE]
    BY DEF LoadAccount, IInv, TypeOK, EntryType
  <2> QED BY <2>1, Zenon DEF EntryType
<1>4. PICK place \in {"number", "read"} : Goto(r, place)
  BY DEF LoadAccount
<1>5. place \in Places \ (Holding \cup {"ended", "update"})
  BY DEF Places, Holding, Sent
<1> QED BY <1>1, <1>2, <1>3, <1>4, <1>5, GotoStep DEF ledgerVars, Holding

\* An account's entry with another number.
LEMMA EntryNumber ==
  ASSUME IInv, NEW n \in Nat
  PROVE  [entry EXCEPT !.number = n] \in EntryType
<1>1. entry \in EntryType
  BY DEF IInv, TypeOK, EntryType
<1> QED BY <1>1, Zenon DEF EntryType

LEMMA ReadNumberInv ==
  ASSUME IInv, NEW r \in Requests, ReadNumber(r)
  PROVE  IInv'
<1>1. /\ UNCHANGED <<protocol, up, rows, tries, ledgerVars>>
      /\ Running(r)
  BY DEF ReadNumber, Running
<1>2. GoodRows /\ GoodPool
  BY <1>1, UnchangedTable DEF ledgerVars
<1>3. entry \in EntryType /\ seqNum \in Nat
  BY DEF IInv, TypeOK, EntryType
<1>4. CASE /\ entry' = IF entry.number # 0 THEN entry
                       ELSE [entry EXCEPT !.number = seqNum]
           /\ Goto(r, "number")
           /\ UNCHANGED faults
  <2>1. entry' \in EntryType /\ faults' \in 0 .. MaxFaults
    BY <1>3, <1>4, EntryNumber DEF IInv, TypeOK
  <2>2. "number" \in Places \ (Holding \cup {"ended", "update"})
    BY DEF Places, Holding, Sent
  <2> QED BY <1>1, <1>2, <1>4, <2>1, <2>2, GotoStep DEF ledgerVars, Holding
<1>5. CASE Fails(r) /\ UNCHANGED entry
  BY <1>1, <1>2, <1>3, <1>5, FailsStep DEF ledgerVars
<1> QED BY <1>4, <1>5 DEF ReadNumber

LEMMA TakeNumberInv ==
  ASSUME IInv, NEW r \in Requests, TakeNumber(r)
  PROVE  IInv'
<1> DEFINE tx == Tx(Pays[r], entry.number + 1)
           h == [handler[r] EXCEPT !.at = "insert", !.tx = tx]
<1>1. /\ UNCHANGED <<protocol, up, rows, tries, ledgerVars, faults>>
      /\ up /\ tries' \in [Requests -> 0 .. MaxTries]
  BY DEF TakeNumber, Running, IInv, TypeOK
<1>2. GoodRows /\ GoodPool /\ faults' \in 0 .. MaxFaults
  BY <1>1, UnchangedTable DEF ledgerVars, IInv, TypeOK
<1>3. entry.number \in Nat
  BY DEF IInv, TypeOK
<1>4. entry' \in EntryType
  <2>1. entry' = [entry EXCEPT !.number = entry.number + 1] /\ entry.number + 1 \in Nat
    BY <1>3 DEF TakeNumber
  <2> QED BY <2>1, EntryNumber
<1>5. tx \in Txs /\ tx.pays = Pays[r]
  BY <1>3, BridgeSenderAssumption DEF Tx, Txs
<1>6. handler' = [handler EXCEPT ![r] = h]
  BY DEF TakeNumber, IInv, TypeOK, Handlers
<1> HIDE DEF tx
<1>7. h \in Handlers /\ h.at = "insert" /\ h.tx = tx
  BY <1>5 DEF IInv, TypeOK, Handlers, Places
<1> HIDE DEF h
<1>8. GoodHandler(r, h)
  BY <1>5, <1>7 DEF GoodHandler, Sent
<1> QED BY <1>1, <1>2, <1>4, <1>6, <1>7, <1>8, HandlerStep DEF ledgerVars

LEMMA InsertInv ==
  ASSUME IInv, NEW r \in Requests, InsertSentTransaction(r)
  PROVE  IInv'
<1> DEFINE tx == handler[r].tx
           added == rows \cup {Sending(tx)}
<1>1. /\ UNCHANGED <<protocol, up, entry, tries, ledgerVars>>
      /\ Running(r) /\ handler[r].at = "insert"
  BY DEF InsertSentTransaction, Running
<1>2. entry' \in EntryType
  BY <1>1 DEF IInv, TypeOK, EntryType
<1>3. tx \in Txs /\ tx.pays = Pays[r]
  BY <1>1 DEF IInv, HandlerInv, Holding
<1>4. Sending(tx) \in Rows /\ Sending(tx).tx = tx /\ Sending(tx).status = "sending"
  BY <1>3 DEF Sending, Rows
<1>5. CASE tx.pays \in Ids /\ Recorded(tx.pays)
  <2>1. End(r, "error") /\ UNCHANGED <<rows, faults>>
    BY <1>5 DEF InsertSentTransaction
  <2>2. GoodRows /\ GoodPool /\ faults' \in 0 .. MaxFaults
    BY <1>1, <2>1, UnchangedTable DEF ledgerVars, IInv, TypeOK
  <2>3. "error" \in Codes /\ "error" # "success"
    BY DEF Codes
  <2> QED BY <1>1, <1>2, <2>1, <2>2, <2>3, EndStep DEF ledgerVars
<1>6. CASE ~(tx.pays \in Ids /\ Recorded(tx.pays))
  <2>1. ASSUME rows' \in {rows, added}
        PROVE  GoodRows /\ GoodPool
    <3>1. CASE rows' = rows
      BY <1>1, <3>1, UnchangedTable DEF ledgerVars
    <3>2. CASE rows' = added
      <4>1. rows' \subseteq Rows
        BY <1>4, <3>2 DEF IInv, TypeOK
      <4>2. ASSUME NEW x \in rows', NEW y \in rows', x.tx.pays = y.tx.pays,
                   x.tx.pays \in Ids
            PROVE  x = y
        <5>1. \A z \in rows : z.tx.pays = tx.pays => tx.pays \notin Ids
          BY <1>6 DEF Recorded
        <5> QED BY <1>4, <3>2, <4>2, <5>1 DEF IInv, TypeOK
      <4>3. \A x \in rows' : x.status = "success" => x.tx \in applied
        BY <1>4, <3>2 DEF IInv, HonestSuccess
      <4>4. GoodRows
        BY <3>2, <4>1, <4>2, <4>3 DEF GoodRows
      <4>5. GoodPool
        BY <1>1, <3>2 DEF GoodPool, ledgerVars, IInv, TypeOK, SentIsRecorded
      <4> QED BY <4>4, <4>5
    <3> QED BY <2>1, <3>1, <3>2
  <2>2. CASE rows' = added /\ Goto(r, "submit") /\ UNCHANGED faults
    <3>1. faults' \in 0 .. MaxFaults
      BY <2>2 DEF IInv, TypeOK
    <3>2. "submit" \in Places /\ "submit" \notin {"ended", "update"}
      BY DEF Places
    <3>3. \E row \in rows' : row.tx = handler[r].tx
      BY <1>4, <2>2
    <3> QED BY <1>1, <1>2, <2>1, <2>2, <3>1, <3>2, <3>3, GotoStep
            DEF ledgerVars, Holding
  <2>3. CASE rows' \in {rows, added} /\ Fails(r)
    BY <1>1, <1>2, <2>1, <2>3, FailsStep DEF ledgerVars
  <2> QED BY <1>6, <2>2, <2>3 DEF InsertSentTransaction
<1> QED BY <1>5, <1>6

LEMMA PostInv ==
  ASSUME IInv, NEW r \in Requests, Post(r)
  PROVE  IInv'
<1> DEFINE tx == handler[r].tx
<1>1. /\ UNCHANGED <<protocol, up, entry, rows, tries, seqNum, applied, failed, faults>>
      /\ Running(r) /\ handler[r].at \in {"submit", "resubmit"}
      /\ Free(tx) /\ pool' = pool \cup {tx}
  BY DEF Post, Running
<1>2. entry' \in EntryType /\ faults' \in 0 .. MaxFaults
  BY <1>1 DEF IInv, TypeOK, EntryType
<1>3. tx \in Txs /\ \E row \in rows : row.tx = tx
  BY <1>1 DEF IInv, HandlerInv, Holding, Sent
<1>4. GoodRows
  BY <1>1 DEF GoodRows, IInv, TypeOK, HonestSuccess
<1>5. GoodPool
  BY <1>1, <1>3 DEF GoodPool, IInv, TypeOK, SentIsRecorded
<1>6. PICK place \in {"await", "reawait"} : Goto(r, place)
  BY DEF Post
<1>7. /\ place \in Places /\ place \notin {"ended", "update"}
      /\ handler[r].at \in Holding /\ \E row \in rows' : row.tx = handler[r].tx
  BY <1>1, <1>3 DEF Places, Holding, Sent
<1> QED BY <1>1, <1>2, <1>4, <1>5, <1>6, <1>7, GotoStep

\* Horizon reports a success for what was applied only.
LEMMA VerdictIsTrue ==
  ASSUME NEW tx, NEW posted \in BOOLEAN
  PROVE  /\ Verdict(tx, posted) \in Codes
         /\ Verdict(tx, posted) = "success" => tx \in applied
<1>1. CASE tx \in applied
  BY <1>1 DEF Verdict, Codes
<1>2. CASE tx \notin applied
  BY <1>2 DEF Verdict, Codes, Final
<1> QED BY <1>1, <1>2

LEMMA SubmittedInv ==
  ASSUME IInv, NEW r \in Requests, Submitted(r)
  PROVE  IInv'
<1> DEFINE tx == handler[r].tx
           code == Verdict(tx, handler[r].at = "await")
           h == [handler[r] EXCEPT !.at = "update", !.code = code]
<1>1. /\ UNCHANGED <<protocol, up, entry, rows, tries, ledgerVars>>
      /\ Running(r) /\ handler[r].at \in {"submit", "await"}
      /\ up /\ tries' \in [Requests -> 0 .. MaxTries]
  BY DEF Submitted, Fresh, Running, IInv, TypeOK
<1>2. GoodRows /\ GoodPool /\ entry' \in EntryType
  BY <1>1, UnchangedTable DEF ledgerVars, IInv, TypeOK, EntryType
<1>3. CASE Fails(r)
  BY <1>1, <1>2, <1>3, FailsStep DEF ledgerVars
<1>4. CASE /\ handler' = [handler EXCEPT ![r].at = "update", ![r].code = code]
           /\ UNCHANGED faults
  <2>1. code \in Codes /\ (code = "success" => tx \in applied)
    BY VerdictIsTrue
  <2>2. /\ tx \in Txs /\ tx.pays = Pays[r]
        /\ \E row \in rows : row.tx = tx
    BY <1>1 DEF IInv, HandlerInv, Holding, Sent
  <2> HIDE DEF code
  <2>3. /\ h \in Handlers /\ h.at = "update" /\ h.code = code /\ h.tx = tx
        /\ handler' = [handler EXCEPT ![r] = h]
    BY <1>4, <2>1 DEF IInv, TypeOK, Handlers, Places
  <2> HIDE DEF h
  <2>4. GoodHandler(r, h)
    BY <1>1, <2>1, <2>2, <2>3 DEF GoodHandler
  <2>5. faults' \in 0 .. MaxFaults
    BY <1>4 DEF IInv, TypeOK
  <2> QED BY <1>1, <1>2, <2>3, <2>4, <2>5, HandlerStep DEF ledgerVars
<1> QED BY <1>3, <1>4 DEF Submitted

LEMMA ResubmittedInv ==
  ASSUME IInv, NEW r \in Requests, Resubmitted(r)
  PROVE  IInv'
<1> DEFINE tx == handler[r].tx
           verdict == Verdict(tx, handler[r].at = "reawait")
           code == IF verdict = "success" THEN "success" ELSE "error"
           h == [handler[r] EXCEPT !.at = "ended", !.code = code]
<1>1. /\ UNCHANGED <<protocol, up, entry, rows, tries, ledgerVars>>
      /\ Running(r) /\ handler[r].at \in {"resubmit", "reawait"}
      /\ up /\ tries' \in [Requests -> 0 .. MaxTries]
  BY DEF Resubmitted, Running, IInv, TypeOK
<1>2. GoodRows /\ GoodPool /\ entry' \in EntryType
  BY <1>1, UnchangedTable DEF ledgerVars, IInv, TypeOK, EntryType
<1>3. CASE Fails(r)
  BY <1>1, <1>2, <1>3, FailsStep DEF ledgerVars
<1>4. CASE End(r, code) /\ UNCHANGED faults
  <2>1. verdict = "success" => tx \in applied
    BY VerdictIsTrue
  <2>2. tx.pays = Pays[r]
    BY <1>1 DEF IInv, HandlerInv, Holding, Sent
  <2> HIDE DEF verdict
  <2>3. code \in Codes /\ (code = "success" => tx \in applied)
    BY <2>1 DEF Codes
  <2> HIDE DEF code
  <2>4. /\ h \in Handlers /\ h.at = "ended" /\ h.code = code
        /\ handler' = [handler EXCEPT ![r] = h]
    BY <1>4, <2>3, MovedHandler DEF IInv
  <2> HIDE DEF h
  <2>5. GoodHandler(r, h)
    BY <2>2, <2>3, <2>4 DEF GoodHandler, Holding, Sent
  <2>6. faults' \in 0 .. MaxFaults
    BY <1>4 DEF IInv, TypeOK
  <2> QED BY <1>1, <1>2, <2>4, <2>5, <2>6, HandlerStep DEF ledgerVars
<1> QED BY <1>3, <1>4 DEF Resubmitted

LEMMA UpdateInv ==
  ASSUME IInv, NEW r \in Requests, UpdateSentTransaction(r)
  PROVE  IInv'
<1> DEFINE tx == handler[r].tx
           code == handler[r].code
           Updated(row) == IF row.tx = tx THEN [row EXCEPT !.status = Answer(code)]
                           ELSE row
<1>1. /\ UNCHANGED <<protocol, up, entry, tries, ledgerVars>>
      /\ Running(r) /\ handler[r].at = "update"
      /\ up /\ tries' \in [Requests -> 0 .. MaxTries]
      /\ entry' \in EntryType
  BY DEF UpdateSentTransaction, Running, IInv, TypeOK, EntryType
<1>2. CASE Fails(r) /\ UNCHANGED rows
  BY <1>1, <1>2, UnchangedTable, FailsStep DEF ledgerVars
<1>3. ASSUME rows' = {Updated(row) : row \in rows}, UNCHANGED faults,
             IF code = "tx_bad_seq" THEN Goto(r, "resync") ELSE End(r, Answer(code))
      PROVE  IInv'
  <2>1. /\ tx.pays = Pays[r] /\ \E row \in rows : row.tx = tx
        /\ code = "success" => tx \in applied
    BY <1>1 DEF IInv, HandlerInv, Holding, Sent
  <2>2. Answer(code) \in {"success", "failure"} /\ (Answer(code) = "success" => code = "success")
    BY DEF Answer
  <2>3. ASSUME NEW row \in rows
        PROVE  /\ Updated(row) \in Rows /\ Updated(row).tx = row.tx
               /\ Updated(row).status = "success" => row.tx \in applied
    <3>1. row \in Rows
      BY DEF IInv, TypeOK
    <3> QED BY <2>1, <2>2, <3>1 DEF Rows, IInv, HonestSuccess
  <2> HIDE DEF Updated
  <2>4. GoodRows
    <3>1. ASSUME NEW x \in rows', NEW y \in rows', x.tx.pays = y.tx.pays,
                 x.tx.pays \in Ids
          PROVE  x = y
      <4>1. PICK x0 \in rows : x = Updated(x0)
        BY <1>3
      <4>2. PICK y0 \in rows : y = Updated(y0)
        BY <1>3
      <4>3. x0 = y0
        BY <2>3, <3>1, <4>1, <4>2 DEF IInv, TypeOK
      <4> QED BY <4>1, <4>2, <4>3
    <3>2. rows' \subseteq Rows /\ \A x \in rows' : x.status = "success" => x.tx \in applied
      BY <1>3, <2>3
    <3>3. \A x \in rows : \E y \in rows' : y.tx = x.tx
      BY <1>3, <2>3
    <3> QED BY <3>1, <3>2, <3>3 DEF GoodRows
  <2>5. GoodPool
    BY <1>1, <2>4 DEF GoodPool, GoodRows, ledgerVars, IInv, TypeOK, SentIsRecorded
  <2>6. faults' \in 0 .. MaxFaults
    BY <1>3 DEF IInv, TypeOK
  <2>7. CASE code = "tx_bad_seq"
    <3>1. Goto(r, "resync")
      BY <1>3, <2>7
    <3>2. "resync" \in Places /\ "resync" \notin {"ended", "update"}
      BY DEF Places
    <3>3. handler[r].at \in Holding /\ \E row \in rows' : row.tx = tx
      BY <1>1, <2>1, <2>4 DEF Holding, Sent, GoodRows
    <3> QED BY <1>1, <2>4, <2>5, <2>6, <3>1, <3>2, <3>3, GotoStep DEF ledgerVars
  <2>8. CASE code # "tx_bad_seq"
    <3> DEFINE answer == Answer(code)
               h == [handler[r] EXCEPT !.at = "ended", !.code = answer]
    <3>1. answer \in Codes /\ End(r, answer)
      BY <1>3, <2>2, <2>8 DEF Codes
    <3> HIDE DEF answer
    <3>2. /\ h \in Handlers /\ h.at = "ended" /\ h.code = answer
          /\ handler' = [handler EXCEPT ![r] = h]
      BY <3>1, MovedHandler DEF IInv
    <3> HIDE DEF h
    <3>3. answer = "success" => tx \in applied
      BY <2>1, <2>2 DEF answer
    <3>4. GoodHandler(r, h)
      BY <2>1, <3>2, <3>3 DEF GoodHandler, Holding, Sent
    <3> QED BY <1>1, <2>4, <2>5, <2>6, <3>2, <3>4, HandlerStep DEF ledgerVars
  <2> QED BY <2>7, <2>8
<1> QED BY <1>2, <1>3 DEF UpdateSentTransaction

LEMMA SyncInv ==
  ASSUME IInv, NEW r \in Requests, SyncSequence(r)
  PROVE  IInv'
<1>1. /\ UNCHANGED <<protocol, up, rows, tries, ledgerVars>>
      /\ Running(r) /\ End(r, "failure")
  BY DEF SyncSequence, Running
<1>2. GoodRows /\ GoodPool
  BY <1>1, UnchangedTable DEF ledgerVars
<1>3. "failure" \in Codes /\ "failure" # "success"
  BY DEF Codes
<1>4. CASE entry' = [entry EXCEPT !.number = seqNum] /\ UNCHANGED faults
  <2>1. entry' \in EntryType /\ faults' \in 0 .. MaxFaults
    BY <1>4, EntryNumber DEF IInv, TypeOK
  <2> QED BY <1>1, <1>2, <1>3, <2>1, EndStep DEF ledgerVars
<1>5. CASE Fault /\ UNCHANGED entry
  <2>1. entry' \in EntryType /\ faults' \in 0 .. MaxFaults
    BY <1>5, FaultType DEF IInv, TypeOK, EntryType
  <2> QED BY <1>1, <1>2, <1>3, <2>1, EndStep DEF ledgerVars
<1> QED BY <1>4, <1>5 DEF SyncSequence

-----------------------------------------------------------------------------
(* Every step keeps the invariant.                                         *)

LEMMA NextInv == IInv /\ [Next]_vars => IInv'
<1> SUFFICES ASSUME IInv, [Next]_vars PROVE IInv'
  OBVIOUS
<1>1. CASE StartServer
  BY <1>1, StartServerInv
<1>2. CASE Crash
  BY <1>2, CrashInv
<1>3. CASE UseElsewhere
  BY <1>3, UseElsewhereInv
<1>4. ASSUME NEW tx \in pool, Apply(tx) \/ Drop(tx)
      PROVE  IInv'
  BY <1>4, ApplyInv, DropInv
<1>5. ASSUME NEW r \in Requests, Payment(r) \/ Handle(r)
      PROVE  IInv'
  BY <1>5, PaymentInv, ComplianceSendInv, LookupInv, LoadAccountInv,
     ReadNumberInv, TakeNumberInv, InsertInv, PostInv, SubmittedInv,
     ResubmittedInv, UpdateInv, SyncInv DEF Handle
<1>6. CASE UNCHANGED vars
  <2>1. Final' = Final /\ UNCHANGED vars
    BY <1>6 DEF Final, vars, ledgerVars
  <2> QED BY <2>1 DEF vars, ledgerVars, IInv, TypeOK, HandlerInv, SentIsRecorded,
                      HonestSuccess, Free, Running
<1> QED BY <1>1, <1>2, <1>3, <1>4, <1>5, <1>6 DEF Next

(* The invariant says that the table holds every transaction out there and *)
(* one row of an id: two that were applied under one id are one.           *)
LEMMA RowsPayOnce == IInv => PaidOnce
<1> SUFFICES ASSUME IInv, NEW p \in Ids, NEW t \in applied, NEW u \in applied,
                    t.pays = p, u.pays = p
             PROVE  t = u
  BY DEF PaidOnce
<1>1. PICK x \in rows : x.tx = t
  BY DEF IInv, SentIsRecorded, Final
<1>2. PICK y \in rows : y.tx = u
  BY DEF IInv, SentIsRecorded, Final
<1>3. x = y
  BY <1>1, <1>2 DEF IInv, TypeOK
<1> QED BY <1>1, <1>2, <1>3

LEMMA SenderInv == Spec => []IInv
<1> QED BY InitInv, NextInv, PTL DEF Spec

(* The state of the bridge's sending half has its type: a payment id has   *)
(* one row, and only a running server handles requests.                    *)
THEOREM SenderTypeCorrect == Spec => []TypeOK
<1>1. IInv => TypeOK
  BY DEF IInv
<1> QED BY <1>1, SenderInv, PTL

(* InsertSentTransaction comes before the submission: whatever the network *)
(* has seen, the table has, also after a crash or a failed call.           *)
THEOREM SenderRecords == Spec => []SentIsRecorded
<1>1. IInv => SentIsRecorded
  BY DEF IInv
<1> QED BY <1>1, SenderInv, PTL

(* No handler reports, and no row keeps, a success the ledger has not.     *)
THEOREM SenderHonest == Spec => []HonestSuccess
<1>1. IInv => HonestSuccess
  BY DEF IInv
<1> QED BY <1>1, SenderInv, PTL

(* A payment id is paid at most once, for any number of clients, retries,  *)
(* faults and restarts.                                                    *)
THEOREM SenderPaysOnce == Spec => []PaidOnce
<1> QED BY RowsPayOnce, SenderInv, PTL
=============================================================================
