--------------------------- MODULE PaymentListener ---------------------------
(***************************************************************************)
(* The receiving half of the bridge server: a goroutine streams the        *)
(* payments of the receiving account from Horizon, records each in the     *)
(* table of received payments and calls the `receive` callback; an         *)
(* operator may have a payment processed again through /reprocess. The     *)
(* stream's position is not stored: it is that of the last row.            *)
(*                                                                         *)
(* A step is one call to the database, to Horizon or to the callback.      *)
(* Payments are numbered by their paging tokens. Horizon sends them with   *)
(* no line that names the event; what the client's decoder, a library,     *)
(* calls such an event is a parameter, for the client hands on only what   *)
(* is called "mdfcge".                                                     *)
(***************************************************************************)
EXTENDS Naturals, Sequences, FiniteSets, SequencesExt

CONSTANTS
  MaxPayments,  \* bound of the model: payments on the ledger
  Foreign,      \* the ones that are not to be processed, by asset or direction
  EventType,    \* what the decoder calls the event of a payment
  Operators,    \* requests to /reprocess that may run at the same time
  MaxReprocess, \* bound of the model: requests to /reprocess, by operator
  MaxFaults     \* bound of the model: failed calls and crashes

ASSUME PaymentListenerAssumption ==
  /\ MaxPayments \in Nat \ {0} /\ Foreign \subseteq 1 .. MaxPayments
  /\ EventType \in {"message", "mdfcge"}
  /\ MaxReprocess \in Nat /\ MaxFaults \in Nat

VARIABLES
  height,     \* the payments made so far are 1 .. height
  up,         \* whether the server runs
  rows,       \* table received_payment, by id: operation and status
  cursor,     \* the position of the stream, Now when there is none
  listener,   \* the goroutine of Listen
  operator,   \* operator -> his ReprocessPayment
  told,       \* payments the callback was called for
  acked,      \* and those it has answered 200 OK
  missed,     \* history: payments onPayment gave up on a failed call
  asked,      \* operator -> how many requests he has made
  faults      \* how many there have been

vars == <<height, up, rows, cursor, listener, operator, told, acked, missed,
          asked, faults>>

Now == 0
Payments == 1 .. MaxPayments
\* What a goroutine does, to which payment, and the status it will save.
Doing(at, p, status) == [at |-> at, p |-> p, status |-> status]
Off == Doing("off", 0, "none")

Recorded == {rows[k].p : k \in DOMAIN rows}
Status(p) == rows[CHOOSE k \in DOMAIN rows : rows[k].p = p].status

Init ==
  /\ height = 0 /\ up = FALSE
  /\ rows = <<>> /\ cursor = Now
  /\ listener = Off
  /\ operator = [o \in Operators |-> Off]
  /\ told = {} /\ acked = {} /\ missed = {}
  /\ asked = [o \in Operators |-> 0]
  /\ faults = 0

Fault == faults < MaxFaults /\ faults' = faults + 1

-----------------------------------------------------------------------------
(* The ledger and the server's life.                                       *)

MakePayment ==
  /\ height < MaxPayments
  /\ height' = height + 1
  /\ UNCHANGED <<up, rows, cursor, listener, operator, told, acked, missed,
                 asked, faults>>

Listen ==
  /\ ~up
  /\ up' = TRUE
  /\ listener' = Doing("cursor", 0, "none")
  /\ UNCHANGED <<height, rows, cursor, operator, told, acked, missed, asked,
                 faults>>

Crash ==
  /\ up /\ Fault
  /\ up' = FALSE
  /\ listener' = Off
  /\ operator' = [o \in Operators |-> Off]
  /\ cursor' = Now
  /\ UNCHANGED <<height, rows, told, acked, missed, asked>>

-----------------------------------------------------------------------------
(* The goroutine of Listen.                                                *)

Place(at) == listener' = [listener EXCEPT !.at = at]
\* Back to the connection, which has sent the payments up to listener.p.
ToStream == listener' = Doing("stream", listener.p, "none")

\* The stored rows are not looked at.
NoCursor == Now

\* The row with the highest id has the cursor.
LastCursor == IF rows = <<>> THEN Now ELSE Last(rows).p

(* GetLastCursorValue: on an error the goroutine returns, for good.        *)
GetLastCursorValue ==
  /\ listener.at = "cursor"
  /\ \/ cursor' = LastCursor /\ Place("connect") /\ UNCHANGED faults
     \/ Fault /\ Place("dead") /\ UNCHANGED cursor
  /\ UNCHANGED <<height, up, rows, operator, told, acked, missed, asked>>

\* A new connection has no cursor.
ConnectAnew ==
  /\ listener.at = "connect"
  /\ \/ listener' = Doing("stream", height, "none") /\ UNCHANGED faults
     \/ Fault /\ Place("cursor")
  /\ UNCHANGED <<height, up, rows, cursor, operator, told, acked, missed, asked>>

(* stream opens a connection at its cursor; "now" is whenever that is. An  *)
(* error returns to Listen, which sleeps and reads the cursor again.       *)
Connect ==
  /\ listener.at = "connect"
  /\ \/ /\ listener' = Doing("stream", IF cursor = Now THEN height ELSE cursor, "none")
        /\ UNCHANGED faults
     \/ Fault /\ Place("cursor")
  /\ UNCHANGED <<height, up, rows, cursor, operator, told, acked, missed, asked>>

\* The client passes over the events of every other name.
HandedOn == EventType = "mdfcge"

(* An event: the stream's cursor moves before the payment is handled; an   *)
(* event that is passed over leaves the cursor alone.                      *)
Receive ==
  LET p == listener.p + 1 IN
  /\ listener.at = "stream" /\ listener.p < height
  /\ cursor' = IF HandedOn THEN p ELSE cursor
  /\ listener' = Doing(IF HandedOn THEN "lookup" ELSE "stream", p, "none")
  /\ UNCHANGED <<height, up, rows, operator, told, acked, missed, asked, faults>>

(* The connection ends: idle ones are closed, and stream opens another at  *)
(* its own cursor; on an error Listen reads the stored one.                *)
Disconnect ==
  /\ listener.at = "stream"
  /\ \/ listener.p = height /\ Place("connect") /\ UNCHANGED faults
     \/ Fault /\ Place("cursor")
  /\ UNCHANGED <<height, up, rows, cursor, operator, told, acked, missed, asked>>

-----------------------------------------------------------------------------
(* onPayment.                                                              *)

\* onPayment returns on a failed call; the stream goes on.
GiveUp == Fault /\ ToStream /\ missed' = missed \cup {listener.p}

LookupPayment ==
  /\ listener.at = "lookup"
  /\ \/ /\ IF listener.p \in Recorded THEN ToStream ELSE Place("insert")
        /\ UNCHANGED <<missed, faults>>
     \/ GiveUp
  /\ UNCHANGED <<height, up, rows, cursor, operator, told, acked, asked>>

Row(p, status) == [p |-> p, status |-> status]

\* The payment is processed first and recorded with the outcome.
InsertLate ==
  /\ listener.at = "insert"
  /\ Place("process")
  /\ UNCHANGED <<height, up, rows, cursor, operator, told, acked, missed, asked,
                 faults>>

(* InsertReceivedPayment; shouldProcessPayment is asked next. The insert   *)
(* may fail after the row was made, in the query for its new id.           *)
InsertReceivedPayment ==
  LET added == Append(rows, Row(listener.p, "processing")) IN
  /\ listener.at = "insert"
  /\ \/ /\ rows' = added
        /\ listener' = IF listener.p \in Foreign
                       THEN [listener EXCEPT !.at = "update", !.status = "skipped"]
                       ELSE [listener EXCEPT !.at = "process"]
        /\ UNCHANGED <<missed, faults>>
     \/ GiveUp /\ rows' \in {rows, added}
  /\ UNCHANGED <<height, up, cursor, operator, told, acked, asked>>

\* The status of the callback's answer is not looked at.
ProcessAnyAnswer(p, status) ==
  \/ status = "error" /\ UNCHANGED <<told, acked>>
  \/ told' = told \cup {p} /\ UNCHANGED acked
  \/ told' = told \cup {p} /\ acked' = acked \cup {p}

(* process: the memo or the compliance server's data may not be had; the   *)
(* callback is called once, and only 200 OK counts: another answer, and an *)
(* OK that is lost, are errors.                                            *)
Process(p, status) ==
  \/ status = "error" /\ UNCHANGED <<told, acked>>
  \/ status = "error" /\ told' = told \cup {p} /\ UNCHANGED acked
  \/ told' = told \cup {p} /\ acked' = acked \cup {p}

ProcessPayment ==
  /\ listener.at = "process"
  /\ \E status \in {"success", "error"} :
       /\ Process(listener.p, status)
       /\ listener' = [listener EXCEPT !.at = "update", !.status = status]
  /\ UNCHANGED <<height, up, rows, cursor, operator, missed, asked, faults>>

\* A row that is saved again goes to the end.
SetStatusAtEnd(p, status) ==
  rows' = SelectSeq(rows, LAMBDA row : row.p # p) \o <<Row(p, status)>>

\* UpdateReceivedPayment: the row keeps its id.
SetStatus(p, status) ==
  rows' = [k \in DOMAIN rows |->
             IF rows[k].p = p THEN Row(p, status) ELSE rows[k]]

(* ... and the outcome is saved, or on a failure it is not.                *)
UpdatePayment ==
  /\ listener.at = "update"
  /\ \/ SetStatus(listener.p, listener.status) /\ UNCHANGED faults
     \/ Fault /\ UNCHANGED rows
  /\ ToStream
  /\ UNCHANGED <<height, up, cursor, operator, told, acked, missed, asked>>

OnPayment ==
  LookupPayment \/ InsertReceivedPayment \/ ProcessPayment \/ UpdatePayment

-----------------------------------------------------------------------------
(* ReprocessPayment.                                                       *)

PlaceOp(o, at) == operator' = [operator EXCEPT ![o].at = at]
EndOp(o) == operator' = [operator EXCEPT ![o] = Off]

(* Only a recorded payment, and one of success only by force. Nothing is   *)
(* locked, and shouldProcessPayment is not asked.                          *)
AskReprocess(o) ==
  /\ up /\ operator[o].at = "off"
  /\ asked[o] < MaxReprocess /\ asked' = [asked EXCEPT ![o] = @ + 1]
  /\ \E p \in Recorded, force \in BOOLEAN :
       /\ Status(p) = "success" => force
       /\ operator' = [operator EXCEPT ![o] = Doing("mark", p, "none")]
  /\ UNCHANGED <<height, up, rows, cursor, listener, told, acked, missed, faults>>

MarkReprocessing(o) ==
  /\ operator[o].at = "mark"
  /\ \/ /\ SetStatus(operator[o].p, "reprocessing") /\ PlaceOp(o, "process")
        /\ UNCHANGED faults
     \/ Fault /\ EndOp(o) /\ UNCHANGED rows
  /\ UNCHANGED <<height, up, cursor, listener, told, acked, missed, asked>>

ReprocessPayment(o) ==
  /\ operator[o].at = "process"
  /\ \E status \in {"success", "error"} :
       /\ Process(operator[o].p, status)
       /\ operator' = [operator EXCEPT ![o].at = "update", ![o].status = status]
  /\ UNCHANGED <<height, up, rows, cursor, listener, missed, asked, faults>>

UpdateReprocessed(o) ==
  /\ operator[o].at = "update"
  /\ \/ SetStatus(operator[o].p, operator[o].status) /\ UNCHANGED faults
     \/ Fault /\ UNCHANGED rows
  /\ EndOp(o)
  /\ UNCHANGED <<height, up, cursor, listener, told, acked, missed, asked>>

Reprocess(o) ==
  MarkReprocessing(o) \/ ReprocessPayment(o) \/ UpdateReprocessed(o)

-----------------------------------------------------------------------------
Stream == GetLastCursorValue \/ Connect \/ Receive \/ OnPayment

Next ==
  \/ MakePayment \/ Listen \/ Crash
  \/ Stream \/ Disconnect
  \/ \E o \in Operators : AskReprocess(o) \/ Reprocess(o)

Spec == Init /\ [][Next]_vars

(* The goroutine is scheduled and the server restarted; a connection that  *)
(* has payments to send sends them.                                        *)
FairSpec == Spec /\ WF_vars(Listen) /\ WF_vars(Stream)

-----------------------------------------------------------------------------
(* Properties.                                                             *)

Places == {"off", "dead", "cursor", "connect", "stream", "lookup", "insert",
           "process", "update"}
Statuses == {"processing", "success", "error", "skipped", "reprocessing"}

(* Types, the unique operation_id, and that the callback is called only    *)
(* for payments on record.                                                 *)
TypeOK ==
  /\ height \in 0 .. MaxPayments /\ up \in BOOLEAN
  /\ cursor \in 0 .. height
  /\ rows \in Seq([p : 1 .. height, status : Statuses])
  /\ Len(rows) = Cardinality(Recorded)
  /\ listener.at \in Places /\ listener.p \in 0 .. height
  /\ listener.at = "off" <=> ~up
  /\ \A o \in Operators :
       operator[o].at \in {"off", "mark", "process", "update"}
  /\ acked \subseteq told /\ told \subseteq Recorded
  /\ faults \in 0 .. MaxFaults

(* A payment is a success in the table only after the receiver's server    *)
(* answered 200 OK for it, whoever processes it at the same time and       *)
(* whatever failed.                                                        *)
SuccessWasAcknowledged ==
  \A k \in DOMAIN rows : rows[k].status = "success" => rows[k].p \in acked

(* The highest id is the last payment of the ledger on record: the cursor  *)
(* a restart takes is not behind a row, although reprocessing saves rows   *)
(* out of order.                                                           *)
RecordedInOrder ==
  \A j, k \in DOMAIN rows : j < k => rows[j].p < rows[k].p

(* Between two recorded payments there is none that was not seen: those    *)
(* without a row are the ones onPayment gave up on. Restarts, errors of    *)
(* the stream and reconnections skip nothing else.                         *)
NoSilentSkip ==
  \A j, k \in DOMAIN rows :
    rows[j].p .. rows[k].p \subseteq Recorded \cup missed

(* If the decoder names the events as the client expects: once there is a  *)
(* row, every later payment is recorded or given up on, across crashes and *)
(* broken streams, unless the goroutine has returned on an error of        *)
(* GetLastCursorValue.                                                     *)
PaymentsAreRecorded ==
  \A p \in Payments :
    (HandedOn /\ rows # <<>> /\ p \in Head(rows).p .. height)
      ~> (p \in Recorded \cup missed \/ listener.at = "dead")

(* The bridge's README on `callbacks.receive`: "Every time a payment       *)
(* arrives it will send a HTTP POST request". A payment that arrives at an *)
(* open stream is recorded, which onPayment does before the request. This  *)
(* is false of events the decoder calls "message".                         *)
ArrivingPaymentsAreHandled ==
  \A p \in Payments :
    (listener.at = "stream" /\ p \in listener.p + 1 .. height) ~> p \in Recorded
=============================================================================
