----------------------- MODULE PaymentListener_proofs -----------------------
(***************************************************************************)
(* Proofs about the receiving half of the bridge server, for any number of *)
(* payments, foreign ones, operators and faults, and whatever the decoder  *)
(* calls an event. Every step either leaves the table's payments alone,    *)
(* and then a few facts about the goroutines are all there is to show, or  *)
(* appends one.                                                            *)
(***************************************************************************)
EXTENDS PaymentListener, FiniteSetTheorems, SequenceTheorems, TLAPS

Outcomes == Statuses \cup {"none"}
RowSet == [p : Nat, status : Statuses]
Task == [at : Places \cup {"mark"}, p : Nat, status : Outcomes]

(* What TypeOK leaves open: the goroutines, and the payments they handle.  *)
TaskInv ==
  /\ rows \in Seq(RowSet)
  /\ \A k \in DOMAIN rows : rows[k].p \in 1 .. height
  /\ listener \in Task /\ listener.at \in Places /\ listener.p \in 0 .. height
  /\ listener.at = "update" => listener.status \in Statuses
  /\ operator \in [Operators -> Task]
  /\ \A o \in Operators :
       /\ operator[o].at \in {"off", "mark", "process", "update"}
       /\ operator[o].at = "update" => operator[o].status \in Statuses
  /\ missed \subseteq 1 .. height
  /\ told \subseteq Recorded /\ acked \subseteq told

ControlInv ==
  /\ height \in 0 .. MaxPayments /\ up \in BOOLEAN
  /\ cursor \in 0 .. height /\ faults \in 0 .. MaxFaults
  /\ listener.at = "off" <=> ~up

(* No row is beyond q, and none between a row and q was skipped.           *)
SeenTo(q) ==
  \A k \in DOMAIN rows :
    rows[k].p <= q /\ rows[k].p .. q \subseteq Recorded \cup missed

(* Where the stream is: behind the cursor of a connection, and behind what *)
(* it has handed on, there is nothing unseen and no row ahead. A           *)
(* connection without a cursor is made only while there is no row. Where   *)
(* the client passes over every event, the stream leaves its cursor        *)
(* behind, and nothing is ever handled or recorded.                        *)
Handling == {"lookup", "insert", "process", "update"}

PositionOf(task, c) ==
  /\ task.at \in {"connect", "stream"} /\ c = Now => rows = <<>>
  /\ task.at = "connect" /\ c # Now => SeenTo(c)
  /\ task.at \in {"stream", "process", "update"} => SeenTo(task.p)
  /\ task.at \in {"lookup", "insert"} => SeenTo(task.p - 1)
  /\ HandedOn /\ task.at = "stream" => c \in {Now, task.p}
  /\ task.at \in Handling => c = task.p /\ c # Now
  /\ ~HandedOn => rows = <<>> /\ task.at \notin Handling

PositionInv == PositionOf(listener, cursor)

(* Whoever processes a payment has it on record, and saves a success only  *)
(* when it was acknowledged.                                               *)
OutcomeOf(task) ==
  /\ task.at \in {"mark", "process", "update"} => task.p \in Recorded
  /\ task.at = "update" /\ task.status = "success" => task.p \in acked

OutcomeInv ==
  /\ OutcomeOf(listener)
  /\ \A o \in Operators : OutcomeOf(operator[o])

RowsInv == SuccessWasAcknowledged /\ RecordedInOrder /\ NoSilentSkip

IInv == ControlInv /\ TaskInv /\ PositionInv /\ OutcomeInv /\ RowsInv

-----------------------------------------------------------------------------
(* A table is a function on the ids.                                       *)
LEMMA RowsAreAFunction ==
  ASSUME NEW T, NEW s \in Seq(T)
  PROVE  /\ Len(s) \in Nat /\ DOMAIN s = 1 .. Len(s)
         /\ s \in [1 .. Len(s) -> T]
         /\ \A k \in DOMAIN s : s[k] \in T
BY LenProperties, ElementOfSeq

LEMMA FunctionIsASequence ==
  ASSUME NEW T, NEW n \in Nat, NEW s \in [1 .. n -> T]
  PROVE  s \in Seq(T) /\ Len(s) = n /\ DOMAIN s = 1 .. n
<1>1. s \in Seq(T)
  BY SeqDef
<1> QED BY <1>1, LenProperties

(* Rows in the order of the payments are as many as the payments.          *)
LEMMA OrderedRowsAreDistinct ==
  ASSUME rows \in Seq(RowSet), RecordedInOrder
  PROVE  Len(rows) = Cardinality(Recorded)
<1> DEFINE f == [k \in 1 .. Len(rows) |-> rows[k].p]
<1>1. Len(rows) \in Nat /\ DOMAIN rows = 1 .. Len(rows)
  BY RowsAreAFunction
<1>2. \A k \in DOMAIN rows : rows[k].p \in Nat
  <2>1. \A k \in DOMAIN rows : rows[k] \in RowSet
    BY RowsAreAFunction
  <2> QED BY <2>1 DEF RowSet
<1>3. \A j, k \in DOMAIN rows : rows[j].p = rows[k].p => j = k
  BY <1>1, <1>2 DEF RecordedInOrder
<1>4. f \in [1 .. Len(rows) -> Recorded]
  BY <1>1 DEF Recorded
<1>5. f \in Injection(1 .. Len(rows), Recorded)
  BY <1>1, <1>3, <1>4 DEF Injection, IsInjective
<1>6. f \in Surjection(1 .. Len(rows), Recorded)
  BY <1>1, <1>4 DEF Surjection, Recorded
<1>7. ExistsBijection(1 .. Len(rows), Recorded)
  BY <1>5, <1>6 DEF ExistsBijection, Bijection
<1> QED BY <1>1, <1>7, FS_CountingElements

(* The invariant gives the type.                                           *)
LEMMA InvIsTyped == IInv => TypeOK
<1> SUFFICES ASSUME IInv PROVE TypeOK
  OBVIOUS
<1>0. rows \in Seq(RowSet)
  BY DEF IInv, TaskInv, RowSet
<1>1. Len(rows) = Cardinality(Recorded)
  BY <1>0, OrderedRowsAreDistinct DEF IInv, RowsInv
<1>2. rows \in Seq([p : 1 .. height, status : Statuses])
  <2>1. /\ Len(rows) \in Nat /\ DOMAIN rows = 1 .. Len(rows)
        /\ rows \in [1 .. Len(rows) -> RowSet]
        /\ \A k \in DOMAIN rows : rows[k] \in RowSet /\ rows[k].p \in 1 .. height
    BY <1>0, RowsAreAFunction DEF IInv, TaskInv
  <2>2. \A k \in DOMAIN rows : rows[k] \in [p : 1 .. height, status : Statuses]
    BY <2>1 DEF RowSet
  <2>3. rows \in [1 .. Len(rows) -> [p : 1 .. height, status : Statuses]]
    BY <2>1, <2>2
  <2> QED BY <2>1, <2>3, FunctionIsASequence
<1> QED BY <1>1, <1>2 DEF IInv, ControlInv, TaskInv, TypeOK

LEMMA InitInv == Init => IInv
<1> SUFFICES ASSUME Init PROVE IInv
  OBVIOUS
<1>1. Off \in Task /\ Off.at = "off" /\ Off.p = 0
  BY DEF Off, Doing, Task, Places, Outcomes
<1>2. rows = <<>> /\ DOMAIN rows = {} /\ Recorded = {}
  BY DEF Init, Recorded
<1>3. ControlInv
  <2>1. listener.at = "off" /\ up = FALSE
    BY <1>1 DEF Init
  <2>2. height \in 0 .. MaxPayments /\ cursor \in 0 .. height /\ faults \in 0 .. MaxFaults
    BY PaymentListenerAssumption DEF Init, Now
  <2> QED BY <2>1, <2>2, Zenon DEF ControlInv
<1>4. TaskInv
  BY <1>1, <1>2 DEF Init, TaskInv, Places
<1>5. PositionInv /\ OutcomeInv
  BY <1>1, <1>2 DEF Init, PositionInv, PositionOf, Handling, OutcomeInv, OutcomeOf
<1>6. RowsInv
  BY <1>2 DEF RowsInv, SuccessWasAcknowledged, RecordedInOrder, NoSilentSkip
<1> QED BY <1>3, <1>4, <1>5, <1>6 DEF IInv

-----------------------------------------------------------------------------
(* What a step does to the table.                                          *)

\* The payments stay where they are; a new success has been acknowledged.
SamePayments ==
  /\ rows' \in Seq(RowSet) /\ DOMAIN rows' = DOMAIN rows
  /\ \A k \in DOMAIN rows :
       /\ rows'[k].p = rows[k].p
       /\ rows'[k].status = "success" =>
            rows[k].status = "success" \/ rows[k].p \in acked'

HistoryGrows ==
  /\ height \in Nat /\ height' \in Nat /\ height <= height'
  /\ acked \subseteq acked' /\ missed \subseteq missed'
  /\ acked' \subseteq told' /\ missed' \subseteq 1 .. height'

\* What both ways of changing the table come to.
TableKept ==
  /\ rows' \in Seq(RowSet)
  /\ \A k \in DOMAIN rows' : rows'[k].p \in 1 .. height'
  /\ Recorded \subseteq Recorded'
  /\ RowsInv'

LEMMA SamePaymentsKept ==
  ASSUME IInv, SamePayments, HistoryGrows
  PROVE  /\ TableKept /\ Recorded' = Recorded
         /\ \A q \in Nat : SeenTo(q) => SeenTo(q)'
<1>1. Recorded' = Recorded
  BY DEF SamePayments, Recorded
<1>2. \A k \in DOMAIN rows' : rows'[k].p \in 1 .. height'
  BY DEF IInv, TaskInv, SamePayments, HistoryGrows
<1>3. SuccessWasAcknowledged'
  BY DEF IInv, RowsInv, SuccessWasAcknowledged, SamePayments, HistoryGrows
<1>4. RecordedInOrder'
  BY DEF IInv, RowsInv, RecordedInOrder, SamePayments
<1>5. NoSilentSkip'
  BY <1>1 DEF IInv, RowsInv, NoSilentSkip, SamePayments, HistoryGrows
<1>6. \A q \in Nat : SeenTo(q) => SeenTo(q)'
  BY <1>1 DEF SeenTo, SamePayments, HistoryGrows
<1> QED BY <1>1, <1>2, <1>3, <1>4, <1>5, <1>6 DEF TableKept, RowsInv, SamePayments

LEMMA AppendKept ==
  ASSUME IInv, NEW p \in 1 .. height, SeenTo(p - 1), HistoryGrows,
         rows' = Append(rows, Row(p, "processing"))
  PROVE  TableKept /\ Recorded' = Recorded \cup {p} /\ SeenTo(p)'
<1> DEFINE new == Row(p, "processing")
           n == Len(rows)
<1>1. /\ n \in Nat /\ DOMAIN rows = 1 .. n /\ rows \in Seq(RowSet)
      /\ \A k \in 1 .. n : rows[k] \in RowSet /\ rows[k].p \in 1 .. height
  BY RowsAreAFunction DEF IInv, TaskInv
<1>2. p \in Nat /\ height \in Nat
  BY DEF HistoryGrows
<1>3. new \in RowSet /\ new.p = p /\ new.status # "success"
  BY <1>2 DEF Row, RowSet, Statuses
<1>4. /\ rows' \in Seq(RowSet) /\ DOMAIN rows' = 1 .. n + 1
      /\ \A k \in 1 .. n : rows'[k] = rows[k]
      /\ rows'[n + 1] = new
  BY <1>1, <1>3, AppendProperties, LenProperties
<1> HIDE DEF new, n
<1>5. \A k \in 1 .. n + 1 : k \in 1 .. n \/ k = n + 1
  BY <1>1
<1>6. Recorded' = Recorded \cup {p}
  BY <1>1, <1>3, <1>4, <1>5 DEF Recorded
<1>7. \A k \in 1 .. n : rows[k].p < p /\ rows[k].p .. p - 1 \subseteq Recorded \cup missed
  <2> SUFFICES ASSUME NEW k \in 1 .. n
               PROVE  rows[k].p < p /\ rows[k].p .. p - 1 \subseteq Recorded \cup missed
    OBVIOUS
  <2>1. rows[k].p <= p - 1 /\ rows[k].p .. p - 1 \subseteq Recorded \cup missed
    BY <1>1, Zenon DEF SeenTo
  <2>2. rows[k].p \in Nat
    BY <1>1, <1>2
  <2> QED BY <1>2, <2>1, <2>2
<1>8. \A k \in 1 .. n : rows[k].p .. p \subseteq Recorded' \cup missed'
  BY <1>1, <1>2, <1>6, <1>7 DEF HistoryGrows
<1>9. SeenTo(p)'
  BY <1>1, <1>2, <1>3, <1>4, <1>5, <1>6, <1>7, <1>8 DEF SeenTo
<1>10. \A k \in DOMAIN rows' : rows'[k].p \in 1 .. height'
  BY <1>1, <1>2, <1>3, <1>4, <1>5 DEF HistoryGrows
<1>11. SuccessWasAcknowledged'
  BY <1>1, <1>3, <1>4, <1>5
     DEF IInv, RowsInv, SuccessWasAcknowledged, HistoryGrows
<1>12. RecordedInOrder'
  BY <1>1, <1>3, <1>4, <1>5, <1>7 DEF IInv, RowsInv, RecordedInOrder
<1>13. NoSilentSkip'
  <2> SUFFICES ASSUME NEW j \in 1 .. n + 1, NEW k \in 1 .. n + 1
               PROVE  rows'[j].p .. rows'[k].p \subseteq Recorded' \cup missed'
    BY <1>4 DEF NoSilentSkip
  <2>1. CASE j \in 1 .. n /\ k \in 1 .. n
    BY <1>1, <1>4, <1>6, <2>1 DEF IInv, RowsInv, NoSilentSkip, HistoryGrows
  <2>2. CASE j \in 1 .. n /\ k = n + 1
    BY <1>3, <1>4, <1>8, <2>2
  <2>3. CASE j = n + 1 /\ k \in 1 .. n
    BY <1>1, <1>2, <1>3, <1>4, <1>7, <2>3
  <2>4. CASE j = n + 1 /\ k = n + 1
    BY <1>2, <1>3, <1>4, <1>6, <2>4
  <2> QED BY <1>5, <2>1, <2>2, <2>3, <2>4
<1> QED BY <1>4, <1>6, <1>9, <1>10, <1>11, <1>12, <1>13 DEF TableKept, RowsInv

-----------------------------------------------------------------------------
(* What a step does to the goroutines.                                     *)

\* Everything but the goroutines after a step.
StoreKept ==
  /\ TableKept /\ HistoryGrows
  /\ told' \subseteq Recorded'
  /\ height' \in 0 .. MaxPayments /\ faults' \in 0 .. MaxFaults

\* A goroutine's task, and what it says of the table.
TypedTask(task) ==
  /\ task \in Task
  /\ task.at = "update" => task.status \in Statuses

LEMMA OutcomeKept ==
  ASSUME StoreKept, NEW task, OutcomeOf(task)
  PROVE  OutcomeOf(task)'
BY DEF StoreKept, TableKept, HistoryGrows, OutcomeOf

(* The listener's goroutine moves; the server goes on running.             *)
LEMMA ListenerStep ==
  ASSUME IInv, StoreKept, NEW t, NEW c,
         listener' = t, cursor' = c, UNCHANGED <<up, operator>>,
         listener.at # "off", t.at # "off",
         TypedTask(t), t.at \in Places, t.p \in 0 .. height', c \in 0 .. height',
         PositionOf(t, c)', OutcomeOf(t)'
  PROVE  IInv'
<1>1. ControlInv'
  <2>1. height' \in 0 .. MaxPayments /\ cursor' \in 0 .. height' /\ faults' \in 0 .. MaxFaults
    BY DEF StoreKept
  <2>2. up' \in BOOLEAN /\ (listener'.at = "off" <=> ~up')
    BY Zenon DEF IInv, ControlInv
  <2> QED BY <2>1, <2>2, Zenon DEF ControlInv
<1>2. TaskInv'
  BY DEF IInv, TaskInv, StoreKept, TableKept, HistoryGrows, TypedTask
<1>3. PositionInv'
  BY Zenon DEF PositionInv, PositionOf, Handling
<1>4. OutcomeInv'
  <2>1. \A o \in Operators : OutcomeOf(operator[o])'
    BY OutcomeKept DEF IInv, OutcomeInv
  <2>2. OutcomeOf(listener)'
    BY Zenon DEF OutcomeOf
  <2> QED BY <2>1, <2>2 DEF OutcomeInv
<1> QED BY <1>1, <1>2, <1>3, <1>4 DEF IInv, StoreKept, TableKept

(* One operator's request moves; the table keeps its payments.             *)
LEMMA OperatorStep ==
  ASSUME IInv, StoreKept, SamePayments, NEW o \in Operators, NEW t \in Task,
         operator' = [operator EXCEPT ![o] = t],
         UNCHANGED <<height, up, cursor, listener, missed>>,
         t.at \in {"off", "mark", "process", "update"}, TypedTask(t), OutcomeOf(t)'
  PROVE  IInv'
<1>1. /\ operator' \in [Operators -> Task] /\ operator'[o] = t
      /\ \A q \in Operators \ {o} : operator'[q] = operator[q]
  BY DEF IInv, TaskInv
<1>2. ControlInv'
  <2>1. height' \in 0 .. MaxPayments /\ cursor' \in 0 .. height' /\ faults' \in 0 .. MaxFaults
    BY DEF StoreKept, IInv, ControlInv
  <2>2. up' \in BOOLEAN /\ (listener'.at = "off" <=> ~up')
    BY Zenon DEF IInv, ControlInv
  <2> QED BY <2>1, <2>2, Zenon DEF ControlInv
<1>3. TaskInv'
  BY <1>1 DEF IInv, TaskInv, StoreKept, TableKept, HistoryGrows, TypedTask
<1>4. PositionInv'
  <2>1. listener.p \in Nat /\ cursor \in Nat
    BY DEF IInv, TaskInv, ControlInv, Task
  <2>2. \A q \in Nat : SeenTo(q) => SeenTo(q)'
    BY SamePaymentsKept DEF StoreKept
  <2>3. rows = <<>> => rows' = <<>>
    BY DEF SamePayments
  <2>4. listener.p # 0 => listener.p - 1 \in Nat
    BY <2>1
  <2> QED BY <2>1, <2>2, <2>3, <2>4 DEF IInv, PositionInv, PositionOf, Handling, Now
<1>5. OutcomeInv'
  <2>1. OutcomeOf(listener)'
    BY OutcomeKept, Zenon DEF IInv, OutcomeInv, OutcomeOf
  <2>2. \A q \in Operators \ {o} : OutcomeOf(operator[q])'
    BY OutcomeKept DEF IInv, OutcomeInv
  <2>3. OutcomeOf(operator[o])'
    BY <1>1, Zenon DEF OutcomeOf
  <2> QED BY <1>1, <2>1, <2>2, <2>3, Zenon DEF OutcomeInv, OutcomeOf
<1> QED BY <1>2, <1>3, <1>4, <1>5 DEF IInv, StoreKept, TableKept

-----------------------------------------------------------------------------
(* The ledger and the server's life.                                       *)

LEMMA Numbers ==
  ASSUME IInv
  PROVE  /\ height \in Nat /\ cursor \in Nat /\ listener.p \in Nat
         /\ faults \in 0 .. MaxFaults /\ (Fault => faults' \in 0 .. MaxFaults)
BY PaymentListenerAssumption DEF IInv, ControlInv, TaskInv, Fault

LEMMA TableStill ==
  ASSUME IInv, UNCHANGED <<rows, told, acked>>, missed \subseteq missed',
         missed' \subseteq 1 .. height', height' \in 0 .. MaxPayments,
         height <= height', faults' \in 0 .. MaxFaults
  PROVE  StoreKept /\ SamePayments /\ \A q \in Nat : SeenTo(q) => SeenTo(q)'
<1>1. SamePayments
  BY DEF IInv, TaskInv, SamePayments
<1>2. HistoryGrows
  BY Numbers, PaymentListenerAssumption DEF IInv, TaskInv, HistoryGrows
<1>3. told' \subseteq Recorded'
  BY DEF IInv, TaskInv, Recorded
<1> QED BY <1>1, <1>2, <1>3, SamePaymentsKept DEF StoreKept

LEMMA MakePaymentInv ==
  ASSUME IInv, MakePayment
  PROVE  IInv'
<1>1. height' \in 0 .. MaxPayments /\ height <= height' /\ height' \in Nat
  BY Numbers, PaymentListenerAssumption DEF MakePayment
<1>2. missed \subseteq 1 .. height'
  BY <1>1, Numbers DEF IInv, TaskInv
<1>3. UNCHANGED <<up, rows, cursor, listener, operator, told, acked, missed, faults>>
  BY Zenon DEF MakePayment
<1>4. StoreKept /\ \A q \in Nat : SeenTo(q) => SeenTo(q)'
  BY <1>1, <1>2, <1>3, Numbers, TableStill
<1>5. ControlInv'
  <2>1. cursor' \in 0 .. height'
    BY <1>1, <1>3, Numbers DEF IInv, ControlInv
  <2> QED BY <1>1, <1>3, <2>1, Zenon DEF IInv, ControlInv
<1>6. TaskInv'
  BY <1>1, <1>2, <1>3, <1>4, Numbers DEF IInv, TaskInv, StoreKept, TableKept, Recorded
<1>7. PositionInv' /\ OutcomeInv'
  <2>1. Recorded' = Recorded
    BY <1>3 DEF Recorded
  <2>2. \A q : SeenTo(q)' <=> SeenTo(q)
    BY <1>3, <2>1 DEF SeenTo
  <2> QED BY <1>3, <2>1, <2>2 DEF IInv, PositionInv, PositionOf, Handling, OutcomeInv, OutcomeOf
<1> QED BY <1>4, <1>5, <1>6, <1>7 DEF IInv, StoreKept, TableKept

LEMMA ListenInv ==
  ASSUME IInv, Listen
  PROVE  IInv'
<1> DEFINE t == Doing("cursor", 0, "none")
<1>1. t \in Task /\ t.at = "cursor" /\ t.p = 0
  BY DEF Doing, Task, Places, Outcomes
<1>2. /\ up' = TRUE /\ listener' = t
      /\ UNCHANGED <<height, rows, cursor, operator, told, acked, missed, faults>>
  BY Zenon DEF Listen
<1> HIDE DEF t
<1>3. StoreKept
  BY <1>2, Numbers, TableStill DEF IInv, TaskInv, ControlInv
<1>4. ControlInv'
  <2>1. listener'.at # "off"
    BY <1>1, <1>2
  <2> QED BY <1>2, <2>1, Zenon DEF IInv, ControlInv
<1>5. TaskInv'
  BY <1>1, <1>2, Numbers DEF IInv, TaskInv, Places, Recorded
<1>6. PositionInv' /\ OutcomeInv'
  BY <1>1, <1>2 DEF IInv, PositionInv, PositionOf, Handling, OutcomeInv, OutcomeOf, Recorded
<1> QED BY <1>3, <1>4, <1>5, <1>6 DEF IInv, StoreKept, TableKept

LEMMA CrashInv ==
  ASSUME IInv, Crash
  PROVE  IInv'
<1>1. Off \in Task /\ Off.at = "off" /\ Off.p = 0
  BY DEF Off, Doing, Task, Places, Outcomes
<1>2. /\ up' = FALSE /\ listener' = Off /\ cursor' = 0
      /\ operator' = [o \in Operators |-> Off]
      /\ UNCHANGED <<height, rows, told, acked, missed>>
      /\ faults' \in 0 .. MaxFaults
  BY Numbers, Zenon DEF Crash, Now
<1>3. StoreKept
  BY <1>2, Numbers, TableStill DEF IInv, TaskInv, ControlInv
<1>4. ControlInv'
  <2>1. listener'.at = "off" /\ cursor' \in 0 .. height'
    BY <1>1, <1>2, Numbers
  <2> QED BY <1>2, <2>1, Zenon DEF IInv, ControlInv
<1>5. TaskInv'
  BY <1>1, <1>2, Numbers DEF IInv, TaskInv, Places, Recorded
<1>6. PositionInv' /\ OutcomeInv'
  BY <1>1, <1>2 DEF IInv, PositionInv, PositionOf, Handling, OutcomeInv, OutcomeOf
<1> QED BY <1>3, <1>4, <1>5, <1>6 DEF IInv, StoreKept, TableKept

-----------------------------------------------------------------------------
(* The goroutine of Listen.                                                *)

\* A task in its new place, and one that ends in the stream.
LEMMA TaskTypes ==
  ASSUME NEW task \in Task
  PROVE  /\ \A at \in Places : /\ [task EXCEPT !.at = at] \in Task
                              /\ [task EXCEPT !.at = at].at = at
                              /\ [task EXCEPT !.at = at].p = task.p
                              /\ [task EXCEPT !.at = at].status = task.status
         /\ \A at \in Places, st \in Outcomes :
              /\ [task EXCEPT !.at = at, !.status = st] \in Task
              /\ [task EXCEPT !.at = at, !.status = st].at = at
              /\ [task EXCEPT !.at = at, !.status = st].p = task.p
              /\ [task EXCEPT !.at = at, !.status = st].status = st
BY DEF Task

LEMMA DoingType ==
  ASSUME NEW at \in Places \cup {"mark"}, NEW p \in Nat, NEW st \in Outcomes
  PROVE  /\ Doing(at, p, st) \in Task /\ Doing(at, p, st).at = at
         /\ Doing(at, p, st).p = p /\ Doing(at, p, st).status = st
BY DEF Doing, Task

(* A move of the listener to a place where it holds no payment.            *)
LEMMA ListenerIdles ==
  ASSUME IInv, UNCHANGED <<height, up, rows, operator, told, acked, missed>>,
         faults' \in 0 .. MaxFaults, listener.at # "off",
         NEW at \in {"dead", "cursor", "connect", "stream"}, listener'.at = at,
         listener' \in Task, listener'.p \in 0 .. height, cursor' \in 0 .. height,
         PositionOf(listener', cursor')
  PROVE  IInv'
<1>1. StoreKept
  BY TableStill, Numbers DEF IInv, TaskInv, ControlInv
<1>2. Recorded' = Recorded
  BY DEF Recorded
<1>3. ControlInv'
  BY Zenon DEF IInv, ControlInv
<1>4. TaskInv'
  BY <1>2 DEF IInv, TaskInv, Places
<1>5. PositionInv'
  BY <1>2 DEF PositionInv, PositionOf, Handling, SeenTo
<1>6. OutcomeInv'
  BY <1>2 DEF IInv, OutcomeInv, OutcomeOf
<1> QED BY <1>1, <1>3, <1>4, <1>5, <1>6 DEF IInv, StoreKept, TableKept

(* The stored cursor is that of the last row, the furthest one.            *)
LEMMA LastIsTheFurthest ==
  ASSUME IInv
  PROVE  /\ LastCursor \in 0 .. height
         /\ LastCursor = Now => rows = <<>>
         /\ LastCursor # Now => SeenTo(LastCursor)
<1>1. /\ Len(rows) \in Nat /\ DOMAIN rows = 1 .. Len(rows)
      /\ \A k \in DOMAIN rows : rows[k].p \in 1 .. height
  BY RowsAreAFunction DEF IInv, TaskInv
<1>2. CASE rows = <<>>
  BY <1>2, Numbers DEF LastCursor, Now
<1>3. CASE rows # <<>>
  <2>1. Len(rows) \in DOMAIN rows
    BY <1>1, <1>3, EmptySeq DEF IInv, TaskInv
  <2>2. LastCursor = rows[Len(rows)].p
    BY <1>3 DEF LastCursor, Last
  <2>3. \A k \in DOMAIN rows : rows[k].p <= LastCursor
    BY <1>1, <2>1, <2>2 DEF IInv, RowsInv, RecordedInOrder
  <2>4. \A k \in DOMAIN rows : rows[k].p .. LastCursor \subseteq Recorded \cup missed
    BY <2>1, <2>2 DEF IInv, RowsInv, NoSilentSkip
  <2>5. SeenTo(LastCursor)
    BY <2>3, <2>4 DEF SeenTo
  <2> QED BY <1>1, <2>1, <2>2, <2>5, Numbers DEF Now
<1> QED BY <1>2, <1>3

\* Moving the listener within its task.
LEMMA PlaceType ==
  ASSUME IInv, NEW at \in Places, Place(at)
  PROVE  /\ listener' \in Task /\ listener'.at = at
         /\ listener'.p = listener.p /\ listener'.status = listener.status
         /\ listener'.p \in 0 .. height
BY TaskTypes DEF IInv, TaskInv, Place

LEMMA GetLastCursorValueInv ==
  ASSUME IInv, GetLastCursorValue
  PROVE  IInv'
<1>0. /\ listener.at = "cursor"
      /\ UNCHANGED <<height, up, rows, operator, told, acked, missed>>
  BY Zenon DEF GetLastCursorValue
<1>1. CASE cursor' = LastCursor /\ Place("connect") /\ UNCHANGED faults
  <2>1. /\ listener' \in Task /\ listener'.at = "connect" /\ listener'.p \in 0 .. height
    BY <1>1, PlaceType DEF Places
  <2>2. PositionOf(listener', cursor')
    BY <1>1, <2>1, LastIsTheFurthest DEF IInv, PositionInv, PositionOf, Handling
  <2> QED BY <1>0, <1>1, <2>1, <2>2, LastIsTheFurthest, Numbers, ListenerIdles
<1>2. CASE Fault /\ Place("dead") /\ UNCHANGED cursor
  <2>1. /\ listener' \in Task /\ listener'.at = "dead" /\ listener'.p \in 0 .. height
    BY <1>2, PlaceType DEF Places
  <2>2. PositionOf(listener', cursor')
    BY <2>1 DEF IInv, PositionInv, PositionOf, Handling
  <2>3. cursor' \in 0 .. height
    BY <1>2 DEF IInv, ControlInv
  <2> QED BY <1>0, <1>2, <2>1, <2>2, <2>3, Numbers, ListenerIdles
<1> QED BY <1>1, <1>2 DEF GetLastCursorValue

\* An error sends the goroutine back to the stored cursor.
LEMMA BackToCursor ==
  ASSUME IInv, listener.at # "off", Fault, Place("cursor"),
         UNCHANGED <<height, up, rows, cursor, operator, told, acked, missed>>
  PROVE  IInv'
<1>1. /\ listener' \in Task /\ listener'.at = "cursor" /\ listener'.p \in 0 .. height
  BY PlaceType DEF Places
<1>2. PositionOf(listener', cursor')
  BY <1>1 DEF IInv, PositionInv, PositionOf, Handling
<1>3. cursor' \in 0 .. height
  BY DEF IInv, ControlInv
<1> QED BY <1>1, <1>2, <1>3, Numbers, ListenerIdles

LEMMA ConnectInv ==
  ASSUME IInv, Connect
  PROVE  IInv'
<1> DEFINE start == IF cursor = Now THEN height ELSE cursor
<1>0. /\ listener.at = "connect"
      /\ UNCHANGED <<height, up, rows, cursor, operator, told, acked, missed>>
  BY Zenon DEF Connect
<1>1. CASE listener' = Doing("stream", start, "none") /\ UNCHANGED faults
  <2>1. start \in 0 .. height /\ start \in Nat
    BY Numbers DEF IInv, ControlInv
  <2>2. listener' \in Task /\ listener'.at = "stream" /\ listener'.p = start
    BY <1>1, <2>1, DoingType DEF Places, Outcomes
  <2>3. rows = <<>> => SeenTo(start)
    BY DEF SeenTo
  <2>4. PositionOf(listener', cursor')
    BY <1>0, <2>2, <2>3 DEF IInv, PositionInv, PositionOf, Handling
  <2>5. cursor' \in 0 .. height
    BY <1>0 DEF IInv, ControlInv
  <2> QED BY <1>0, <1>1, <2>1, <2>2, <2>4, <2>5, Numbers, ListenerIdles
<1>2. CASE Fault /\ Place("cursor")
  BY <1>0, <1>2, BackToCursor
<1> QED BY <1>1, <1>2 DEF Connect

LEMMA DisconnectInv ==
  ASSUME IInv, Disconnect
  PROVE  IInv'
<1>0. /\ listener.at = "stream"
      /\ UNCHANGED <<height, up, rows, cursor, operator, told, acked, missed>>
  BY Zenon DEF Disconnect
<1>1. CASE Place("connect") /\ UNCHANGED faults
  <2>1. /\ listener' \in Task /\ listener'.at = "connect" /\ listener'.p \in 0 .. height
    BY <1>1, PlaceType DEF Places
  <2>2. PositionOf(listener', cursor')
    BY <1>0, <2>1 DEF IInv, PositionInv, PositionOf, Handling, SeenTo
  <2>3. cursor' \in 0 .. height
    BY <1>0 DEF IInv, ControlInv
  <2> QED BY <1>0, <1>1, <2>1, <2>2, <2>3, Numbers, ListenerIdles
<1>2. CASE Fault /\ Place("cursor")
  BY <1>0, <1>2, BackToCursor
<1> QED BY <1>1, <1>2 DEF Disconnect

(* An event that is passed over: there is no row to be ahead of.           *)
LEMMA PassOverInv ==
  ASSUME IInv, Receive, ~HandedOn
  PROVE  IInv'
<1>p. PICK p : p = listener.p + 1
  OBVIOUS
<1>0. /\ listener.at = "stream" /\ listener.p < height
      /\ listener' = Doing("stream", p, "none")
      /\ UNCHANGED <<height, up, rows, cursor, operator, told, acked, missed, faults>>
  BY <1>p, Zenon DEF Receive
<1>1. p \in 0 .. height /\ p \in Nat
  BY <1>p, <1>0, Numbers
<1>2. listener' \in Task /\ listener'.at = "stream" /\ listener'.p = p
  BY <1>0, <1>1, DoingType DEF Places, Outcomes
<1>3. rows = <<>>
  BY DEF IInv, PositionInv, PositionOf
<1>4. SeenTo(p)
  BY <1>3 DEF SeenTo
<1>5. PositionOf(listener', cursor')
  BY <1>2, <1>3, <1>4 DEF PositionOf, Handling
<1>6. cursor' \in 0 .. height
  BY <1>0 DEF IInv, ControlInv
<1> QED BY <1>0, <1>1, <1>2, <1>5, <1>6, Numbers, ListenerIdles

LEMMA ReceiveInv ==
  ASSUME IInv, Receive, HandedOn
  PROVE  IInv'
<1>p. PICK p, t : p = listener.p + 1 /\ t = Doing("lookup", p, "none")
  OBVIOUS
<1>0. /\ listener.at = "stream" /\ listener.p < height /\ cursor' = p /\ listener' = t
      /\ UNCHANGED <<height, up, rows, operator, told, acked, missed, faults>>
  BY <1>p, Zenon DEF Receive
<1>1. p \in 1 .. height /\ p \in Nat /\ p - 1 = listener.p
  BY <1>p, <1>0, Numbers
<1>2. t \in Task /\ t.at = "lookup" /\ t.p = p /\ t.status = "none"
  BY <1>p, <1>1, DoingType DEF Places, Outcomes
<1>3. /\ StoreKept /\ \A q \in Nat : SeenTo(q) => SeenTo(q)'
  BY <1>0, Numbers, TableStill DEF IInv, TaskInv, ControlInv
<1>4. SeenTo(p - 1)'
  BY <1>0, <1>1, <1>3, Numbers DEF IInv, PositionInv, PositionOf, Handling
<1>5. PositionOf(t, p)'
  BY <1>1, <1>2, <1>4 DEF PositionOf, Handling, Now
<1>6. OutcomeOf(t)'
  BY <1>2 DEF OutcomeOf
<1>7. TypedTask(t) /\ t.at \in Places /\ t.p \in 0 .. height' /\ p \in 0 .. height'
  BY <1>0, <1>1, <1>2 DEF TypedTask, Places
<1> QED BY <1>0, <1>2, <1>3, <1>5, <1>6, <1>7, ListenerStep

-----------------------------------------------------------------------------
(* onPayment.                                                              *)

\* The listener with the same payment in another place.
LEMMA PlacePick ==
  ASSUME IInv, NEW at \in Places, Place(at)
  PROVE  \E t \in Task : /\ listener' = t /\ t.at = at
                         /\ t.p = listener.p /\ t.status = listener.status
BY PlaceType

(* onPayment gives up on its payment, or is done with it: the stream stays *)
(* behind it.                                                              *)
LEMMA ToStreamInv ==
  ASSUME IInv, StoreKept, ToStream, listener.at \in Handling,
         UNCHANGED <<height, up, cursor, operator>>,
         NEW p, p = listener.p, SeenTo(p)'
  PROVE  IInv'
<1>1. PICK t, c : t = Doing("stream", listener.p, "none") /\ c = cursor
  OBVIOUS
<1>2. /\ t \in Task /\ t.at = "stream" /\ t.p = listener.p
      /\ listener' = t /\ cursor' = c /\ c = listener.p /\ c # Now
      /\ t.p \in 0 .. height' /\ c \in 0 .. height'
  BY <1>1, Numbers, DoingType
     DEF ToStream, IInv, TaskInv, ControlInv, PositionInv, PositionOf, Places, Outcomes
<1>3. SeenTo(t.p)' /\ HandedOn
  BY <1>2 DEF IInv, PositionInv, PositionOf
<1>4. PositionOf(t, c)' /\ OutcomeOf(t)'
  BY <1>2, <1>3 DEF HandedOn, PositionOf, OutcomeOf, Handling
<1> QED BY <1>2, <1>4, ListenerStep DEF TypedTask, Places, Handling

\* A payment that was missed counts as seen.
LEMMA MissedIsSeen ==
  ASSUME IInv, NEW p \in Nat, SeenTo(p - 1), UNCHANGED rows,
         missed' = missed \cup {p}
  PROVE  SeenTo(p)'
<1>0. Recorded' = Recorded
  BY DEF Recorded
<1> SUFFICES ASSUME NEW k \in DOMAIN rows
             PROVE  /\ rows[k].p <= p
                    /\ rows[k].p .. p \subseteq Recorded \cup missed'
  BY <1>0 DEF SeenTo
<1>1. /\ rows[k].p <= p - 1
      /\ rows[k].p .. p - 1 \subseteq Recorded \cup missed
  BY DEF SeenTo
<1>2. rows[k].p \in Nat
  BY Numbers DEF IInv, TaskInv
<1> QED BY <1>1, <1>2

LEMMA LookupPaymentInv ==
  ASSUME IInv, LookupPayment
  PROVE  IInv'
<1>0. /\ listener.at = "lookup"
      /\ UNCHANGED <<height, up, rows, cursor, operator, told, acked>>
  BY Zenon DEF LookupPayment
<1>1. /\ listener.p \in 1 .. height /\ SeenTo(listener.p - 1) /\ cursor = listener.p
      /\ cursor # Now /\ HandedOn /\ Recorded' = Recorded
  BY <1>0, Numbers DEF IInv, TaskInv, PositionInv, PositionOf, Handling, Recorded, Now
<1>2. listener.p \notin Recorded
  <2>1. ASSUME NEW k \in DOMAIN rows, rows[k].p = listener.p PROVE FALSE
    BY <1>1, <2>1 DEF SeenTo
  <2> QED BY <2>1 DEF Recorded
<1>3. CASE Place("insert") /\ UNCHANGED <<missed, faults>>
  <2>1. PICK t \in Task : /\ listener' = t /\ t.at = "insert" /\ t.p = listener.p
    BY <1>3, PlacePick DEF Places
  <2>2. PICK c : c = cursor
    OBVIOUS
  <2>3. StoreKept
    BY <1>0, <1>3, TableStill, Numbers DEF IInv, TaskInv, ControlInv
  <2>4. SeenTo(t.p - 1)'
    BY <1>0, <1>1, <1>3, <2>1 DEF SeenTo
  <2>5. PositionOf(t, c)' /\ OutcomeOf(t)'
    BY <1>1, <2>1, <2>2, <2>4 DEF HandedOn, PositionOf, OutcomeOf, Handling
  <2> QED BY <1>0, <1>1, <2>1, <2>2, <2>3, <2>5, Numbers, ListenerStep DEF TypedTask, Places
<1>4. CASE GiveUp
  <2>1. ToStream /\ missed' = missed \cup {listener.p} /\ faults' \in 0 .. MaxFaults
    BY <1>4, Numbers, Zenon DEF GiveUp
  <2>a. missed \subseteq missed' /\ missed' \subseteq 1 .. height
    BY <1>1, <2>1 DEF IInv, TaskInv
  <2>2. StoreKept
    BY <1>0, <2>1, <2>a, TableStill, Numbers DEF IInv, ControlInv
  <2>3. PICK p : p = listener.p
    OBVIOUS
  <2>4. SeenTo(p)'
    BY <1>0, <1>1, <2>1, <2>3, Numbers, MissedIsSeen
  <2> QED BY <1>0, <2>1, <2>2, <2>3, <2>4, ToStreamInv DEF Handling
<1> QED BY <1>2, <1>3, <1>4 DEF LookupPayment

LEMMA InsertReceivedPaymentInv ==
  ASSUME IInv, InsertReceivedPayment
  PROVE  IInv'
<1> DEFINE added == Append(rows, Row(listener.p, "processing"))
<1>0. /\ listener.at = "insert"
      /\ UNCHANGED <<height, up, cursor, operator, told, acked>>
  BY Zenon DEF InsertReceivedPayment
<1>p. PICK p, c : p = listener.p /\ c = cursor
  OBVIOUS
<1>1. /\ p \in 1 .. height /\ p \in Nat /\ SeenTo(p - 1)
      /\ cursor = p /\ cursor # Now /\ HandedOn
  BY <1>p, <1>0, Numbers DEF IInv, TaskInv, PositionInv, PositionOf, Handling, Now
<1>2. ASSUME rows' = added, missed' = missed \/ missed' = missed \cup {p},
             faults' \in 0 .. MaxFaults
      PROVE  StoreKept /\ p \in Recorded' /\ SeenTo(p)'
  <2>a. missed \subseteq missed' /\ missed' \subseteq 1 .. height
    BY <1>1, <1>2 DEF IInv, TaskInv
  <2>1. HistoryGrows
    BY <1>0, <2>a, Numbers DEF HistoryGrows, IInv, TaskInv
  <2>2. rows' = Append(rows, Row(p, "processing"))
    BY <1>p, <1>2
  <2>3. TableKept /\ Recorded' = Recorded \cup {p} /\ SeenTo(p)'
    BY <1>1, <2>1, <2>2, AppendKept
  <2> QED BY <1>0, <1>2, <2>1, <2>3 DEF StoreKept, IInv, TaskInv, ControlInv
<1>3. ASSUME rows' = added, UNCHANGED <<missed, faults>>, NEW t \in Task,
             listener' = t, t.p = p,
             t.at = "process" \/ (t.at = "update" /\ t.status = "skipped")
      PROVE  IInv'
  <2>1. StoreKept /\ p \in Recorded' /\ SeenTo(p)'
    BY <1>2, <1>3, Numbers
  <2>2. PositionOf(t, c)' /\ OutcomeOf(t)'
    BY <1>p, <1>1, <1>3, <2>1 DEF HandedOn, PositionOf, OutcomeOf, Handling
  <2>3. TypedTask(t) /\ t.at \in Places /\ t.at # "off"
    BY <1>3 DEF TypedTask, Places, Statuses
  <2> QED BY <1>p, <1>0, <1>1, <1>3, <2>1, <2>2, <2>3, Numbers, ListenerStep
<1>4. CASE /\ rows' = added /\ UNCHANGED <<missed, faults>>
           /\ listener' = IF listener.p \in Foreign
                          THEN [listener EXCEPT !.at = "update", !.status = "skipped"]
                          ELSE [listener EXCEPT !.at = "process"]
  <2>1. listener \in Task
    BY DEF IInv, TaskInv
  <2>2. CASE listener.p \in Foreign
    <3>1. PICK t : t = [listener EXCEPT !.at = "update", !.status = "skipped"]
      OBVIOUS
    <3>0. "update" \in Places /\ "skipped" \in Outcomes
      BY DEF Places, Outcomes, Statuses
    <3>2. t \in Task /\ t.at = "update" /\ t.status = "skipped" /\ t.p = p
      BY <1>p, <2>1, <3>0, <3>1 DEF Task
    <3> QED BY <1>3, <1>4, <2>2, <3>1, <3>2
  <2>3. CASE listener.p \notin Foreign
    <3>1. PICK t : t = [listener EXCEPT !.at = "process"]
      OBVIOUS
    <3>2. t \in Task /\ t.at = "process" /\ t.p = p
      BY <1>p, <2>1, <3>1, TaskTypes DEF Places
    <3> QED BY <1>3, <1>4, <2>3, <3>1, <3>2
  <2> QED BY <2>2, <2>3
<1>5. CASE GiveUp /\ rows' \in {rows, added}
  <2>1. ToStream /\ missed' = missed \cup {p} /\ faults' \in 0 .. MaxFaults
    BY <1>p, <1>5, Numbers, Zenon DEF GiveUp
  <2>2. CASE rows' = rows
    <3>1. StoreKept
      BY <1>0, <1>1, <2>1, <2>2, TableStill, Numbers DEF IInv, TaskInv, ControlInv
    <3>2. SeenTo(p)'
      BY <1>1, <2>1, <2>2, MissedIsSeen
    <3> QED BY <1>p, <1>0, <2>1, <3>1, <3>2, ToStreamInv DEF Handling
  <2>3. CASE rows' = added
    <3>1. StoreKept /\ SeenTo(p)'
      BY <1>2, <2>1, <2>3
    <3> QED BY <1>p, <1>0, <2>1, <3>1, ToStreamInv DEF Handling
  <2> QED BY <1>5, <2>2, <2>3
<1> QED BY <1>4, <1>5 DEF InsertReceivedPayment

\* What the callback's answers do.
LEMMA ProcessOutcome ==
  ASSUME IInv, NEW p \in Recorded, NEW status \in {"success", "error"},
         Process(p, status)
  PROVE  /\ acked \subseteq acked' /\ acked' \subseteq told' /\ told' \subseteq Recorded
         /\ status = "success" => p \in acked'
BY DEF Process, IInv, TaskInv

LEMMA ProcessKept ==
  ASSUME IInv, UNCHANGED <<height, rows, missed, faults>>,
         acked \subseteq acked', acked' \subseteq told', told' \subseteq Recorded
  PROVE  /\ StoreKept /\ SamePayments /\ Recorded' = Recorded
         /\ \A q : SeenTo(q) => SeenTo(q)'
<1>1. Recorded' = Recorded
  BY DEF Recorded
<1>2. SamePayments
  BY DEF IInv, TaskInv, SamePayments
<1>3. HistoryGrows
  BY Numbers DEF IInv, TaskInv, HistoryGrows
<1>4. \A q : SeenTo(q) => SeenTo(q)'
  BY <1>1 DEF SeenTo
<1> QED BY <1>1, <1>2, <1>3, <1>4, SamePaymentsKept
        DEF StoreKept, IInv, ControlInv

LEMMA ProcessPaymentInv ==
  ASSUME IInv, ProcessPayment
  PROVE  IInv'
<1>0. /\ listener.at = "process"
      /\ UNCHANGED <<height, up, rows, cursor, operator, missed, faults>>
  BY Zenon DEF ProcessPayment
<1>1. PICK status \in {"success", "error"} :
        /\ Process(listener.p, status)
        /\ listener' = [listener EXCEPT !.at = "update", !.status = status]
  BY DEF ProcessPayment
<1>2. PICK p, c, t : /\ p = listener.p /\ c = cursor
                     /\ t = [listener EXCEPT !.at = "update", !.status = status]
  OBVIOUS
<1>3. /\ p \in Recorded /\ p \in 0 .. height /\ c \in 0 .. height
      /\ SeenTo(p) /\ c = p /\ c # Now /\ HandedOn
  BY <1>0, <1>2
     DEF IInv, OutcomeInv, OutcomeOf, TaskInv, ControlInv, PositionInv, PositionOf, Handling
<1>4. t \in Task /\ t.at = "update" /\ t.status = status /\ t.p = p
  BY <1>2 DEF IInv, TaskInv, Task, Places, Outcomes, Statuses
<1>5. /\ acked \subseteq acked' /\ acked' \subseteq told' /\ told' \subseteq Recorded
      /\ status = "success" => p \in acked'
  BY <1>1, <1>2, <1>3, ProcessOutcome
<1>6. StoreKept /\ Recorded' = Recorded /\ SeenTo(p)'
  BY <1>0, <1>3, <1>5, ProcessKept
<1>7. PositionOf(t, c)' /\ OutcomeOf(t)'
  BY <1>3, <1>4, <1>5, <1>6 DEF HandedOn, PositionOf, OutcomeOf, Handling
<1>8. TypedTask(t) /\ t.at \in Places /\ t.at # "off"
  BY <1>4 DEF TypedTask, Places, Statuses
<1> QED BY <1>0, <1>1, <1>2, <1>3, <1>4, <1>6, <1>7, <1>8, ListenerStep

(* UpdateReceivedPayment keeps the payments and their order.               *)
LEMMA SetStatusKept ==
  ASSUME IInv, NEW p, NEW status \in Statuses,
         status = "success" => p \in acked,
         SetStatus(p, status) \/ UNCHANGED rows,
         UNCHANGED <<height, told, acked, missed>>, faults' \in 0 .. MaxFaults
  PROVE  /\ StoreKept /\ SamePayments /\ Recorded' = Recorded
         /\ \A q \in Nat : SeenTo(q) => SeenTo(q)'
<1>1. /\ Len(rows) \in Nat /\ DOMAIN rows = 1 .. Len(rows)
      /\ \A k \in DOMAIN rows : rows[k] \in RowSet
  BY RowsAreAFunction DEF IInv, TaskInv
<1>2. SamePayments
  <2>1. CASE UNCHANGED rows
    BY <2>1 DEF IInv, TaskInv, SamePayments
  <2>2. CASE SetStatus(p, status)
    <3>1. /\ DOMAIN rows' = DOMAIN rows
          /\ \A k \in DOMAIN rows :
               rows'[k] = IF rows[k].p = p THEN Row(p, status) ELSE rows[k]
      BY <2>2 DEF SetStatus
    <3>2. \A k \in DOMAIN rows : /\ rows'[k] \in RowSet /\ rows'[k].p = rows[k].p
                                 /\ rows'[k].status \in {status, rows[k].status}
                                 /\ rows[k].p = p \/ rows'[k] = rows[k]
      BY <1>1, <3>1 DEF RowSet, Row
    <3>3. rows' \in [1 .. Len(rows) -> RowSet]
      BY <1>1, <2>2, <3>1, <3>2 DEF SetStatus
    <3>4. rows' \in Seq(RowSet)
      BY <1>1, <3>3, FunctionIsASequence
    <3> QED BY <3>1, <3>2, <3>4 DEF SamePayments
  <2> QED BY <2>1, <2>2
<1>3. HistoryGrows
  BY Numbers DEF IInv, TaskInv, HistoryGrows
<1>4. TableKept /\ Recorded' = Recorded /\ \A q \in Nat : SeenTo(q) => SeenTo(q)'
  BY <1>2, <1>3, SamePaymentsKept
<1> QED BY <1>2, <1>3, <1>4 DEF StoreKept, IInv, TaskInv, ControlInv

LEMMA UpdatePaymentInv ==
  ASSUME IInv, UpdatePayment
  PROVE  IInv'
<1>0. /\ listener.at = "update" /\ ToStream
      /\ UNCHANGED <<height, up, cursor, operator, told, acked, missed>>
  BY Zenon DEF UpdatePayment
<1>1. PICK p, status : p = listener.p /\ status = listener.status
  OBVIOUS
<1>2. /\ status \in Statuses /\ p \in Nat /\ SeenTo(p)
      /\ status = "success" => p \in acked
  BY <1>0, <1>1, Numbers DEF IInv, TaskInv, OutcomeInv, OutcomeOf, PositionInv, PositionOf
<1>3. (SetStatus(p, status) \/ UNCHANGED rows) /\ faults' \in 0 .. MaxFaults
  BY <1>1, Numbers DEF UpdatePayment
<1>4. StoreKept /\ SeenTo(p)'
  BY <1>0, <1>2, <1>3, SetStatusKept
<1> QED BY <1>0, <1>1, <1>4, ToStreamInv DEF Handling

-----------------------------------------------------------------------------
(* ReprocessPayment.                                                       *)

LEMMA OffType == Off \in Task /\ Off.at = "off"
BY DEF Off, Doing, Task, Places, Outcomes

(* A request that ends leaves what it has stored.                          *)
LEMMA EndOpInv ==
  ASSUME IInv, StoreKept, SamePayments, NEW o \in Operators, EndOp(o),
         UNCHANGED <<height, up, cursor, listener, missed>>
  PROVE  IInv'
<1>1. TypedTask(Off)
  BY OffType DEF TypedTask
<1>2. OutcomeOf(Off)'
  BY OffType DEF OutcomeOf
<1>3. PICK t : t = Off
  OBVIOUS
<1>4. operator' = [operator EXCEPT ![o] = t] /\ t \in Task /\ t.at = "off"
  BY <1>3, OffType DEF EndOp
<1>5. TypedTask(t) /\ OutcomeOf(t)'
  BY <1>4 DEF TypedTask, OutcomeOf
<1> QED BY <1>4, <1>5, OperatorStep

LEMMA AskReprocessInv ==
  ASSUME IInv, NEW o \in Operators, AskReprocess(o)
  PROVE  IInv'
<1>0. UNCHANGED <<height, up, rows, cursor, listener, told, acked, missed, faults>>
  BY Zenon DEF AskReprocess
<1>1. PICK p \in Recorded : operator' = [operator EXCEPT ![o] = Doing("mark", p, "none")]
  BY DEF AskReprocess
<1>2. p \in Nat
  BY <1>1, Numbers DEF IInv, TaskInv, Recorded
<1>3. PICK t : t = Doing("mark", p, "none")
  OBVIOUS
<1>4. t \in Task /\ t.at = "mark" /\ t.p = p
  BY <1>2, <1>3, DoingType DEF Outcomes
<1>5. StoreKept /\ SamePayments
  BY <1>0, TableStill, Numbers DEF IInv, TaskInv, ControlInv
<1>6. Recorded' = Recorded
  BY <1>0 DEF Recorded
<1>7. TypedTask(t) /\ OutcomeOf(t)'
  BY <1>1, <1>4, <1>6 DEF TypedTask, OutcomeOf
<1> QED BY <1>0, <1>1, <1>3, <1>4, <1>5, <1>7, OperatorStep

LEMMA MarkReprocessingInv ==
  ASSUME IInv, NEW o \in Operators, MarkReprocessing(o)
  PROVE  IInv'
<1>0. /\ operator[o].at = "mark" /\ operator[o] \in Task
      /\ UNCHANGED <<height, up, cursor, listener, told, acked, missed>>
  BY DEF MarkReprocessing, IInv, TaskInv
<1>1. CASE /\ SetStatus(operator[o].p, "reprocessing") /\ PlaceOp(o, "process")
           /\ UNCHANGED faults
  <2>1. PICK p, t : p = operator[o].p /\ t = [operator[o] EXCEPT !.at = "process"]
    OBVIOUS
  <2>2. t \in Task /\ t.at = "process" /\ t.p = p
    BY <1>0, <2>1 DEF Task, Places
  <2>3. operator' = [operator EXCEPT ![o] = t]
    BY <1>1, <2>1 DEF PlaceOp, IInv, TaskInv
  <2>4. p \in Recorded
    BY <1>0, <2>1 DEF IInv, OutcomeInv, OutcomeOf
  <2>5. StoreKept /\ SamePayments /\ Recorded' = Recorded
    BY <1>0, <1>1, <2>1, SetStatusKept, Numbers DEF Statuses
  <2>6. TypedTask(t) /\ OutcomeOf(t)'
    BY <2>2, <2>4, <2>5 DEF TypedTask, OutcomeOf
  <2> QED BY <1>0, <2>2, <2>3, <2>5, <2>6, OperatorStep
<1>2. CASE Fault /\ EndOp(o) /\ UNCHANGED rows
  <2>1. StoreKept /\ SamePayments
    BY <1>0, <1>2, TableStill, Numbers DEF IInv, TaskInv, ControlInv
  <2> QED BY <1>0, <1>2, <2>1, EndOpInv
<1> QED BY <1>1, <1>2 DEF MarkReprocessing

LEMMA ReprocessPaymentInv ==
  ASSUME IInv, NEW o \in Operators, ReprocessPayment(o)
  PROVE  IInv'
<1>0. /\ operator[o].at = "process" /\ operator[o] \in Task
      /\ UNCHANGED <<height, up, rows, cursor, listener, missed, faults>>
  BY DEF ReprocessPayment, IInv, TaskInv
<1>1. PICK status \in {"success", "error"} :
        /\ Process(operator[o].p, status)
        /\ operator' = [operator EXCEPT ![o].at = "update", ![o].status = status]
  BY DEF ReprocessPayment
<1>2. PICK p, t : /\ p = operator[o].p
                  /\ t = [operator[o] EXCEPT !.at = "update", !.status = status]
  OBVIOUS
<1>3. t \in Task /\ t.at = "update" /\ t.status = status /\ t.p = p
  BY <1>0, <1>2 DEF Task, Places, Outcomes, Statuses
<1>4. operator' = [operator EXCEPT ![o] = t]
  BY <1>1, <1>2 DEF IInv, TaskInv
<1>5. p \in Recorded
  BY <1>0, <1>2 DEF IInv, OutcomeInv, OutcomeOf
<1>6. /\ acked \subseteq acked' /\ acked' \subseteq told' /\ told' \subseteq Recorded
      /\ status = "success" => p \in acked'
  BY <1>1, <1>2, <1>5, ProcessOutcome
<1>7. StoreKept /\ SamePayments /\ Recorded' = Recorded
  BY <1>0, <1>6, ProcessKept
<1>8. TypedTask(t) /\ OutcomeOf(t)'
  BY <1>3, <1>5, <1>6, <1>7 DEF TypedTask, OutcomeOf, Statuses
<1> QED BY <1>0, <1>3, <1>4, <1>7, <1>8, OperatorStep

LEMMA UpdateReprocessedInv ==
  ASSUME IInv, NEW o \in Operators, UpdateReprocessed(o)
  PROVE  IInv'
<1>0. /\ operator[o].at = "update" /\ EndOp(o)
      /\ UNCHANGED <<height, up, cursor, listener, told, acked, missed>>
  BY Zenon DEF UpdateReprocessed
<1>1. PICK p, status : p = operator[o].p /\ status = operator[o].status
  OBVIOUS
<1>2. status \in Statuses /\ (status = "success" => p \in acked)
  BY <1>0, <1>1 DEF IInv, TaskInv, OutcomeInv, OutcomeOf
<1>3. (SetStatus(p, status) \/ UNCHANGED rows) /\ faults' \in 0 .. MaxFaults
  BY <1>1, Numbers DEF UpdateReprocessed
<1>4. StoreKept /\ SamePayments
  BY <1>0, <1>2, <1>3, SetStatusKept
<1> QED BY <1>0, <1>4, EndOpInv

-----------------------------------------------------------------------------
LEMMA StutterInv ==
  ASSUME IInv, UNCHANGED vars
  PROVE  IInv'
<1> USE DEF IInv, vars
<1>1. ControlInv'
  BY Zenon DEF ControlInv
<1>2. TaskInv' /\ PositionInv' /\ OutcomeInv'
  BY DEF TaskInv, PositionInv, PositionOf, SeenTo, OutcomeInv, OutcomeOf, Recorded
<1>3. RowsInv'
  BY DEF RowsInv, SuccessWasAcknowledged, RecordedInOrder, NoSilentSkip, Recorded
<1> QED BY <1>1, <1>2, <1>3

LEMMA NextInv ==
  ASSUME IInv, [Next]_vars
  PROVE  IInv'
<1>1. CASE MakePayment \/ Listen \/ Crash \/ Disconnect
  BY <1>1, MakePaymentInv, ListenInv, CrashInv, DisconnectInv
<1>2. CASE Stream
  BY <1>2, GetLastCursorValueInv, ConnectInv, ReceiveInv, PassOverInv, LookupPaymentInv,
     InsertReceivedPaymentInv, ProcessPaymentInv, UpdatePaymentInv
     DEF Stream, OnPayment
<1>3. ASSUME NEW o \in Operators, AskReprocess(o) \/ Reprocess(o)
      PROVE  IInv'
  BY <1>3, AskReprocessInv, MarkReprocessingInv, ReprocessPaymentInv,
     UpdateReprocessedInv DEF Reprocess
<1> QED BY <1>1, <1>2, <1>3, StutterInv DEF Next

LEMMA InvHolds == Spec => []IInv
BY InitInv, NextInv, PTL DEF Spec

(* Every variable keeps its type, a payment has one row, and the callback  *)
(* is called only for payments on record.                                  *)
THEOREM ListenerTypeCorrect == Spec => []TypeOK
BY InvHolds, InvIsTyped, PTL

(* A success in the table was answered 200 OK: the listener's and the      *)
(* operators' calls for one payment, and their updates, in any order.      *)
THEOREM SuccessIsAcknowledged == Spec => []SuccessWasAcknowledged
<1>1. IInv => SuccessWasAcknowledged
  BY DEF IInv, RowsInv
<1> QED BY <1>1, InvHolds, PTL

(* The rows are in the order of the ledger, so the cursor of the last one, *)
(* which a restart takes, is behind them all.                              *)
THEOREM RowsAreOrdered == Spec => []RecordedInOrder
<1>1. IInv => RecordedInOrder
  BY DEF IInv, RowsInv
<1> QED BY <1>1, InvHolds, PTL

(* Whatever ends connections, calls and servers: a payment between two     *)
(* recorded ones is recorded, or onPayment met an error on it.             *)
THEOREM NothingIsSkipped == Spec => []NoSilentSkip
<1>1. IInv => NoSilentSkip
  BY DEF IInv, RowsInv
<1> QED BY <1>1, InvHolds, PTL

(* The stream never hands on a payment that has a row: the lookup at the   *)
(* head of onPayment finds nothing as long as one listener runs.           *)
THEOREM ReceivedIsNew ==
  Spec => [](listener.at \in {"lookup", "insert"} => listener.p \notin Recorded)
<1>1. IInv => (listener.at \in {"lookup", "insert"} => listener.p \notin Recorded)
  <2> SUFFICES ASSUME IInv, listener.at \in {"lookup", "insert"},
                      NEW k \in DOMAIN rows, rows[k].p = listener.p
               PROVE  FALSE
    BY DEF Recorded
  <2>1. rows[k].p <= listener.p - 1
    BY DEF IInv, PositionInv, PositionOf, SeenTo
  <2> QED BY <2>1, Numbers
<1> QED BY <1>1, InvHolds, PTL

(* Where the decoder does not call the events as the client expects, no    *)
(* payment ever has a row and the callback is never called, for all the    *)
(* connections, restarts and requests to reprocess there may be.           *)
THEOREM PassedOverIsLost ==
  Spec => [](EventType # "mdfcge" => rows = <<>> /\ told = {})
<1>1. IInv => (EventType # "mdfcge" => rows = <<>> /\ told = {})
  <2> SUFFICES ASSUME IInv, EventType # "mdfcge"
               PROVE  rows = <<>> /\ told = {}
    OBVIOUS
  <2>1. rows = <<>>
    BY DEF IInv, PositionInv, PositionOf, HandedOn
  <2> QED BY <2>1 DEF IInv, TaskInv, Recorded
<1> QED BY <1>1, InvHolds, PTL
=============================================================================
