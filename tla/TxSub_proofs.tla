---------------------------- MODULE TxSub_proofs ----------------------------
(***************************************************************************)
(* Proofs about the transaction submission system, for any requests,       *)
(* accounts, transactions, MaxSize and faults.                             *)
(***************************************************************************)
EXTENDS TxSub, TLAPS

-----------------------------------------------------------------------------
(* Type correctness.                                                       *)

(* The manager's methods keep its type.                                    *)
LEMMA QueuePopped ==
  ASSUME NEW q \in Q!Queue, NEW n \in Nat
  PROVE  /\ Q!Popped(q, n) \subseteq q.items
         /\ Q!NextSequence(q, n) \in Nat
BY DEF Q!Popped, Q!TimedOut, Q!Unlocked, Q!NextSequence, Q!Queue

LEMMA QueueAfterUpdate ==
  ASSUME NEW q \in Q!Queue, NEW n \in Nat
  PROVE  /\ Q!AfterUpdate(q, n) \in Q!Queue
         /\ Q!AfterUpdate(q, n).items = q.items \ Q!Popped(q, n)
         /\ \/ Q!AfterUpdate(q, n) = Q!NewQueue
            \/ /\ Q!AfterUpdate(q, n).items # {}
               /\ Q!AfterUpdate(q, n).next = Q!NextSequence(q, n)
<1>1. CASE Q!Popped(q, n) = q.items
  BY <1>1 DEF Q!AfterUpdate, Q!NewQueue, Q!Queue
<1>2. CASE Q!Popped(q, n) # q.items
  <2>1. Q!AfterUpdate(q, n) =
          [next    |-> Q!NextSequence(q, n),
           expired |-> q.expired /\ Q!Unlocked(q, n) = {},
           items   |-> q.items \ Q!Popped(q, n)]
    BY <1>2 DEF Q!AfterUpdate
  <2>2. q.items \ Q!Popped(q, n) # {}
    BY <1>2, QueuePopped
  <2> QED BY <2>1, <2>2, QueuePopped DEF Q!Queue
<1> QED BY <1>1, <1>2

LEMMA UpdateType ==
  ASSUME Q!TypeOK, NEW u, \A a \in DOMAIN u : u[a] \in Nat, Q!Update(u)
  PROVE  Q!TypeOK'
<1>1. ASSUME NEW a \in Accounts
      PROVE  /\ queues'[a] \in Q!Queue
             /\ queues'[a].items = {} => queues'[a] = Q!NewQueue
  <2>1. /\ queues[a] \in Q!Queue
        /\ queues[a].items = {} => queues[a] = Q!NewQueue
    BY DEF Q!TypeOK
  <2>2. CASE a \in DOMAIN u
    <3>1. queues'[a] = Q!AfterUpdate(queues[a], u[a]) /\ u[a] \in Nat
      BY <2>2 DEF Q!Update
    <3> QED BY <2>1, <3>1, QueueAfterUpdate
  <2>3. CASE a \notin DOMAIN u
    <3>1. queues'[a] = queues[a]
      BY <2>3 DEF Q!Update
    <3> QED BY <2>1, <3>1
  <2> QED BY <2>2, <2>3
<1>2. queues' \in [Accounts -> Q!Queue]
  BY <1>1 DEF Q!Update
<1>3. signal' \in [Requests -> Q!Verdicts \cup {"empty"}]
  BY DEF Q!Update, Q!TypeOK, Q!Verdicts
<1> QED BY <1>1, <1>2, <1>3 DEF Q!TypeOK

LEMMA PushType ==
  ASSUME Q!TypeOK, NEW s \in Requests, NEW a \in Accounts, NEW n \in Nat,
         Q!Push(s, a, n)
  PROVE  Q!TypeOK'
<1>1. CASE Q!HasRoom
  <2>1. /\ queues' = [queues EXCEPT
                        ![a].items = @ \cup {[seq |-> n, chan |-> s]}]
        /\ signal' = signal
    BY <1>1 DEF Q!Push
  <2>2. [seq |-> n, chan |-> s] \in Q!Item
    BY DEF Q!Item
  <2> QED BY <2>1, <2>2 DEF Q!TypeOK, Q!Queue
<1>2. CASE ~Q!HasRoom
  BY <1>2 DEF Q!Push, Q!TypeOK, Q!Verdicts
<1> QED BY <1>1, <1>2

(* Sending results keeps the type of the response channels.                *)
LEMMA SendType ==
  ASSUME response \in [Requests -> Seq(O!Answers)],
         NEW ls, NEW r \in O!Answers, O!Send(ls, r)
  PROVE  response' \in [Requests -> Seq(O!Answers)]
BY DEF O!Send

LEMMA ReplyType ==
  ASSUME TypeOK, NEW s \in Requests, NEW r \in O!Answers, Reply(s, r)
  PROVE  /\ response' \in [Requests -> Seq(O!Answers)]
         /\ pc' \in [Requests -> Places]
         /\ UNCHANGED <<submissions, old>>
BY SendType DEF TypeOK, Reply, Goto, Places

LEMMA AccountType ==
  ASSUME NEW s \in Requests, tx[s] \in Txs
  PROVE  Account(s) \in Accounts /\ SeqNum[tx[s]] \in Nat /\ SeqNum[tx[s]] # 0
BY TxSubAssumption DEF Account

(* A request that is in Submit has a transaction.                          *)
HasTx ==
  \A s \in Requests : pc[s] \notin {"idle", "done"} => tx[s] \in Txs

TypeInv == TypeOK /\ HasTx

(* System.finish leaves everything but the channel and the place alone.    *)
LEMMA FinishType ==
  ASSUME TypeInv, NEW s \in Requests, NEW r \in O!Answers, Reply(s, r),
         UNCHANGED <<queueVars, coreVars, tx, curSeq, accepted, tickVars>>
  PROVE  TypeInv'
<1>1. \A q \in Requests : pc'[q] \notin {"idle", "done"} => pc'[q] = pc[q]
  BY DEF Reply, Goto, TypeInv, TypeOK
<1> QED BY <1>1, ReplyType DEF TypeInv, TypeOK, HasTx,
           queueVars, coreVars, tickVars, Q!TypeOK

LEMMA RequestStepType ==
  ASSUME TypeInv, NEW s \in Requests,
         Arrive(s) \/ ArriveMalformed(s) \/ Submit(s) \/ Cancel(s)
  PROVE  TypeInv'
<1> USE DEF TypeInv
<1>0. O!Answers = {"success", "failed", "malformed", "error", "noAccount",
                   "noMoreRoom", "badSequence", "rejected", "canceled",
                   "timeout"}
  BY DEF O!Answers, O!Results, O!Errors
<1>1. CASE Arrive(s)
  BY <1>1 DEF Arrive, TypeOK, HasTx, Goto, Places, queueVars, openVars,
              coreVars, tickVars, Q!TypeOK
<1>2. CASE ArriveMalformed(s)
  BY <1>2, <1>0, FinishType DEF ArriveMalformed
<1>3. CASE Lookup(s)
  <2>1. ASSUME NEW r \in O!Answers, Reply(s, r) PROVE TypeInv'
    BY <1>3, <2>1, FinishType DEF Lookup
  <2>2. CASE Goto(s, "load") /\ UNCHANGED openVars
    BY <1>3, <2>2 DEF Lookup, Goto, TypeOK, HasTx, Places,
              queueVars, openVars, coreVars, tickVars, Q!TypeOK
  <2>3. result[tx[s]] # "none" => result[tx[s]] \in O!Answers
    BY <1>3 DEF Lookup, TypeOK, HasTx, O!Answers
  <2> QED BY <1>0, <1>3, <2>1, <2>2, <2>3 DEF Lookup
<1>4. CASE LoadSequence(s)
  <2>1. ASSUME NEW r \in O!Answers, Reply(s, r), UNCHANGED curSeq
        PROVE  TypeInv'
    BY <1>4, <2>1, FinishType DEF LoadSequence
  <2>2. CASE /\ curSeq' = [curSeq EXCEPT ![s] = ledgerSeq[Account(s)]]
             /\ Goto(s, "push")
             /\ UNCHANGED openVars
    <3>1. ledgerSeq[Account(s)] \in Nat
      BY <1>4, AccountType DEF LoadSequence, TypeOK, HasTx
    <3> QED BY <1>4, <2>2, <3>1 DEF LoadSequence, Goto, TypeOK, HasTx, Places,
              queueVars, openVars, coreVars, tickVars, Q!TypeOK
  <2> QED BY <1>0, <1>4, <2>1, <2>2 DEF LoadSequence
<1>5. CASE PushSubmission(s)
  <2>1. Q!TypeOK'
    BY <1>5, PushType, AccountType DEF PushSubmission, TypeOK, HasTx
  <2> QED BY <1>5, <2>1 DEF PushSubmission, Goto, TypeOK, HasTx, Places,
              openVars, coreVars, tickVars
<1>6. CASE UpdateQueue(s)
  <2>1. Q!TypeOK'
    BY <1>6, UpdateType DEF UpdateQueue, TypeOK
  <2> QED BY <1>6, <2>1 DEF UpdateQueue, Goto, TypeOK, HasTx, Places,
              openVars, coreVars, tickVars
<1>7. CASE Proceed(s)
  BY <1>7 DEF Proceed, Goto, TypeOK, HasTx, Places,
              queueVars, openVars, coreVars, tickVars, Q!TypeOK
<1>8. CASE GiveUp(s)
  BY <1>8, <1>0, FinishType DEF GiveUp
<1>9. CASE Cancel(s)
  BY <1>9, <1>0, FinishType DEF Cancel
<1>10. CASE SubmitAccepted(s)
  BY <1>10 DEF SubmitAccepted, C!Take, Goto, TypeOK, HasTx, Places,
              queueVars, openVars, coreVars, tickVars, Q!TypeOK
<1>11. CASE SubmitBadSeq(s)
  BY <1>11 DEF SubmitBadSeq, Goto, TypeOK, HasTx, Places,
              queueVars, openVars, coreVars, tickVars, Q!TypeOK
<1>12. CASE SubmitRejected(s)
  BY <1>12, <1>0, FinishType DEF SubmitRejected
<1>13. CASE SubmitUnknown(s)
  BY <1>13, <1>0, ReplyType DEF SubmitUnknown, Reply, Goto, TypeOK, HasTx,
              C!Take, queueVars, coreVars, tickVars, Q!TypeOK
<1>14. CASE Recheck(s)
  BY <1>14, <1>0, FinishType DEF Recheck
<1>15. CASE AddPending(s)
  BY <1>15 DEF AddPending, O!Add, Goto, TypeOK, HasTx, Places,
              queueVars, coreVars, tickVars, Q!TypeOK
<1>16. CASE ReleaseNext(s)
  <2>1. Q!TypeOK'
    BY <1>16, UpdateType, AccountType DEF ReleaseNext, TypeOK, HasTx
  <2> QED BY <1>16, <2>1 DEF ReleaseNext, Goto, TypeOK, HasTx, Places,
              openVars, coreVars, tickVars
<1> QED BY <1>1, <1>2, <1>3, <1>4, <1>5, <1>6, <1>7, <1>8, <1>9, <1>10,
           <1>11, <1>12, <1>13, <1>14, <1>15, <1>16 DEF Submit

LEMMA TickStepType ==
  ASSUME TypeInv, Tick \/ TickLoadFails
  PROVE  TypeInv'
<1> USE DEF TypeInv
<1>1. CASE TickStart
  BY <1>1 DEF TickStart, TypeOK, HasTx, TickPlaces, Q!Addresses,
              queueVars, openVars, coreVars, requestVars, Q!TypeOK
<1>2. CASE TickLoad
  BY <1>2 DEF TickLoad, TypeOK, HasTx, TickPlaces,
              queueVars, openVars, coreVars, requestVars, Q!TypeOK
<1>3. CASE TickLoadFails
  BY <1>3 DEF TickLoadFails, TypeOK, HasTx, TickPlaces,
              queueVars, openVars, coreVars, requestVars, Q!TypeOK
<1>4. CASE TickUpdate
  <2>1. Q!TypeOK'
    BY <1>4, UpdateType DEF TickUpdate, TypeOK
  <2> QED BY <1>4, <2>1 DEF TickUpdate, TypeOK, HasTx, TickPlaces,
              openVars, coreVars, requestVars
<1>5. CASE TickPending
  BY <1>5 DEF TickPending, TypeOK, HasTx, TickPlaces, O!Pending,
              queueVars, openVars, coreVars, requestVars, Q!TypeOK
<1>6. ASSUME NEW t \in Txs, TickResolve(t)
      PROVE  TypeInv'
  <2>1. CASE UNCHANGED openVars
    BY <1>6, <2>1 DEF TickResolve, TypeOK, HasTx,
              queueVars, openVars, coreVars, requestVars, Q!TypeOK
  <2>2. CASE result[t] # "none" /\ O!Finish(t, result[t])
    <3>1. response' \in [Requests -> Seq(O!Answers)]
      BY <2>2, SendType DEF O!Finish, TypeOK, O!Answers
    <3> QED BY <1>6, <2>2, <3>1 DEF TickResolve, TypeOK, HasTx, O!Finish,
              queueVars, coreVars, requestVars, Q!TypeOK
  <2> QED BY <1>6, <2>1, <2>2 DEF TickResolve
<1>7. CASE TickClean
  <2>1. response' \in [Requests -> Seq(O!Answers)]
    BY <1>7, SendType DEF TickClean, O!Clean, TypeOK, O!Answers, O!Errors
  <2> QED BY <1>7, <2>1 DEF TickClean, TypeOK, HasTx, O!Clean, TickPlaces,
              queueVars, coreVars, requestVars, Q!TypeOK
<1> QED BY <1>1, <1>2, <1>3, <1>4, <1>5, <1>6, <1>7 DEF Tick

LEMMA EnvironmentStepType ==
  ASSUME TypeInv,
         \/ \E a \in Accounts : QueueExpires(a) \/ AccountMerges(a)
         \/ \E t \in Txs :
              SubmissionAges(t) \/ LedgerCloses(t) \/ NodeDrops(t) \/ Gossip(t)
  PROVE  TypeInv'
<1> USE DEF TypeInv
<1>1. ASSUME NEW a \in Accounts, QueueExpires(a) PROVE TypeInv'
  <2>1. Q!TypeOK'
    <3>1. /\ queues' = [queues EXCEPT ![a].expired = TRUE]
          /\ queues[a].items # {}
          /\ signal' = signal
      BY <1>1 DEF QueueExpires, Q!Expire
    <3>a. queues \in [Accounts -> Q!Queue] /\ queues[a] \in Q!Queue
      BY DEF TypeOK, Q!TypeOK
    <3>b. [queues[a] EXCEPT !.expired = TRUE] \in Q!Queue
          /\ [queues[a] EXCEPT !.expired = TRUE].items = queues[a].items
      BY <3>a DEF Q!Queue
    <3>2. queues' \in [Accounts -> Q!Queue]
      BY <3>1, <3>a, <3>b
    <3>3. \A b \in Accounts : queues'[b].items = queues[b].items
      BY <3>1, <3>a, <3>b
    <3>4. \A b \in Accounts : b # a => queues'[b] = queues[b]
      BY <3>1 DEF TypeOK, Q!TypeOK
    <3> QED BY <3>1, <3>2, <3>3, <3>4 DEF TypeOK, Q!TypeOK
  <2> QED BY <1>1, <2>1 DEF QueueExpires, TypeOK, HasTx,
              openVars, coreVars, requestVars, tickVars
<1>2. ASSUME NEW a \in Accounts, AccountMerges(a) PROVE TypeInv'
  BY <1>2 DEF AccountMerges, C!Merge, TypeOK, HasTx, Q!TypeOK,
              queueVars, openVars, requestVars, tickVars
<1>3. ASSUME NEW t \in Txs, SubmissionAges(t) PROVE TypeInv'
  BY <1>3 DEF SubmissionAges, O!Age, TypeOK, HasTx, Q!TypeOK,
              queueVars, coreVars, requestVars, tickVars
<1>4. ASSUME NEW t \in Txs, LedgerCloses(t) PROVE TypeInv'
  <2>1. PICK r \in O!Results : C!Apply(t, r)
    BY <1>4 DEF LedgerCloses
  <2>2. ledgerSeq' \in [Accounts -> Nat]
    <3>1. Source[t] \in Accounts
      BY TxSubAssumption
    <3>2. ledgerSeq' = [ledgerSeq EXCEPT ![Source[t]] = ledgerSeq[Source[t]] + 1]
      BY <2>1 DEF C!Apply
    <3>3. ledgerSeq \in [Accounts -> Nat]
      BY DEF TypeOK
    <3>4. ledgerSeq[Source[t]] + 1 \in Nat
      BY <3>1, <3>3
    <3> QED BY <3>2, <3>3, <3>4
  <2>3. result' \in [Txs -> O!Results \cup {"none"}]
    BY <2>1 DEF C!Apply, TypeOK
  <2> QED BY <1>4, <2>1, <2>2, <2>3 DEF LedgerCloses, C!Apply, TypeOK, HasTx,
              Q!TypeOK, queueVars, openVars, requestVars, tickVars
<1>5. ASSUME NEW t \in Txs, NodeDrops(t) PROVE TypeInv'
  BY <1>5 DEF NodeDrops, C!Drop, TypeOK, HasTx, Q!TypeOK,
              queueVars, openVars, requestVars, tickVars
<1>6. ASSUME NEW t \in Txs, Gossip(t) PROVE TypeInv'
  BY <1>6 DEF Gossip, C!Take, TypeOK, HasTx, Q!TypeOK,
              queueVars, openVars, requestVars, tickVars
<1> QED BY <1>1, <1>2, <1>3, <1>4, <1>5, <1>6

LEMMA InitType == Init => TypeInv
BY DEF Init, Q!Init, O!Init, C!Init, TypeInv, TypeOK, HasTx, Q!TypeOK,
       Q!NewQueue, Q!Queue, Places, TickPlaces

LEMMA TypeInvHolds == Spec => []TypeInv
<1>1. TypeInv /\ [Next]_vars => TypeInv'
  <2> SUFFICES ASSUME TypeInv, [Next]_vars PROVE TypeInv'
    OBVIOUS
  <2>1. CASE Next
    BY <2>1, RequestStepType, TickStepType, EnvironmentStepType DEF Next
  <2>2. CASE UNCHANGED vars
    BY <2>2 DEF vars, queueVars, openVars, coreVars, requestVars, tickVars,
                TypeInv, TypeOK, HasTx, Q!TypeOK
  <2> QED BY <2>1, <2>2
<1> QED BY <1>1, InitType, PTL DEF Spec

(* Every variable of the system keeps its type.                            *)
THEOREM TypeCorrect == Spec => []TypeOK
BY TypeInvHolds, PTL DEF TypeInv

-----------------------------------------------------------------------------
(* Answers: a channel is sent on by its own request before the node has    *)
(* taken the transaction, and by Tick afterwards, while it is listed.      *)

Early == {"idle", "lookup", "load", "push", "update", "wait", "submit",
          "recheck", "add"}

Late == {"release", "open"}

(* A listener is a request whose submission was taken, listed under its    *)
(* own transaction.                                                        *)
Listening ==
  \A t \in Txs : \A s \in submissions[t] : tx[s] = t /\ pc[s] \in Late

AnswerInv == AnsweredOnce /\ NoOrphan /\ Listening

LEMMA SendOnce ==
  ASSUME response \in [Requests -> Seq(O!Answers)],
         NEW ls, NEW r \in O!Answers, O!Send(ls, r), NEW s \in Requests
  PROVE  /\ s \notin ls => response'[s] = response[s]
         /\ s \in ls /\ response[s] = <<>> =>
              response'[s] = <<r>> /\ response'[s] # <<>> /\ Len(response'[s]) <= 1
<1>1. CASE s \notin ls
  BY <1>1 DEF O!Send
<1>2. CASE s \in ls /\ response[s] = <<>>
  <2>1. response'[s] = Append(<<>>, r)
    BY <1>2 DEF O!Send
  <2>2. Append(<<>>, r) = <<r>>
    OBVIOUS
  <2>3. Len(<<r>>) <= 1 /\ Len(<<r>>) = 1 /\ Len(<<>>) = 0
    OBVIOUS
  <2>4. <<r>> # <<>>
    BY <2>3
  <2> QED BY <1>2, <2>1, <2>2, <2>3, <2>4
<1> QED BY <1>1, <1>2

(* A request that answers itself.                                          *)
LEMMA ReplyAnswers ==
  ASSUME TypeInv, AnswerInv, NEW s \in Requests, NEW r \in O!Answers,
         pc[s] \in Early, Reply(s, r), UNCHANGED tx
  PROVE  AnswerInv'
<1>1. /\ response[s] = <<>>
      /\ \A t \in Txs : s \notin submissions[t]
  BY DEF AnswerInv, NoOrphan, Early
<1>2. /\ response'[s] # <<>> /\ Len(response'[s]) <= 1
      /\ \A q \in Requests : q # s => response'[q] = response[q]
  BY <1>1, SendOnce DEF Reply, TypeInv, TypeOK
<1>3. /\ pc' = [pc EXCEPT ![s] = "done"]
      /\ submissions' = submissions
  BY DEF Reply, Goto
<1>4. pc'[s] = "done" /\ \A q \in Requests : q # s => pc'[q] = pc[q]
  BY <1>3 DEF TypeInv, TypeOK
<1>5. AnsweredOnce'
  <2> SUFFICES ASSUME NEW q \in Requests PROVE Len(response'[q]) <= 1
    BY DEF AnsweredOnce
  <2>1. Len(response[q]) <= 1
    BY DEF AnswerInv, AnsweredOnce
  <2>2. CASE q = s
    BY <1>2, <2>2
  <2>3. CASE q # s
    BY <1>2, <2>1, <2>3, Zenon
  <2> QED BY <2>2, <2>3
<1>6. NoOrphan'
  BY <1>1, <1>2, <1>3, <1>4 DEF AnswerInv, NoOrphan
<1>7. Listening'
  BY <1>1, <1>3, <1>4 DEF AnswerInv, Listening, TypeInv, TypeOK
<1> QED BY <1>5, <1>6, <1>7 DEF AnswerInv

(* A step that sends nothing and lists nobody.                             *)
LEMMA QuietStep ==
  ASSUME TypeInv, AnswerInv, UNCHANGED <<response, submissions>>,
         \A q \in Requests : \/ pc'[q] = pc[q] /\ tx'[q] = tx[q]
                             \/ pc[q] \in Early /\ pc'[q] \in Early
                             \/ /\ pc[q] \in Late /\ pc'[q] \in Late
                                /\ tx'[q] = tx[q]
  PROVE  AnswerInv'
<1>1. AnsweredOnce'
  BY DEF AnswerInv, AnsweredOnce
<1>2. NoOrphan'
  BY DEF AnswerInv, NoOrphan, Early, Late
<1>3. Listening'
  BY DEF AnswerInv, Listening, Early, Late, TypeInv, TypeOK
<1> QED BY <1>1, <1>2, <1>3 DEF AnswerInv

(* Tick answers all the listeners of some transactions and forgets them.   *)
LEMMA TickAnswers ==
  ASSUME TypeInv, AnswerInv, UNCHANGED <<pc, tx>>,
         NEW T \in SUBSET Txs, NEW r \in O!Answers,
         O!Send(UNION {submissions[t] : t \in T}, r),
         submissions' =
           [t \in Txs |-> IF t \in T THEN {} ELSE submissions[t]]
  PROVE  AnswerInv'
<1> DEFINE ls == UNION {submissions[t] : t \in T}
<1>1. \A s \in ls : /\ s \in Requests /\ pc[s] \in Late
                    /\ response[s] = <<>> /\ tx[s] \in T
  BY DEF AnswerInv, NoOrphan, Listening, Late, TypeInv, TypeOK
<1>2. \A s \in ls : response'[s] # <<>> /\ Len(response'[s]) <= 1
  BY <1>1, SendOnce DEF TypeInv, TypeOK
<1>3. \A s \in Requests : s \notin ls => response'[s] = response[s]
  BY SendOnce DEF TypeInv, TypeOK
<1>4. AnsweredOnce'
  <2> SUFFICES ASSUME NEW q \in Requests PROVE Len(response'[q]) <= 1
    BY DEF AnsweredOnce
  <2>1. Len(response[q]) <= 1
    BY DEF AnswerInv, AnsweredOnce
  <2>2. CASE q \in ls
    BY <1>2, <2>2
  <2>3. CASE q \notin ls
    BY <1>3, <2>1, <2>3, Zenon
  <2> QED BY <2>2, <2>3
<1>5. Listening'
  BY DEF AnswerInv, Listening, TypeInv, TypeOK
<1>6. NoOrphan'
  <2> SUFFICES ASSUME NEW s \in Requests
               PROVE  /\ pc'[s] = "done" => response'[s] # <<>>
                      /\ pc'[s] \in {"release", "open"}
                           => (response'[s] = <<>> <=> s \in submissions'[tx'[s]])
                      /\ pc'[s] \notin {"release", "open", "done"}
                           => response'[s] = <<>>
                              /\ \A t \in Txs : s \notin submissions'[t]
    BY DEF NoOrphan
  <2>1. CASE s \in ls
    BY <1>1, <1>2, <2>1 DEF Late
  <2>2. CASE s \notin ls
    <3>1. pc[s] \in Late => (s \in submissions'[tx[s]] <=> s \in submissions[tx[s]])
      BY <2>2 DEF TypeInv, HasTx, Late
    <3> QED BY <1>3, <2>2, <3>1 DEF AnswerInv, NoOrphan, Late
  <2> QED BY <2>1, <2>2
<1> QED BY <1>4, <1>5, <1>6 DEF AnswerInv

AnswerNames == {"success", "failed", "malformed", "error", "noAccount",
                "noMoreRoom", "badSequence", "rejected", "canceled", "timeout"}

LEMMA AnswersNamed == O!Answers = AnswerNames
BY DEF O!Answers, O!Results, O!Errors, AnswerNames

(* Every step of a request answers it, or is quiet, or lists it.           *)
LEMMA RequestStepAnswers ==
  ASSUME TypeInv, AnswerInv, NEW s \in Requests,
         Arrive(s) \/ ArriveMalformed(s) \/ Submit(s) \/ Cancel(s)
  PROVE  AnswerInv'
<1>0. \A place : Goto(s, place) =>
        pc'[s] = place /\ \A q \in Requests : q # s => pc'[q] = pc[q]
  BY DEF Goto, TypeInv, TypeOK
<1>1. CASE Arrive(s)
  <2>1. \A q \in Requests : q # s => tx'[q] = tx[q]
    BY <1>1 DEF Arrive, TypeInv, TypeOK
  <2> QED BY <1>0, <1>1, <2>1, QuietStep DEF Arrive, openVars, Early
<1>2. CASE ArriveMalformed(s)
  BY <1>2, ReplyAnswers, AnswersNamed
     DEF ArriveMalformed, Early, AnswerNames
<1>3. CASE Lookup(s)
  <2>1. ASSUME NEW r \in O!Answers, Reply(s, r) PROVE AnswerInv'
    BY <1>3, <2>1, ReplyAnswers DEF Lookup, Early
  <2>2. result[tx[s]] # "none" => result[tx[s]] \in O!Answers
    BY <1>3 DEF Lookup, TypeInv, TypeOK, HasTx, O!Answers
  <2>3. CASE Goto(s, "load") /\ UNCHANGED openVars
    BY <1>0, <1>3, <2>3, QuietStep DEF Lookup, openVars, Early
  <2> QED BY <1>3, <2>1, <2>2, <2>3, AnswersNamed DEF Lookup, AnswerNames
<1>4. CASE LoadSequence(s)
  <2>1. ASSUME NEW r \in O!Answers, Reply(s, r) PROVE AnswerInv'
    BY <1>4, <2>1, ReplyAnswers DEF LoadSequence, Early
  <2>2. CASE Goto(s, "push") /\ UNCHANGED openVars
    BY <1>0, <1>4, <2>2, QuietStep DEF LoadSequence, openVars, Early
  <2> QED BY <1>4, <2>1, <2>2, AnswersNamed DEF LoadSequence, AnswerNames
<1>5. CASE PushSubmission(s)
  BY <1>0, <1>5, QuietStep DEF PushSubmission, openVars, Early
<1>6. CASE UpdateQueue(s)
  BY <1>0, <1>6, QuietStep DEF UpdateQueue, openVars, Early
<1>7. CASE Proceed(s)
  BY <1>0, <1>7, QuietStep DEF Proceed, openVars, Early
<1>8. CASE GiveUp(s)
  BY <1>8, ReplyAnswers, AnswersNamed DEF GiveUp, Early, AnswerNames
<1>9. CASE Cancel(s)
  BY <1>9, ReplyAnswers, AnswersNamed DEF Cancel, Early, AnswerNames
<1>10. CASE SubmitAccepted(s)
  BY <1>0, <1>10, QuietStep DEF SubmitAccepted, openVars, Early
<1>11. CASE SubmitBadSeq(s)
  BY <1>0, <1>11, QuietStep DEF SubmitBadSeq, openVars, Early
<1>12. CASE SubmitRejected(s)
  BY <1>12, ReplyAnswers, AnswersNamed DEF SubmitRejected, Early, AnswerNames
<1>13. CASE SubmitUnknown(s)
  BY <1>13, ReplyAnswers, AnswersNamed DEF SubmitUnknown, Early, AnswerNames
<1>14. CASE Recheck(s)
  BY <1>14, ReplyAnswers, AnswersNamed DEF Recheck, Early, AnswerNames
<1>15. CASE AddPending(s)
  <2>1. /\ pc[s] = "add" /\ tx[s] \in Txs /\ response[s] = <<>>
        /\ \A t \in Txs : s \notin submissions[t]
    BY <1>15 DEF AddPending, TypeInv, HasTx, AnswerInv, NoOrphan
  <2>2. /\ submissions' = [submissions EXCEPT ![tx[s]] = @ \cup {s}]
        /\ response' = response /\ tx' = tx
    BY <1>15 DEF AddPending, O!Add
  <2>3. pc'[s] = "release" /\ \A q \in Requests : q # s => pc'[q] = pc[q]
    BY <1>0, <1>15 DEF AddPending
  <2>4. \A t \in Txs : submissions'[t] =
          IF t = tx[s] THEN submissions[t] \cup {s} ELSE submissions[t]
    BY <2>1, <2>2 DEF TypeInv, TypeOK
  <2>5. AnsweredOnce'
    BY <2>2 DEF AnswerInv, AnsweredOnce
  <2>6. NoOrphan'
    <3> SUFFICES ASSUME NEW q \in Requests
                 PROVE  /\ pc'[q] = "done" => response'[q] # <<>>
                        /\ pc'[q] \in {"release", "open"} =>
                             (response'[q] = <<>> <=> q \in submissions'[tx'[q]])
                        /\ pc'[q] \notin {"release", "open", "done"}
                             => response'[q] = <<>>
                                /\ \A t \in Txs : q \notin submissions'[t]
      BY DEF NoOrphan
    <3>1. CASE q = s
      <4>1. response'[q] = <<>> /\ tx'[q] = tx[s] /\ pc'[q] = "release"
        BY <2>1, <2>2, <2>3, <3>1
      <4>2. q \in submissions'[tx[s]]
        BY <2>1, <2>4, <3>1
      <4> QED BY <4>1, <4>2
    <3>2. CASE q # s
      <4>1. \A t \in Txs : q \in submissions'[t] <=> q \in submissions[t]
        BY <2>4, <3>2
      <4>2. pc[q] \in {"release", "open"} => tx[q] \in Txs
        BY DEF TypeInv, HasTx
      <4> QED BY <2>2, <2>3, <3>2, <4>1, <4>2 DEF AnswerInv, NoOrphan
    <3> QED BY <3>1, <3>2
  <2>7. Listening'
    BY <2>1, <2>2, <2>3, <2>4 DEF AnswerInv, Listening, Late, TypeInv, TypeOK
  <2> QED BY <2>5, <2>6, <2>7 DEF AnswerInv
<1>16. CASE ReleaseNext(s)
  BY <1>0, <1>16, QuietStep DEF ReleaseNext, openVars, Late
<1> QED BY <1>1, <1>2, <1>3, <1>4, <1>5, <1>6, <1>7, <1>8, <1>9, <1>10,
           <1>11, <1>12, <1>13, <1>14, <1>15, <1>16 DEF Submit

(* Tick: Finish answers the listeners of one transaction, Clean those of   *)
(* the overdue ones, and nothing else is sent.                             *)
LEMMA TickStepAnswers ==
  ASSUME TypeInv, AnswerInv, Tick \/ TickLoadFails
  PROVE  AnswerInv'
<1>1. CASE UNCHANGED <<openVars, requestVars>>
  BY <1>1, QuietStep DEF openVars, requestVars
<1>2. ASSUME NEW t \in Txs, TickResolve(t), O!Finish(t, result[t]),
             result[t] # "none"
      PROVE  AnswerInv'
  <2>1. UNION {submissions[u] : u \in {t}} = submissions[t]
    OBVIOUS
  <2>2. submissions' =
          [u \in Txs |-> IF u \in {t} THEN {} ELSE submissions[u]]
    BY <1>2 DEF O!Finish, TypeInv, TypeOK
  <2>3. result[t] \in O!Answers
    BY <1>2 DEF TypeInv, TypeOK, O!Answers
  <2>4. /\ O!Send(UNION {submissions[u] : u \in {t}}, result[t])
        /\ UNCHANGED <<pc, tx>>
    BY <1>2, <2>1 DEF O!Finish, TickResolve, requestVars
  <2> QED BY <2>2, <2>3, <2>4, TickAnswers
<1>3. CASE TickClean
  <2>1. submissions' =
          [u \in Txs |-> IF u \in O!Overdue THEN {} ELSE submissions[u]]
    BY <1>3 DEF TickClean, O!Clean
  <2>2. /\ O!Send(UNION {submissions[u] : u \in O!Overdue}, "timeout")
        /\ UNCHANGED <<pc, tx>>
    BY <1>3 DEF TickClean, O!Clean, requestVars
  <2>3. O!Overdue \in SUBSET Txs /\ "timeout" \in O!Answers
    BY AnswersNamed DEF O!Overdue, O!Pending, AnswerNames
  <2> QED BY <2>1, <2>2, <2>3, TickAnswers
<1> QED BY <1>1, <1>2, <1>3
        DEF Tick, TickStart, TickLoad, TickLoadFails, TickUpdate, TickPending,
            TickResolve

LEMMA EnvironmentStepAnswers ==
  ASSUME TypeInv, AnswerInv,
         \/ \E a \in Accounts : QueueExpires(a) \/ AccountMerges(a)
         \/ \E t \in Txs :
              SubmissionAges(t) \/ LedgerCloses(t) \/ NodeDrops(t) \/ Gossip(t)
  PROVE  AnswerInv'
<1>1. UNCHANGED <<response, submissions, pc, tx>>
  BY DEF QueueExpires, AccountMerges, SubmissionAges, O!Age, LedgerCloses,
         NodeDrops, Gossip, openVars, requestVars
<1> QED BY <1>1, QuietStep

LEMMA AnswerInvHolds == Spec => []AnswerInv
<1>1. Init => AnswerInv
  <2> SUFFICES ASSUME Init PROVE AnswerInv
    OBVIOUS
  <2>1. \A s \in Requests : response[s] = <<>> /\ pc[s] = "idle"
    BY DEF Init, O!Init
  <2>2. \A t \in Txs : submissions[t] = {}
    BY DEF Init, O!Init
  <2>3. Len(<<>>) <= 1
    OBVIOUS
  <2> QED BY <2>1, <2>2, <2>3 DEF AnswerInv, AnsweredOnce, NoOrphan, Listening
<1>2. TypeInv /\ AnswerInv /\ [Next]_vars => AnswerInv'
  <2> SUFFICES ASSUME TypeInv, AnswerInv, [Next]_vars PROVE AnswerInv'
    OBVIOUS
  <2>1. CASE Next
    BY <2>1, RequestStepAnswers, TickStepAnswers, EnvironmentStepAnswers
       DEF Next
  <2>2. CASE UNCHANGED vars
    BY <2>2, QuietStep DEF vars, openVars, requestVars
  <2> QED BY <2>1, <2>2
<1> QED BY <1>1, <1>2, TypeInvHolds, PTL DEF Spec

(* No response channel is sent on twice: neither two ticks, nor a tick and *)
(* the request itself, ever answer the same request.                       *)
THEOREM OneAnswer == Spec => []AnsweredOnce
BY AnswerInvHolds, PTL DEF AnswerInv

(* No response channel is lost: a request is unanswered exactly as long as *)
(* its goroutine is in Submit or it is listed under its transaction.       *)
THEOREM NoChannelIsLost == Spec => []NoOrphan
BY AnswerInvHolds, PTL DEF AnswerInv
=============================================================================
