------------------------- MODULE TxSubService_proofs -------------------------
(***************************************************************************)
(* Proofs that transactions are posted in sequence order, that TxSub       *)
(* implements SubmissionService, that it gives true results and loses no   *)
(* wakeup, and that it uses the sequence manager as SequenceManager asks,  *)
(* for any requests, accounts, transactions, MaxSize and faults.           *)
(***************************************************************************)
EXTENDS TxSub_proofs, Integers

-----------------------------------------------------------------------------
(* The inductive invariant behind the order.                               *)

(* What a queue would release next follows a number that is known.         *)
Frontier ==
  \A a \in Accounts : \A n \in Nat : queues[a].next = n + 1 => Known(a, n)

(* An item speaks for the transaction of the request it was pushed by.     *)
Faithful ==
  \A a \in Accounts : \A i \in queues[a].items :
    /\ pc[i.chan] # "idle"
    /\ tx[i.chan] \in Txs
    /\ Account(i.chan) = a
    /\ i.seq = SeqNum[tx[i.chan]]

(* A request that may go ahead has a known predecessor.                    *)
Cleared ==
  \A s \in Requests : signal[s] = "nil" =>
    /\ pc[s] # "idle"
    /\ tx[s] \in Txs
    /\ Known(Account(s), SeqNum[tx[s]] - 1)

(* What a request carries from one step to the next is still true.         *)
RequestOK(s) ==
  /\ pc[s] \in {"push", "update"} => curSeq[s] <= ledgerSeq[Account(s)]
  /\ pc[s] = "submit" => Known(Account(s), SeqNum[tx[s]] - 1)
  /\ pc[s] \in {"add", "release"} => tx[s] \in accepted

(* What Tick has read is not ahead of the ledger.                          *)
TickRead == \A a \in DOMAIN tickSeq : tickSeq[a] <= ledgerSeq[a]

(* A result in the database has used up its sequence number.               *)
Applied ==
  \A t \in Txs : result[t] # "none" => SeqNum[t] <= ledgerSeq[Source[t]]

QueueInv == Frontier /\ Faithful /\ Cleared

OrderInv == QueueInv /\ (\A s \in Requests : RequestOK(s)) /\ TickRead /\ Applied

(* The known numbers, and who has arrived with what, only grow.            *)
Grows ==
  /\ \A a \in Accounts : ledgerSeq[a] <= ledgerSeq'[a]
  /\ accepted \subseteq accepted'
  /\ \A s \in Requests : pc[s] # "idle" => pc'[s] # "idle" /\ tx'[s] = tx[s]

LEMMA KnownGrows ==
  ASSUME TypeInv, TypeInv', Grows, NEW a \in Accounts, NEW n \in Int, Known(a, n)
  PROVE  Known(a, n)'
BY DEF Known, Grows, TypeInv, TypeOK

-----------------------------------------------------------------------------
(* The queues.                                                             *)

LEMMA QueueStill ==
  ASSUME TypeInv, TypeInv', QueueInv, Grows, UNCHANGED queueVars
  PROVE  QueueInv'
<1>0. queues' = queues /\ signal' = signal
  BY DEF queueVars
<1>1. Frontier'
  <2> SUFFICES ASSUME NEW a \in Accounts, NEW n \in Nat, queues[a].next = n + 1
               PROVE  Known(a, n)'
    BY <1>0 DEF Frontier
  <2>1. Known(a, n)
    BY DEF QueueInv, Frontier
  <2> QED BY <2>1, KnownGrows
<1>2. Faithful'
  <2> SUFFICES ASSUME NEW a \in Accounts, NEW i \in queues[a].items
               PROVE  /\ pc'[i.chan] # "idle"
                      /\ tx'[i.chan] \in Txs
                      /\ Source[tx'[i.chan]] = a
                      /\ i.seq = SeqNum[tx'[i.chan]]
    BY <1>0 DEF Faithful, Account
  <2>1. i.chan \in Requests
    BY DEF TypeInv, TypeOK, Q!TypeOK, Q!Queue, Q!Item
  <2> QED BY <2>1 DEF QueueInv, Faithful, Grows, Account
<1>3. Cleared'
  <2> SUFFICES ASSUME NEW s \in Requests, signal[s] = "nil"
               PROVE  /\ pc'[s] # "idle"
                      /\ tx'[s] \in Txs
                      /\ Known(Source[tx[s]], SeqNum[tx[s]] - 1)'
                      /\ tx'[s] = tx[s]
    BY <1>0 DEF Cleared, Account
  <2>1. tx[s] \in Txs /\ pc[s] # "idle" /\ Known(Source[tx[s]], SeqNum[tx[s]] - 1)
    BY DEF QueueInv, Cleared, Account
  <2>2. Source[tx[s]] \in Accounts /\ SeqNum[tx[s]] - 1 \in Int
    BY <2>1, TxSubAssumption
  <2> QED BY <2>1, <2>2, KnownGrows DEF Grows
<1> QED BY <1>1, <1>2, <1>3 DEF QueueInv

LEMMA QueuePushed ==
  ASSUME TypeInv, TypeInv', QueueInv, Grows, NEW s \in Requests,
         pc[s] # "idle", tx[s] \in Txs,
         Q!Push(s, Account(s), SeqNum[tx[s]])
  PROVE  QueueInv'
<1> DEFINE new == [seq |-> SeqNum[tx[s]], chan |-> s]
<1>0. Account(s) \in Accounts /\ tx'[s] = tx[s] /\ pc'[s] # "idle"
  BY TxSubAssumption DEF Account, Grows
<1>1. CASE ~Q!HasRoom
  <2>1. queues' = queues /\ signal' = [signal EXCEPT ![s] = "noMoreRoom"]
    BY <1>1 DEF Q!Push
  <2>2. Frontier' /\ Faithful'
    <3>1. ASSUME NEW a \in Accounts, NEW n \in Nat, queues'[a].next = n + 1
          PROVE  Known(a, n)'
      BY <2>1, <3>1, KnownGrows DEF QueueInv, Frontier
    <3>2. ASSUME NEW a \in Accounts, NEW i \in queues'[a].items
          PROVE  /\ pc'[i.chan] # "idle" /\ tx'[i.chan] \in Txs
                 /\ Source[tx'[i.chan]] = a /\ i.seq = SeqNum[tx'[i.chan]]
      <4>1. i \in queues[a].items /\ i.chan \in Requests
        BY <2>1, <3>2 DEF TypeInv, TypeOK, Q!TypeOK, Q!Queue, Q!Item
      <4> QED BY <4>1 DEF QueueInv, Faithful, Grows, Account
    <3> QED BY <3>1, <3>2 DEF Frontier, Faithful, Account
  <2>3. ASSUME NEW q \in Requests, signal'[q] = "nil"
        PROVE  /\ pc'[q] # "idle" /\ tx'[q] \in Txs /\ tx'[q] = tx[q]
               /\ Known(Source[tx[q]], SeqNum[tx[q]] - 1)'
    <3>1. signal[q] = "nil"
      BY <2>1, <2>3 DEF TypeInv, TypeOK, Q!TypeOK
    <3>2. tx[q] \in Txs /\ pc[q] # "idle"
          /\ Known(Source[tx[q]], SeqNum[tx[q]] - 1)
      BY <3>1 DEF QueueInv, Cleared, Account
    <3>3. Source[tx[q]] \in Accounts /\ SeqNum[tx[q]] - 1 \in Int
      BY <3>2, TxSubAssumption
    <3> QED BY <3>2, <3>3, KnownGrows DEF Grows
  <2> QED BY <2>2, <2>3 DEF QueueInv, Cleared, Account
<1>2. CASE Q!HasRoom
  <2>1. /\ queues' = [queues EXCEPT ![Account(s)].items = @ \cup {new}]
        /\ signal' = signal
    BY <1>2 DEF Q!Push
  <2>2. \A a \in Accounts :
          /\ queues'[a].next = queues[a].next
          /\ queues'[a].items = IF a = Account(s) THEN queues[a].items \cup {new}
                                                  ELSE queues[a].items
    BY <2>1 DEF TypeInv, TypeOK, Q!TypeOK, Q!Queue
  <2>3. ASSUME NEW a \in Accounts, NEW n \in Nat, queues'[a].next = n + 1
        PROVE  Known(a, n)'
    <3>1. queues[a].next = n + 1
      BY <2>2, <2>3
    <3>2. Known(a, n)
      BY <3>1 DEF QueueInv, Frontier
    <3> QED BY <3>2, KnownGrows
  <2>4. ASSUME NEW a \in Accounts, NEW i \in queues'[a].items
        PROVE  /\ pc'[i.chan] # "idle" /\ tx'[i.chan] \in Txs
               /\ Source[tx'[i.chan]] = a /\ i.seq = SeqNum[tx'[i.chan]]
    <3>1. CASE i \in queues[a].items
      <4>1. i.chan \in Requests
        BY <3>1 DEF TypeInv, TypeOK, Q!TypeOK, Q!Queue, Q!Item
      <4> QED BY <3>1, <4>1 DEF QueueInv, Faithful, Grows, Account
    <3>2. CASE i = new /\ a = Account(s)
      <4>1. i.chan = s /\ i.seq = SeqNum[tx[s]]
        BY <3>2
      <4> QED BY <1>0, <3>2, <4>1 DEF Account
    <3> QED BY <2>2, <2>4, <3>1, <3>2
  <2>5. ASSUME NEW q \in Requests, signal'[q] = "nil"
        PROVE  /\ pc'[q] # "idle" /\ tx'[q] \in Txs /\ tx'[q] = tx[q]
               /\ Known(Source[tx[q]], SeqNum[tx[q]] - 1)'
    <3>1. tx[q] \in Txs /\ pc[q] # "idle"
          /\ Known(Source[tx[q]], SeqNum[tx[q]] - 1)
      BY <2>1, <2>5 DEF QueueInv, Cleared, Account
    <3>2. Source[tx[q]] \in Accounts /\ SeqNum[tx[q]] - 1 \in Int
      BY <3>1, TxSubAssumption
    <3> QED BY <3>1, <3>2, KnownGrows DEF Grows
  <2> QED BY <2>3, <2>4, <2>5 DEF QueueInv, Frontier, Faithful, Cleared, Account
<1> QED BY <1>1, <1>2

(* An update with numbers that are known releases only what may go.        *)
LEMMA QueueUpdated ==
  ASSUME TypeInv, TypeInv', QueueInv, Grows, NEW u,
         DOMAIN u \subseteq Accounts,
         \A a \in DOMAIN u : u[a] \in Nat /\ Known(a, u[a]),
         Q!Update(u)
  PROVE  QueueInv'
<1>1. ASSUME NEW a \in DOMAIN u
      PROVE  \A n \in Nat : Q!NextSequence(queues[a], u[a]) = n + 1 => Known(a, n)
  BY <1>1 DEF Q!NextSequence, QueueInv, Frontier,
              TypeInv, TypeOK, Q!TypeOK, Q!Queue
<1>2. ASSUME NEW a \in Accounts
      PROVE  /\ queues'[a].items \subseteq queues[a].items
             /\ \/ queues'[a].next = 0
                \/ queues'[a].next = queues[a].next
                \/ a \in DOMAIN u
                   /\ queues'[a].next = Q!NextSequence(queues[a], u[a])
  <2>1. queues[a] \in Q!Queue
    BY DEF TypeInv, TypeOK, Q!TypeOK
  <2>2. CASE a \in DOMAIN u
    BY <2>1, <2>2, QueueAfterUpdate DEF Q!Update, Q!NewQueue
  <2>3. CASE a \notin DOMAIN u
    BY <2>3 DEF Q!Update
  <2> QED BY <2>2, <2>3
<1>3. ASSUME NEW a \in Accounts, NEW n \in Nat, queues'[a].next = n + 1
      PROVE  Known(a, n)'
  <2>1. Known(a, n)
    BY <1>1, <1>2, <1>3 DEF QueueInv, Frontier
  <2> QED BY <2>1, KnownGrows
<1>4. ASSUME NEW a \in Accounts, NEW i \in queues'[a].items
      PROVE  /\ pc'[i.chan] # "idle" /\ tx'[i.chan] \in Txs
             /\ Source[tx'[i.chan]] = a /\ i.seq = SeqNum[tx'[i.chan]]
  <2>1. i \in queues[a].items /\ i.chan \in Requests
    BY <1>2, <1>4 DEF TypeInv, TypeOK, Q!TypeOK, Q!Queue, Q!Item
  <2> QED BY <2>1 DEF QueueInv, Faithful, Grows, Account
<1>5. ASSUME NEW q \in Requests, signal'[q] = "nil"
      PROVE  /\ pc[q] # "idle" /\ tx[q] \in Txs
             /\ Known(Source[tx[q]], SeqNum[tx[q]] - 1)
  <2>1. CASE signal[q] = "nil"
    BY <2>1 DEF QueueInv, Cleared, Account
  <2>2. CASE q \in Q!Notified(u, "nil")
    <3>1. PICK a \in Accounts \cap DOMAIN u :
            \E i \in Q!Popped(queues[a], u[a]) :
              i.chan = q /\ Q!Verdict(queues[a], u[a], i) = "nil"
      BY <2>2 DEF Q!Notified
    <3>2. PICK i \in Q!Popped(queues[a], u[a]) :
            i.chan = q /\ Q!Verdict(queues[a], u[a], i) = "nil"
      BY <3>1
    <3>3. /\ queues[a] \in Q!Queue /\ u[a] \in Nat
          /\ i \in queues[a].items
      BY <3>2, QueuePopped DEF TypeInv, TypeOK, Q!TypeOK
    <3>4. i.seq = Q!NextSequence(queues[a], u[a])
      BY <3>2 DEF Q!Verdict
    <3>5. /\ pc[q] # "idle" /\ tx[q] \in Txs
          /\ Source[tx[q]] = a /\ i.seq = SeqNum[tx[q]]
      BY <3>2, <3>3 DEF QueueInv, Faithful, Account
    <3>6. SeqNum[tx[q]] - 1 \in Nat
          /\ SeqNum[tx[q]] = (SeqNum[tx[q]] - 1) + 1
      BY <3>5, TxSubAssumption
    <3> QED BY <1>1, <3>4, <3>5, <3>6
  <2> QED BY <1>5, <2>1, <2>2 DEF Q!Update
<1>6. ASSUME NEW q \in Requests, signal'[q] = "nil"
      PROVE  /\ pc'[q] # "idle" /\ tx'[q] \in Txs /\ tx'[q] = tx[q]
             /\ Known(Source[tx[q]], SeqNum[tx[q]] - 1)'
  <2>1. Source[tx[q]] \in Accounts /\ SeqNum[tx[q]] - 1 \in Int
    BY <1>5, <1>6, TxSubAssumption
  <2> QED BY <1>5, <1>6, <2>1, KnownGrows DEF Grows
<1> QED BY <1>3, <1>4, <1>6 DEF QueueInv, Frontier, Faithful, Cleared, Account

-----------------------------------------------------------------------------
(* The steps.                                                              *)

LEMMA RequestKept ==
  ASSUME TypeInv, TypeInv', Grows, NEW q \in Requests, RequestOK(q),
         pc'[q] = pc[q], tx'[q] = tx[q], curSeq'[q] = curSeq[q]
  PROVE  RequestOK(q)'
<1>1. CASE pc[q] \in {"push", "update"}
  <2>1. Source[tx[q]] \in Accounts /\ curSeq[q] <= ledgerSeq[Source[tx[q]]]
    BY <1>1, TxSubAssumption DEF RequestOK, Account, TypeInv, HasTx
  <2> QED BY <1>1, <2>1 DEF RequestOK, Account, Grows, TypeInv, TypeOK
<1>2. CASE pc[q] = "submit"
  <2>1. /\ Source[tx[q]] \in Accounts /\ SeqNum[tx[q]] - 1 \in Int
        /\ Known(Source[tx[q]], SeqNum[tx[q]] - 1)
    BY <1>2, TxSubAssumption DEF RequestOK, Account, TypeInv, HasTx
  <2>2. Known(Source[tx[q]], SeqNum[tx[q]] - 1)'
    BY <2>1, KnownGrows
  <2> QED BY <1>2, <2>2 DEF RequestOK, Account
<1>3. CASE pc[q] \notin {"push", "update", "submit"}
  BY <1>3 DEF RequestOK, Grows
<1> QED BY <1>1, <1>2, <1>3

(* A step of s, which leaves the ledger, the results and Tick alone.       *)
LEMMA OwnStep ==
  ASSUME TypeInv, TypeInv', OrderInv, NEW s \in Requests, NEW place,
         Goto(s, place),
         place # "idle",
         UNCHANGED <<ledgerSeq, result, tickSeq>>,
         accepted \subseteq accepted',
         \A q \in Requests : q # s => tx'[q] = tx[q] /\ curSeq'[q] = curSeq[q],
         pc[s] # "idle" => tx'[s] = tx[s],
         Grows /\ QueueInv => QueueInv',
         RequestOK(s)'
  PROVE  OrderInv'
<1>1. pc'[s] = place /\ \A q \in Requests : q # s => pc'[q] = pc[q]
  BY DEF Goto, TypeInv, TypeOK
<1>2. Grows
  BY <1>1 DEF Grows, TypeInv, TypeOK
<1>3. ASSUME NEW q \in Requests PROVE RequestOK(q)'
  BY <1>1, <1>2, RequestKept DEF OrderInv
<1>4. TickRead' /\ Applied'
  BY DEF OrderInv, TickRead, Applied
<1> QED BY <1>2, <1>3, <1>4 DEF OrderInv

(* The same for a step that answers s.                                     *)
LEMMA OwnReply ==
  ASSUME TypeInv, TypeInv', OrderInv, NEW s \in Requests, NEW r, Reply(s, r),
         UNCHANGED <<queueVars, ledgerSeq, result, tx, curSeq, accepted, tickSeq>>
  PROVE  OrderInv'
<1>1. Goto(s, "done") /\ pc'[s] = "done"
  BY DEF Reply, Goto, TypeInv, TypeOK
<1>2. RequestOK(s)'
  BY <1>1 DEF RequestOK
<1> QED BY <1>1, <1>2, OwnStep, QueueStill

LEMMA SubmitKeepsOrder ==
  ASSUME TypeInv, TypeInv', OrderInv, NEW s \in Requests,
         Arrive(s) \/ ArriveMalformed(s) \/ Submit(s) \/ Cancel(s)
  PROVE  OrderInv'
<1>0. \A place : Goto(s, place) => pc'[s] = place
  BY DEF Goto, TypeInv, TypeOK
<1>1. CASE Arrive(s)
  <2>1. \A q \in Requests : q # s => tx'[q] = tx[q]
    BY <1>1 DEF Arrive, TypeInv, TypeOK
  <2>2. RequestOK(s)'
    BY <1>0, <1>1 DEF Arrive, RequestOK
  <2> QED BY <1>1, <2>1, <2>2, OwnStep, QueueStill
          DEF Arrive, coreVars, tickVars
<1>2. CASE ArriveMalformed(s)
  BY <1>2, OwnReply DEF ArriveMalformed, coreVars, tickVars
<1>3. CASE Lookup(s)
  <2>1. ASSUME NEW r, Reply(s, r) PROVE OrderInv'
    BY <1>3, <2>1, OwnReply DEF Lookup, coreVars, tickVars
  <2>2. CASE Goto(s, "load")
    <3>1. RequestOK(s)'
      BY <1>0, <2>2 DEF RequestOK
    <3> QED BY <1>3, <2>2, <3>1, OwnStep, QueueStill
            DEF Lookup, coreVars, tickVars
  <2> QED BY <1>3, <2>1, <2>2 DEF Lookup
<1>4. CASE LoadSequence(s)
  <2>1. ASSUME NEW r, Reply(s, r), UNCHANGED curSeq PROVE OrderInv'
    BY <1>4, <2>1, OwnReply DEF LoadSequence, coreVars, tickVars
  <2>2. CASE /\ curSeq' = [curSeq EXCEPT ![s] = ledgerSeq[Account(s)]]
             /\ Goto(s, "push")
    <3>1. Account(s) \in Accounts /\ tx' = tx /\ ledgerSeq' = ledgerSeq
      BY <1>4, TxSubAssumption
         DEF LoadSequence, Account, TypeInv, HasTx, coreVars
    <3>2. /\ curSeq'[s] = ledgerSeq[Account(s)]
          /\ ledgerSeq[Account(s)] \in Nat
          /\ \A q \in Requests : q # s => curSeq'[q] = curSeq[q]
      BY <2>2, <3>1 DEF TypeInv, TypeOK
    <3>3. RequestOK(s)'
      BY <1>0, <2>2, <3>1, <3>2 DEF RequestOK, Account
    <3> QED BY <1>4, <2>2, <3>2, <3>3, OwnStep, QueueStill
            DEF LoadSequence, coreVars, tickVars
  <2> QED BY <1>4, <2>1, <2>2 DEF LoadSequence
<1>5. CASE PushSubmission(s)
  <2>1. /\ pc[s] = "push" /\ tx[s] \in Txs /\ tx' = tx
        /\ curSeq' = curSeq /\ ledgerSeq' = ledgerSeq
    BY <1>5 DEF PushSubmission, TypeInv, HasTx, coreVars
  <2>2. RequestOK(s)'
    BY <1>0, <1>5, <2>1 DEF PushSubmission, RequestOK, Account, OrderInv
  <2>3. Grows /\ QueueInv => QueueInv'
    BY <1>5, <2>1, QueuePushed DEF PushSubmission
  <2> QED BY <1>5, <2>2, <2>3, OwnStep DEF PushSubmission, coreVars, tickVars
<1>6. CASE UpdateQueue(s)
  <2> DEFINE u == [a \in {Account(s)} |-> curSeq[s]]
  <2>1. /\ pc[s] = "update" /\ tx[s] \in Txs /\ Account(s) \in Accounts
        /\ Q!Update(u)
    BY <1>6, TxSubAssumption DEF UpdateQueue, TypeInv, HasTx, Account
  <2>2. curSeq[s] \in Nat /\ Known(Account(s), curSeq[s])
    BY <2>1 DEF OrderInv, RequestOK, Known, TypeInv, TypeOK
  <2>3. Grows /\ QueueInv => QueueInv'
    BY <2>1, <2>2, QueueUpdated
  <2>4. RequestOK(s)'
    BY <1>0, <1>6 DEF UpdateQueue, RequestOK
  <2>5. \A q \in Requests : q # s => curSeq'[q] = curSeq[q]
    BY <1>6 DEF UpdateQueue, TypeInv, TypeOK
  <2> QED BY <1>6, <2>3, <2>4, <2>5, OwnStep DEF UpdateQueue, coreVars, tickVars
<1>7. CASE Proceed(s)
  <2>1. Known(Account(s), SeqNum[tx[s]] - 1)
    BY <1>7 DEF Proceed, OrderInv, QueueInv, Cleared
  <2>2. RequestOK(s)'
    BY <1>0, <1>7, <2>1 DEF Proceed, RequestOK, Account, Known, coreVars
  <2> QED BY <1>7, <2>2, OwnStep, QueueStill DEF Proceed, coreVars, tickVars
<1>8. CASE GiveUp(s)
  BY <1>8, OwnReply DEF GiveUp, coreVars, tickVars
<1>9. CASE Cancel(s)
  BY <1>9, OwnReply DEF Cancel, coreVars, tickVars
<1>10. CASE SubmitAccepted(s)
  <2>1. ledgerSeq' = ledgerSeq /\ result' = result
    BY <1>10 DEF SubmitAccepted, coreVars, C!Take
  <2>2. RequestOK(s)'
    BY <1>0, <1>10 DEF SubmitAccepted, RequestOK
  <2> QED BY <1>10, <2>1, <2>2, OwnStep, QueueStill
          DEF SubmitAccepted, tickVars
<1>11. CASE SubmitBadSeq(s)
  <2>1. RequestOK(s)'
    BY <1>0, <1>11 DEF SubmitBadSeq, RequestOK
  <2> QED BY <1>11, <2>1, OwnStep, QueueStill
          DEF SubmitBadSeq, coreVars, tickVars
<1>12. CASE SubmitRejected(s)
  BY <1>12, OwnReply DEF SubmitRejected, coreVars, tickVars
<1>13. CASE SubmitUnknown(s)
  BY <1>13, OwnReply DEF SubmitUnknown, coreVars, tickVars, C!Take
<1>14. CASE Recheck(s)
  BY <1>14, OwnReply DEF Recheck, coreVars, tickVars
<1>15. CASE AddPending(s)
  <2>1. RequestOK(s)'
    BY <1>0, <1>15 DEF AddPending, RequestOK, OrderInv
  <2> QED BY <1>15, <2>1, OwnStep, QueueStill DEF AddPending, coreVars, tickVars
<1>16. CASE ReleaseNext(s)
  <2> DEFINE u == [a \in {Account(s)} |-> SeqNum[tx[s]]]
  <2>1. /\ pc[s] = "release" /\ tx[s] \in Txs /\ Account(s) \in Accounts
        /\ SeqNum[tx[s]] \in Nat /\ Q!Update(u)
    BY <1>16, TxSubAssumption DEF ReleaseNext, TypeInv, HasTx, Account
  <2>2. Known(Account(s), SeqNum[tx[s]])
    BY <2>1 DEF OrderInv, RequestOK, Known, Account
  <2>3. Grows /\ QueueInv => QueueInv'
    BY <2>1, <2>2, QueueUpdated
  <2>4. RequestOK(s)'
    BY <1>0, <1>16 DEF ReleaseNext, RequestOK
  <2> QED BY <1>16, <2>3, <2>4, OwnStep DEF ReleaseNext, coreVars, tickVars
<1> QED BY <1>1, <1>2, <1>3, <1>4, <1>5, <1>6, <1>7, <1>8, <1>9, <1>10,
           <1>11, <1>12, <1>13, <1>14, <1>15, <1>16 DEF Submit

(* Tick and the environment leave the requests where they are.             *)
LEMMA OtherStep ==
  ASSUME TypeInv, TypeInv', OrderInv, UNCHANGED requestVars,
         \A a \in Accounts : ledgerSeq[a] <= ledgerSeq'[a],
         QueueInv /\ Grows => QueueInv',
         TickRead', Applied'
  PROVE  OrderInv'
<1>1. Grows
  BY DEF Grows, requestVars
<1>2. ASSUME NEW q \in Requests PROVE RequestOK(q)'
  BY <1>1, RequestKept DEF OrderInv, requestVars
<1> QED BY <1>1, <1>2 DEF OrderInv

LEMMA LedgerReflexive ==
  ASSUME TypeInv, UNCHANGED ledgerSeq
  PROVE  \A a \in Accounts : ledgerSeq[a] <= ledgerSeq'[a]
BY DEF TypeInv, TypeOK

LEMMA TickKeepsOrder ==
  ASSUME TypeInv, TypeInv', OrderInv, Tick \/ TickLoadFails
  PROVE  OrderInv'
<1>0. /\ UNCHANGED requestVars
      /\ ledgerSeq' = ledgerSeq /\ result' = result
  BY DEF Tick, TickStart, TickLoad, TickLoadFails, TickUpdate, TickPending,
         TickResolve, TickClean, coreVars
<1>1. Applied' /\ \A a \in Accounts : ledgerSeq[a] <= ledgerSeq'[a]
  BY <1>0, LedgerReflexive DEF OrderInv, Applied
<1>2. CASE TickLoad
  <2>1. TickRead'
    BY <1>2 DEF TickLoad, TickRead, coreVars, TypeInv, TypeOK
  <2> QED BY <1>0, <1>1, <1>2, <2>1, OtherStep, QueueStill DEF TickLoad
<1>3. CASE TickUpdate
  <2>1. TickRead'
    BY <1>3 DEF TickUpdate, TickRead
  <2>2. \A a \in DOMAIN tickSeq : tickSeq[a] \in Nat /\ Known(a, tickSeq[a])
    BY DEF OrderInv, TickRead, Known, TypeInv, TypeOK
  <2>3. DOMAIN tickSeq \subseteq Accounts
    BY DEF TypeInv, TypeOK
  <2>4. QueueInv /\ Grows => QueueInv'
    BY <1>3, <2>2, <2>3, QueueUpdated DEF TickUpdate
  <2> QED BY <1>0, <1>1, <2>1, <2>4, OtherStep
<1>4. CASE UNCHANGED <<queueVars, tickSeq>>
  <2>1. TickRead'
    BY <1>0, <1>4 DEF TickRead, OrderInv
  <2> QED BY <1>0, <1>1, <1>4, <2>1, OtherStep, QueueStill
<1> QED BY <1>2, <1>3, <1>4
        DEF Tick, TickStart, TickLoadFails, TickPending, TickResolve, TickClean

LEMMA EnvironmentKeepsOrder ==
  ASSUME TypeInv, TypeInv', OrderInv,
         \/ \E a \in Accounts : QueueExpires(a) \/ AccountMerges(a)
         \/ \E t \in Txs :
              SubmissionAges(t) \/ LedgerCloses(t) \/ NodeDrops(t) \/ Gossip(t)
  PROVE  OrderInv'
<1>1. ASSUME UNCHANGED <<queueVars, requestVars, tickSeq, ledgerSeq, result>>
      PROVE  OrderInv'
  BY <1>1, OtherStep, QueueStill, LedgerReflexive
     DEF OrderInv, TickRead, Applied
<1>2. ASSUME NEW a \in Accounts, QueueExpires(a)
      PROVE  OrderInv'
  <2>1. /\ UNCHANGED <<requestVars, tickSeq, ledgerSeq, result, signal>>
        /\ queues' = [queues EXCEPT ![a].expired = TRUE]
    BY <1>2 DEF QueueExpires, Q!Expire, coreVars, tickVars
  <2>2. \A b \in Accounts : /\ queues'[b].next = queues[b].next
                            /\ queues'[b].items = queues[b].items
    BY <2>1 DEF TypeInv, TypeOK, Q!TypeOK, Q!Queue
  <2>3. accepted' = accepted /\ pc' = pc /\ tx' = tx /\ signal' = signal
        /\ ledgerSeq' = ledgerSeq
    BY <2>1 DEF requestVars
  <2>4. QueueInv'
    BY <2>2, <2>3 DEF OrderInv, QueueInv, Frontier, Faithful, Cleared, Known,
                      Account
  <2> QED BY <2>1, <2>4, OtherStep, LedgerReflexive
          DEF OrderInv, TickRead, Applied
<1>3. ASSUME NEW a \in Accounts, AccountMerges(a)
      PROVE  OrderInv'
  BY <1>1, <1>3 DEF AccountMerges, C!Merge, tickVars
<1>4. ASSUME NEW t \in Txs, SubmissionAges(t) \/ NodeDrops(t) \/ Gossip(t)
      PROVE  OrderInv'
  BY <1>1, <1>4 DEF SubmissionAges, NodeDrops, Gossip, C!Drop, C!Take,
                    coreVars, tickVars
<1>5. ASSUME NEW t \in Txs, LedgerCloses(t)
      PROVE  OrderInv'
  <2>1. PICK r \in O!Results : C!Apply(t, r)
    BY <1>5 DEF LedgerCloses
  <2>2. /\ Source[t] \in Accounts
        /\ SeqNum[t] = ledgerSeq[Source[t]] + 1
        /\ \A a \in Accounts : ledgerSeq'[a] =
             IF a = Source[t] THEN ledgerSeq[a] + 1 ELSE ledgerSeq[a]
    BY <2>1, TxSubAssumption DEF C!Apply, TypeInv, TypeOK
  <2>3. \A a \in Accounts : ledgerSeq[a] <= ledgerSeq'[a]
    <3>1. \A a \in Accounts : ledgerSeq[a] \in Nat
      BY DEF TypeInv, TypeOK
    <3> QED BY <2>2, <3>1
  <2>4. ASSUME NEW u \in Txs, result'[u] # "none"
        PROVE  SeqNum[u] <= ledgerSeq'[Source[u]]
    <3>1. Source[u] \in Accounts /\ SeqNum[u] \in Nat
      BY TxSubAssumption
    <3>2. CASE u = t
      BY <2>2, <3>1, <3>2 DEF TypeInv, TypeOK
    <3>3. CASE u # t
      <4>1. SeqNum[u] <= ledgerSeq[Source[u]]
        BY <2>1, <2>4, <3>3 DEF C!Apply, OrderInv, Applied, TypeInv, TypeOK
      <4> QED BY <2>3, <3>1, <4>1 DEF TypeInv, TypeOK
    <3> QED BY <3>2, <3>3
  <2>5. TickRead'
    <3> SUFFICES ASSUME NEW a \in DOMAIN tickSeq
                 PROVE  tickSeq[a] <= ledgerSeq'[a]
      BY <1>5 DEF LedgerCloses, tickVars, TickRead
    <3>1. a \in Accounts /\ tickSeq[a] \in Nat /\ tickSeq[a] <= ledgerSeq[a]
      BY DEF OrderInv, TickRead, TypeInv, TypeOK
    <3> QED BY <2>3, <3>1 DEF TypeInv, TypeOK
  <2> QED BY <1>5, <2>3, <2>4, <2>5, OtherStep, QueueStill
          DEF LedgerCloses, Applied
<1> QED BY <1>2, <1>3, <1>4, <1>5

LEMMA InitOrder == Init => OrderInv
<1> SUFFICES ASSUME Init PROVE OrderInv
  OBVIOUS
<1>1. QueueInv
  BY DEF Init, Q!Init, Q!NewQueue, QueueInv, Frontier, Faithful, Cleared
<1>2. \A s \in Requests : RequestOK(s)
  BY DEF Init, RequestOK
<1>3. TickRead /\ Applied
  BY DEF Init, C!Init, TickRead, Applied
<1> QED BY <1>1, <1>2, <1>3 DEF OrderInv

LEMMA OrderInvHolds == Spec => []OrderInv
<1>1. TypeInv /\ TypeInv' /\ OrderInv /\ [Next]_vars => OrderInv'
  <2> SUFFICES ASSUME TypeInv, TypeInv', OrderInv, [Next]_vars PROVE OrderInv'
    OBVIOUS
  <2>1. CASE Next
    BY <2>1, SubmitKeepsOrder, TickKeepsOrder, EnvironmentKeepsOrder DEF Next
  <2>2. CASE UNCHANGED vars
    BY <2>2, OtherStep, QueueStill, LedgerReflexive
       DEF vars, coreVars, tickVars, OrderInv, TickRead, Applied
  <2> QED BY <2>1, <2>2
<1> QED BY <1>1, InitOrder, TypeInvHolds, PTL DEF Spec

(* A transaction is posted to the node only when its predecessor is known  *)
(* to be applied or accepted.                                              *)
THEOREM PostedInOrder == Spec => []InOrder
<1>1. OrderInv => InOrder
  BY DEF OrderInv, RequestOK, InOrder
<1> QED BY <1>1, OrderInvHolds, PTL

-----------------------------------------------------------------------------
(* TxSub implements SubmissionService.                                     *)

LEMMA PhaseStill ==
  ASSUME \A s \in Requests : PhaseOf(s)' = PhaseOf(s)
  PROVE  phaseBar' = phaseBar
BY DEF phaseBar

LEMMA KnownStill ==
  ASSUME UNCHANGED <<ledgerSeq, accepted>>
  PROVE  knownBar' = knownBar
BY DEF knownBar, Known

LEMMA KnownInBar ==
  ASSUME NEW a \in Accounts, NEW n \in 0 .. MaxSequence
  PROVE  n \in knownBar[a] <=> Known(a, n)
BY DEF knownBar

(* A request in Submit is unanswered, and so is a listener.                *)
LEMMA Unanswered ==
  ASSUME AnswerInv, NEW s \in Requests
  PROVE  /\ pc[s] \in Early => response[s] = <<>>
         /\ \A t \in Txs : s \in submissions[t] =>
              response[s] = <<>> /\ tx[s] = t /\ pc[s] \in Late
BY DEF AnswerInv, NoOrphan, Listening, Early, Late

(* Results are given for what the ledger has used up.                      *)
LEMMA ResultKnown ==
  ASSUME TypeInv, OrderInv, NEW t \in Txs, result[t] # "none"
  PROVE  SeqNum[t] \in knownBar[Source[t]]
<1>1. SeqNum[t] <= ledgerSeq[Source[t]]
  BY DEF OrderInv, Applied
<1>2. Source[t] \in Accounts /\ SeqNum[t] \in 0 .. MaxSequence
  BY TxSubAssumption
<1> QED BY <1>1, <1>2, KnownInBar DEF Known

LEMMA AnswerStep ==
  ASSUME TypeInv, TypeInv', NEW A \in SUBSET Requests, NEW r \in O!Answers,
         O!Send(A, r),
         \A s \in A : response[s] = <<>> /\ S!MayAnswer(s, r),
         \A s \in Requests : s \notin A => pc'[s] = pc[s],
         UNCHANGED <<tx, ledgerSeq, accepted>>
  PROVE  S!Next
<1>1. \A s \in Requests :
        /\ s \in A => response'[s] = <<r>> /\ response'[s] # <<>>
        /\ s \notin A => response'[s] = response[s]
  BY SendOnce DEF TypeInv, TypeOK
<1>2. \A s \in Requests : s \in A => PhaseOf(s)' = "answered"
  BY <1>1 DEF PhaseOf
<1>3. \A s \in Requests : s \notin A => PhaseOf(s)' = PhaseOf(s)
  BY <1>1 DEF PhaseOf
<1>4. phaseBar' =
        [s \in Requests |-> IF s \in A THEN "answered" ELSE phaseBar[s]]
  BY <1>2, <1>3 DEF phaseBar
<1>5. response' = [s \in Requests |-> IF s \in A THEN <<r>> ELSE response[s]]
  BY <1>1 DEF O!Send
<1>6. S!Answer(A, r)
  BY <1>4, <1>5, KnownStill DEF S!Answer
<1>7. r \in S!Results \cup S!Errors \cup {"malformed"}
  BY DEF O!Answers, O!Results, O!Errors, S!Results, S!Errors
<1> QED BY <1>6, <1>7 DEF S!Next

(* A request that answers itself.                                          *)
LEMMA ReplyStep ==
  ASSUME TypeInv, TypeInv', AnswerInv, NEW s \in Requests, NEW r \in O!Answers,
         pc[s] \in Early, Reply(s, r),
         \/ pc[s] = "idle" /\ r = "malformed"
         \/ pc[s] # "idle" /\ r \in S!Errors
         \/ /\ pc[s] # "idle" /\ r \in S!Results
            /\ SeqNum[tx[s]] \in knownBar[Source[tx[s]]],
         UNCHANGED <<tx, ledgerSeq, accepted>>
  PROVE  S!Next
<1>1. response[s] = <<>>
  BY Unanswered
<1>2. /\ pc[s] = "idle" => phaseBar[s] = "new"
      /\ pc[s] # "idle" => phaseBar[s] \in {"queued", "cleared"}
  BY <1>1 DEF phaseBar, PhaseOf
<1>3. S!MayAnswer(s, r)
  BY <1>2 DEF S!MayAnswer
<1>4. \A q \in Requests : q \notin {s} => pc'[q] = pc[q]
  BY DEF Reply, Goto, TypeInv, TypeOK
<1>5. O!Send({s}, r)
  BY DEF Reply
<1>6. {s} \in SUBSET Requests /\ \A q \in {s} : q = s
  OBVIOUS
<1> QED BY <1>1, <1>3, <1>4, <1>5, <1>6, AnswerStep

(* Tick answering the listeners of some transactions.                      *)
LEMMA ListenersStep ==
  ASSUME TypeInv, TypeInv', AnswerInv, OrderInv, NEW T \in SUBSET Txs,
         NEW r \in O!Answers, O!Send(UNION {submissions[t] : t \in T}, r),
         r \in S!Errors \/ (r \in S!Results /\ \A t \in T : result[t] # "none"),
         UNCHANGED <<pc, tx, ledgerSeq, accepted>>
  PROVE  S!Next
<1> DEFINE A == UNION {submissions[t] : t \in T}
<1>1. A \in SUBSET Requests
  BY DEF TypeInv, TypeOK
<1>2. ASSUME NEW s \in A
      PROVE  response[s] = <<>> /\ S!MayAnswer(s, r)
  <2>1. PICK t \in T : s \in submissions[t]
    OBVIOUS
  <2>2. s \in Requests /\ t \in Txs
    BY <1>1
  <2>3. response[s] = <<>> /\ tx[s] = t /\ pc[s] \in Late
    BY <2>1, <2>2, Unanswered
  <2>4. phaseBar[s] = "cleared"
    BY <2>2, <2>3 DEF phaseBar, PhaseOf, Late
  <2>5. result[t] # "none" => SeqNum[tx[s]] \in knownBar[Source[tx[s]]]
    BY <2>2, <2>3, ResultKnown
  <2> QED BY <2>3, <2>4, <2>5 DEF S!MayAnswer
<1> QED BY <1>1, <1>2, AnswerStep

(* A step of s that answers nobody and moves s within its phase.           *)
LEMMA SilentStep ==
  ASSUME TypeInv, NEW s \in Requests, NEW place, Goto(s, place),
         pc[s] # "idle", place # "idle",
         pc[s] \in {"lookup", "load", "push", "update", "wait"} <=>
           place \in {"lookup", "load", "push", "update", "wait"},
         UNCHANGED response
  PROVE  phaseBar' = phaseBar
<1>1. pc'[s] = place /\ \A q \in Requests : q # s => pc'[q] = pc[q]
  BY DEF Goto, TypeInv, TypeOK
<1>2. \A q \in Requests : PhaseOf(q)' = PhaseOf(q)
  BY <1>1 DEF PhaseOf
<1> QED BY <1>2, PhaseStill

(* A number is learned when the node takes its transaction or a ledger     *)
(* applies it.                                                             *)
LEMMA LearnStep ==
  ASSUME TypeInv, TypeInv', NEW t \in Txs,
         SeqNum[t] - 1 \in 0 .. MaxSequence => Known(Source[t], SeqNum[t] - 1),
         \A a \in Accounts, n \in 0 .. MaxSequence :
           Known(a, n)' <=> Known(a, n) \/ (a = Source[t] /\ n = SeqNum[t]),
         phaseBar' = phaseBar,
         UNCHANGED <<tx, response>>
  PROVE  S!Next
<1> DEFINE a == Source[t]
           n == SeqNum[t]
<1>1. a \in Accounts /\ n \in 1 .. MaxSequence /\ MaxSequence \in Nat
  BY TxSubAssumption
<1>2. n - 1 \in 0 .. MaxSequence /\ n \in 0 .. MaxSequence
  BY <1>1
<1>3. n - 1 \in knownBar[a]
  BY <1>1, <1>2, KnownInBar
<1>4. ASSUME NEW b \in Accounts
      PROVE  knownBar'[b] = IF b = a THEN knownBar[b] \cup {n} ELSE knownBar[b]
  BY <1>2 DEF knownBar
<1>5. knownBar' = [knownBar EXCEPT ![a] = @ \cup {n}]
  <2>1. /\ knownBar' = [b \in Accounts |-> knownBar'[b]]
        /\ knownBar = [b \in Accounts |-> knownBar[b]]
    BY DEF knownBar
  <2>2. DOMAIN knownBar = Accounts
    BY <2>1
  <2> QED BY <1>1, <1>4, <2>1, <2>2
<1>6. S!Learn(a, n)
  BY <1>3, <1>5 DEF S!Learn
<1> QED BY <1>1, <1>6 DEF S!Next

LEMMA RequestRefines ==
  ASSUME TypeInv, TypeInv', AnswerInv, OrderInv, NEW s \in Requests,
         Arrive(s) \/ ArriveMalformed(s) \/ Submit(s) \/ Cancel(s)
  PROVE  [S!Next]_(S!vars)
<1>0. \A place : Goto(s, place) =>
        pc'[s] = place /\ \A q \in Requests : q # s => pc'[q] = pc[q]
  BY DEF Goto, TypeInv, TypeOK
<1>a. ASSUME phaseBar' = phaseBar,
             UNCHANGED <<tx, response, ledgerSeq, accepted>>
      PROVE  UNCHANGED S!vars
  BY <1>a, KnownStill DEF S!vars
<1>b. /\ O!Answers = S!Results \cup S!Errors \cup {"malformed"}
      /\ S!Results = O!Results
  BY DEF O!Answers, O!Results, O!Errors, S!Results, S!Errors
<1>1. CASE Arrive(s)
  <2>1. PICK t \in Txs : tx' = [tx EXCEPT ![s] = t]
    BY <1>1 DEF Arrive
  <2>2. /\ pc[s] = "idle" /\ Goto(s, "lookup") /\ response' = response
        /\ UNCHANGED <<ledgerSeq, accepted>>
    BY <1>1 DEF Arrive, openVars, coreVars
  <2>3. response[s] = <<>>
    BY <2>2, Unanswered DEF Early
  <2>4. phaseBar[s] = "new" /\ PhaseOf(s)' = "queued"
    BY <1>0, <2>2, <2>3 DEF phaseBar, PhaseOf
  <2>5. \A q \in Requests : q # s => PhaseOf(q)' = PhaseOf(q)
    BY <1>0, <2>2 DEF PhaseOf
  <2>6. phaseBar' = [phaseBar EXCEPT ![s] = "queued"]
    BY <2>4, <2>5 DEF phaseBar
  <2>7. S!Arrive(s, t)
    BY <2>1, <2>2, <2>4, <2>6, KnownStill DEF S!Arrive
  <2> QED BY <2>7 DEF S!Next
<1>2. CASE ArriveMalformed(s)
  <2>1. "malformed" \in O!Answers
    BY <1>b
  <2> QED BY <1>2, <2>1, ReplyStep DEF ArriveMalformed, coreVars, Early
<1>3. ASSUME NEW r \in S!Errors, Reply(s, r), pc[s] # "idle", pc[s] \in Early,
             UNCHANGED <<tx, ledgerSeq, accepted>>
      PROVE  S!Next
  BY <1>b, <1>3, ReplyStep
<1>4. ASSUME Reply(s, result[tx[s]]), result[tx[s]] # "none",
             tx[s] \in Txs, pc[s] # "idle", pc[s] \in Early,
             UNCHANGED <<tx, ledgerSeq, accepted>>
      PROVE  S!Next
  <2>1. result[tx[s]] \in O!Results
    BY <1>4 DEF TypeInv, TypeOK
  <2>2. SeqNum[tx[s]] \in knownBar[Source[tx[s]]]
    BY <1>4, ResultKnown
  <2> QED BY <1>b, <1>4, <2>1, <2>2, ReplyStep
<1>c. S!Errors = {"error", "noAccount", "noMoreRoom", "badSequence",
                  "rejected", "canceled", "timeout"}
  BY DEF S!Errors
<1>5. CASE Lookup(s)
  <2>1. /\ pc[s] = "lookup" /\ pc[s] \in Early /\ tx[s] \in Txs
        /\ UNCHANGED <<tx, ledgerSeq, accepted>>
    BY <1>5 DEF Lookup, coreVars, TypeInv, HasTx, Early
  <2>2. CASE Reply(s, "error")
    BY <1>3, <1>c, <2>1, <2>2
  <2>3. CASE result[tx[s]] # "none" /\ Reply(s, result[tx[s]])
    BY <1>4, <2>1, <2>3
  <2>4. CASE Goto(s, "load") /\ UNCHANGED openVars
    <3>1. response' = response
      BY <2>4 DEF openVars
    <3> QED BY <1>a, <2>1, <2>4, <3>1, SilentStep
  <2> QED BY <1>5, <2>2, <2>3, <2>4 DEF Lookup
<1>6. CASE LoadSequence(s)
  <2>1. /\ pc[s] = "load" /\ pc[s] \in Early
        /\ UNCHANGED <<tx, ledgerSeq, accepted>>
    BY <1>6 DEF LoadSequence, coreVars, Early
  <2>2. CASE Reply(s, "error") \/ Reply(s, "noAccount")
    BY <1>3, <1>c, <2>1, <2>2
  <2>3. CASE Goto(s, "push") /\ UNCHANGED openVars
    <3>1. response' = response
      BY <2>3 DEF openVars
    <3> QED BY <1>a, <2>1, <2>3, <3>1, SilentStep
  <2> QED BY <1>6, <2>2, <2>3 DEF LoadSequence
<1>7. CASE PushSubmission(s)
  <2>1. /\ pc[s] = "push" /\ Goto(s, "update")
        /\ UNCHANGED <<tx, ledgerSeq, accepted, response>>
    BY <1>7 DEF PushSubmission, coreVars, openVars
  <2> QED BY <1>a, <2>1, SilentStep
<1>8. CASE UpdateQueue(s)
  <2>1. /\ pc[s] = "update" /\ Goto(s, "wait")
        /\ UNCHANGED <<tx, ledgerSeq, accepted, response>>
    BY <1>8 DEF UpdateQueue, coreVars, openVars
  <2> QED BY <1>a, <2>1, SilentStep
<1>9. CASE Proceed(s)
  <2>1. /\ pc[s] = "wait" /\ signal[s] = "nil" /\ Goto(s, "submit")
        /\ UNCHANGED <<tx, ledgerSeq, accepted, response>>
    BY <1>9 DEF Proceed, coreVars, openVars
  <2>2. response[s] = <<>>
    BY <2>1, Unanswered DEF Early
  <2>3. phaseBar[s] = "queued" /\ PhaseOf(s)' = "cleared"
    BY <1>0, <2>1, <2>2 DEF phaseBar, PhaseOf
  <2>4. \A q \in Requests : q # s => PhaseOf(q)' = PhaseOf(q)
    BY <1>0, <2>1 DEF PhaseOf
  <2>5. phaseBar' = [phaseBar EXCEPT ![s] = "cleared"]
    BY <2>3, <2>4 DEF phaseBar
  <2>6. tx[s] \in Txs /\ Known(Source[tx[s]], SeqNum[tx[s]] - 1)
    BY <2>1 DEF OrderInv, QueueInv, Cleared, Account
  <2>7. Source[tx[s]] \in Accounts /\ SeqNum[tx[s]] - 1 \in 0 .. MaxSequence
    BY <2>6, TxSubAssumption
  <2>8. SeqNum[tx[s]] - 1 \in knownBar[Source[tx[s]]]
    BY <2>6, <2>7, KnownInBar
  <2>9. S!Clear(s)
    BY <2>1, <2>3, <2>5, <2>8, KnownStill DEF S!Clear
  <2> QED BY <2>9 DEF S!Next
<1>10. CASE GiveUp(s)
  <2>1. /\ pc[s] = "wait" /\ pc[s] \in Early
        /\ UNCHANGED <<tx, ledgerSeq, accepted>>
    BY <1>10 DEF GiveUp, coreVars, Early
  <2> QED BY <1>3, <1>10, <1>c, <2>1 DEF GiveUp
<1>11. CASE Cancel(s)
  <2>1. /\ pc[s] = "wait" /\ pc[s] \in Early
        /\ UNCHANGED <<tx, ledgerSeq, accepted>>
    BY <1>11 DEF Cancel, coreVars, Early
  <2> QED BY <1>3, <1>11, <1>c, <2>1 DEF Cancel
<1>12. CASE SubmitAccepted(s)
  <2>1. /\ pc[s] = "submit" /\ Goto(s, "add")
        /\ accepted' = accepted \cup {tx[s]}
        /\ UNCHANGED <<tx, ledgerSeq, response>>
    BY <1>12 DEF SubmitAccepted, coreVars, openVars, C!Take
  <2>2. tx[s] \in Txs /\ Known(Source[tx[s]], SeqNum[tx[s]] - 1)
    BY <2>1 DEF OrderInv, RequestOK, Account, TypeInv, HasTx
  <2>3. \A a \in Accounts, n \in 0 .. MaxSequence :
          Known(a, n)' <=>
            Known(a, n) \/ (a = Source[tx[s]] /\ n = SeqNum[tx[s]])
    BY <2>1, <2>2 DEF Known
  <2>4. phaseBar' = phaseBar
    BY <2>1, SilentStep
  <2> QED BY <2>1, <2>2, <2>3, <2>4, LearnStep
<1>13. CASE SubmitBadSeq(s)
  <2>1. /\ pc[s] = "submit" /\ Goto(s, "recheck")
        /\ UNCHANGED <<tx, ledgerSeq, accepted, response>>
    BY <1>13 DEF SubmitBadSeq, coreVars, openVars
  <2> QED BY <1>a, <2>1, SilentStep
<1>14. CASE SubmitRejected(s) \/ SubmitUnknown(s)
  <2>1. /\ pc[s] = "submit" /\ pc[s] \in Early
        /\ UNCHANGED <<tx, ledgerSeq, accepted>>
    BY <1>14 DEF SubmitRejected, SubmitUnknown, coreVars, Early, C!Take
  <2> QED BY <1>3, <1>14, <1>c, <2>1 DEF SubmitRejected, SubmitUnknown
<1>15. CASE Recheck(s)
  <2>1. /\ pc[s] = "recheck" /\ pc[s] \in Early /\ tx[s] \in Txs
        /\ UNCHANGED <<tx, ledgerSeq, accepted>>
    BY <1>15 DEF Recheck, coreVars, TypeInv, HasTx, Early
  <2>2. CASE result[tx[s]] = "success" /\ Reply(s, "success")
    BY <1>4, <2>1, <2>2
  <2>3. CASE Reply(s, "badSequence")
    BY <1>3, <1>c, <2>1, <2>3
  <2> QED BY <1>15, <2>2, <2>3 DEF Recheck
<1>16. CASE AddPending(s)
  <2>1. /\ pc[s] = "add" /\ Goto(s, "release")
        /\ UNCHANGED <<tx, ledgerSeq, accepted, response>>
    BY <1>16 DEF AddPending, O!Add, coreVars
  <2> QED BY <1>a, <2>1, SilentStep
<1>17. CASE ReleaseNext(s)
  <2>1. /\ pc[s] = "release" /\ Goto(s, "open")
        /\ UNCHANGED <<tx, ledgerSeq, accepted, response>>
    BY <1>17 DEF ReleaseNext, coreVars, openVars
  <2> QED BY <1>a, <2>1, SilentStep
<1> QED BY <1>1, <1>2, <1>5, <1>6, <1>7, <1>8, <1>9, <1>10, <1>11, <1>12,
           <1>13, <1>14, <1>15, <1>16, <1>17 DEF Submit

LEMMA OtherRefines ==
  ASSUME TypeInv, TypeInv', AnswerInv, OrderInv,
         \/ Tick \/ TickLoadFails
         \/ \E a \in Accounts : QueueExpires(a) \/ AccountMerges(a)
         \/ \E t \in Txs :
              SubmissionAges(t) \/ LedgerCloses(t) \/ NodeDrops(t) \/ Gossip(t)
  PROVE  [S!Next]_(S!vars)
<1>a. ASSUME UNCHANGED <<pc, tx, response, ledgerSeq, accepted>>
      PROVE  UNCHANGED S!vars
  <2>1. \A s \in Requests : PhaseOf(s)' = PhaseOf(s)
    BY <1>a DEF PhaseOf
  <2> QED BY <1>a, <2>1, PhaseStill, KnownStill DEF S!vars
<1>1. CASE TickStart \/ TickLoad \/ TickLoadFails \/ TickUpdate \/ TickPending
  BY <1>a, <1>1 DEF TickStart, TickLoad, TickLoadFails, TickUpdate, TickPending,
                    openVars, coreVars, requestVars
<1>2. ASSUME NEW t \in Txs, TickResolve(t)
      PROVE  [S!Next]_(S!vars)
  <2>1. UNCHANGED <<pc, tx, ledgerSeq, accepted>>
    BY <1>2 DEF TickResolve, coreVars, requestVars
  <2>2. CASE result[t] # "none" /\ O!Finish(t, result[t])
    <3>1. result[t] \in O!Results
      BY <2>2 DEF TypeInv, TypeOK
    <3>2. result[t] \in O!Answers /\ result[t] \in S!Results
      BY <3>1 DEF O!Answers, O!Results, S!Results
    <3>3. UNION {submissions[u] : u \in {t}} = submissions[t]
      OBVIOUS
    <3>4. O!Send(UNION {submissions[u] : u \in {t}}, result[t])
      BY <2>2, <3>3 DEF O!Finish
    <3>5. {t} \in SUBSET Txs /\ \A u \in {t} : result[u] # "none"
      BY <2>2
    <3> QED BY <2>1, <3>2, <3>4, <3>5, ListenersStep
  <2>3. CASE UNCHANGED openVars
    BY <1>a, <2>1, <2>3 DEF openVars
  <2> QED BY <1>2, <2>2, <2>3 DEF TickResolve
<1>3. CASE TickClean
  <2>1. /\ UNCHANGED <<pc, tx, ledgerSeq, accepted>>
        /\ O!Send(UNION {submissions[u] : u \in O!Overdue}, "timeout")
    BY <1>3 DEF TickClean, O!Clean, coreVars, requestVars
  <2>2. O!Overdue \in SUBSET Txs
    BY DEF O!Overdue, O!Pending
  <2>3. "timeout" \in O!Answers /\ "timeout" \in S!Errors
    BY DEF O!Answers, O!Errors, S!Errors
  <2> QED BY <2>1, <2>2, <2>3, ListenersStep
<1>4. CASE \/ \E a \in Accounts : QueueExpires(a) \/ AccountMerges(a)
           \/ \E t \in Txs : SubmissionAges(t) \/ NodeDrops(t) \/ Gossip(t)
  BY <1>a, <1>4 DEF QueueExpires, AccountMerges, SubmissionAges, NodeDrops,
                    Gossip, O!Age, C!Merge, C!Drop, C!Take, openVars, coreVars,
                    requestVars
<1>5. ASSUME NEW t \in Txs, LedgerCloses(t)
      PROVE  S!Next
  <2>1. PICK r \in O!Results : C!Apply(t, r)
    BY <1>5 DEF LedgerCloses
  <2>2. /\ Source[t] \in Accounts /\ SeqNum[t] \in Nat
        /\ SeqNum[t] = ledgerSeq[Source[t]] + 1
        /\ \A a \in Accounts : ledgerSeq'[a] =
             IF a = Source[t] THEN ledgerSeq[a] + 1 ELSE ledgerSeq[a]
        /\ \A a \in Accounts : ledgerSeq[a] \in Nat
    BY <2>1, TxSubAssumption DEF C!Apply, TypeInv, TypeOK
  <2>3. UNCHANGED <<pc, tx, response, accepted>>
    BY <1>5 DEF LedgerCloses, openVars, requestVars
  <2>4. Known(Source[t], SeqNum[t] - 1)
    BY <2>2 DEF Known
  <2>5. ASSUME NEW a \in Accounts, NEW n \in 0 .. MaxSequence
        PROVE  Known(a, n)' <=>
                 Known(a, n) \/ (a = Source[t] /\ n = SeqNum[t])
    <3>1. n <= ledgerSeq'[a] <=>
            n <= ledgerSeq[a] \/ (a = Source[t] /\ n = SeqNum[t])
      BY <2>2
    <3> QED BY <2>3, <3>1 DEF Known
  <2>6. phaseBar' = phaseBar
    <3>1. \A s \in Requests : PhaseOf(s)' = PhaseOf(s)
      BY <2>3 DEF PhaseOf
    <3> QED BY <3>1, PhaseStill
  <2> QED BY <2>3, <2>4, <2>5, <2>6, LearnStep
<1> QED BY <1>1, <1>2, <1>3, <1>4, <1>5 DEF Tick

LEMMA InitRefines == Init => S!Init
<1> SUFFICES ASSUME Init PROVE S!Init
  OBVIOUS
<1>1. phaseBar = [s \in Requests |-> "new"]
  BY DEF Init, O!Init, phaseBar, PhaseOf
<1>2. tx = [s \in Requests |-> NoTx] /\ response = [s \in Requests |-> <<>>]
  BY DEF Init, O!Init
<1>3. ASSUME NEW a \in Accounts
      PROVE  {n \in 0 .. MaxSequence : Known(a, n)} = {0}
  BY TxSubAssumption DEF Init, C!Init, Known
<1> QED BY <1>1, <1>2, <1>3 DEF S!Init, knownBar

(* Horizon's submission system, with its queues, its open list, its ticks, *)
(* its clocks and every fault of the environment, implements the service   *)
(* its documentation promises: each of its steps is a step of the service  *)
(* or none.                                                                *)
THEOREM SubmissionIsService == Spec => ServiceSpec
<1>1. TypeInv /\ TypeInv' /\ AnswerInv /\ OrderInv /\ [Next]_vars
        => [S!Next]_(S!vars)
  <2> SUFFICES ASSUME TypeInv, TypeInv', AnswerInv, OrderInv, [Next]_vars
               PROVE  [S!Next]_(S!vars)
    OBVIOUS
  <2>1. CASE Next
    BY <2>1, RequestRefines, OtherRefines DEF Next
  <2>2. CASE UNCHANGED vars
    <3>1. UNCHANGED <<pc, tx, response, ledgerSeq, accepted>>
      BY <2>2 DEF vars, openVars, coreVars, requestVars
    <3>2. \A s \in Requests : PhaseOf(s)' = PhaseOf(s)
      BY <3>1 DEF PhaseOf
    <3> QED BY <3>1, <3>2, PhaseStill, KnownStill DEF S!vars
  <2> QED BY <2>1, <2>2
<1> QED BY <1>1, InitRefines, TypeInvHolds, AnswerInvHolds, OrderInvHolds, PTL
        DEF Spec, ServiceSpec, S!Spec

-----------------------------------------------------------------------------
(* Answers that name a result: the ledger's, and for good.                 *)

(* A result is written once: the ledger has used up its sequence number.   *)
ResultsStay == \A t \in Txs : result[t] # "none" => result'[t] = result[t]

(* An answer that names a result was read for the request's transaction.   *)
Honest ==
  \A s \in Requests : \A i \in DOMAIN response[s] :
    response[s][i] \in O!Results =>
      tx[s] \in Txs /\ response[s][i] = result[tx[s]]

LEMMA ResultIsFinal ==
  ASSUME TypeInv, OrderInv, [Next]_vars
  PROVE  ResultsStay
<1>1. ASSUME NEW u \in Txs, LedgerCloses(u)
      PROVE  ResultsStay
  <2>1. PICK r \in O!Results : C!Apply(u, r)
    BY <1>1 DEF LedgerCloses
  <2>2. /\ SeqNum[u] = ledgerSeq[Source[u]] + 1
        /\ result' = [result EXCEPT ![u] = r]
    BY <2>1 DEF C!Apply
  <2>3. result[u] = "none"
    <3>1. result[u] # "none" => SeqNum[u] <= ledgerSeq[Source[u]]
      BY DEF OrderInv, Applied
    <3>2. Source[u] \in Accounts /\ ledgerSeq[Source[u]] \in Nat
      BY TxSubAssumption DEF TypeInv, TypeOK
    <3> QED BY <2>2, <3>1, <3>2
  <2> QED BY <2>2, <2>3 DEF ResultsStay, TypeInv, TypeOK
<1>2. CASE UNCHANGED result
  BY <1>2 DEF ResultsStay
<1>3. ASSUME NEW s \in Requests,
             Arrive(s) \/ ArriveMalformed(s) \/ Submit(s) \/ Cancel(s)
      PROVE  result' = result
  BY <1>3 DEF Arrive, ArriveMalformed, Submit, Cancel, Lookup, LoadSequence,
              PushSubmission, UpdateQueue, Proceed, GiveUp, SubmitAccepted,
              SubmitBadSeq, SubmitRejected, SubmitUnknown, Recheck, AddPending,
              ReleaseNext, coreVars, C!Take
<1>4. ASSUME Tick \/ TickLoadFails
      PROVE  result' = result
  BY <1>4 DEF Tick, TickLoadFails, TickStart, TickLoad, TickUpdate, TickPending,
              TickResolve, TickClean, coreVars
<1>5. ASSUME \/ \E a \in Accounts : QueueExpires(a) \/ AccountMerges(a)
             \/ \E t \in Txs : SubmissionAges(t) \/ NodeDrops(t) \/ Gossip(t)
      PROVE  result' = result
  BY <1>5 DEF QueueExpires, AccountMerges, SubmissionAges, NodeDrops, Gossip,
              C!Merge, C!Drop, C!Take, coreVars
<1> QED BY <1>1, <1>2, <1>3, <1>4, <1>5 DEF Next, vars, coreVars

(* One result sent on the channels of requests not answered before.        *)
LEMMA SendHonestly ==
  ASSUME TypeInv, Honest, ResultsStay,
         NEW A \in SUBSET Requests, NEW r \in O!Answers, O!Send(A, r),
         \A s \in A : response[s] = <<>>,
         \A s \in A : r \in O!Results => tx[s] \in Txs /\ r = result[tx[s]],
         UNCHANGED tx
  PROVE  Honest'
<1> SUFFICES ASSUME NEW s \in Requests, NEW i \in DOMAIN response'[s],
                    response'[s][i] \in O!Results
             PROVE  tx[s] \in Txs /\ response'[s][i] = result'[tx[s]]
  BY DEF Honest
<1>0. \A t \in Txs : result[t] \in O!Results => result'[t] = result[t]
  BY DEF ResultsStay, O!Results
<1>1. CASE s \in A
  <2>1. response'[s] = <<r>>
    BY <1>1, SendOnce DEF TypeInv, TypeOK
  <2>2. DOMAIN <<r>> = {1} /\ <<r>>[1] = r
    OBVIOUS
  <2>3. response'[s][i] = r
    BY <2>1, <2>2
  <2> QED BY <1>0, <1>1, <2>3
<1>2. CASE s \notin A
  <2>1. response'[s] = response[s]
    BY <1>2, SendOnce DEF TypeInv, TypeOK
  <2>2. tx[s] \in Txs /\ response[s][i] = result[tx[s]]
    BY <2>1 DEF Honest
  <2> QED BY <1>0, <2>1, <2>2
<1> QED BY <1>1, <1>2

LEMMA SayNothing ==
  ASSUME TypeInv, AnswerInv, Honest, ResultsStay, UNCHANGED response,
         \A s \in Requests : pc[s] # "idle" => tx'[s] = tx[s]
  PROVE  Honest'
<1> SUFFICES ASSUME NEW s \in Requests, NEW i \in DOMAIN response[s],
                    response[s][i] \in O!Results
             PROVE  tx'[s] \in Txs /\ response[s][i] = result'[tx'[s]]
  BY DEF Honest
<1>1. tx[s] \in Txs /\ response[s][i] = result[tx[s]]
  BY DEF Honest
<1>2. pc[s] # "idle"
  <2>1. pc[s] = "idle" => response[s] = <<>>
    BY Unanswered DEF Early
  <2>2. DOMAIN <<>> = {}
    OBVIOUS
  <2> QED BY <2>1, <2>2
<1>3. result[tx[s]] # "none"
  BY <1>1 DEF O!Results
<1> QED BY <1>1, <1>2, <1>3 DEF ResultsStay

(* A request that answers itself.                                          *)
LEMMA ReplyHonestly ==
  ASSUME TypeInv, AnswerInv, Honest, ResultsStay,
         NEW s \in Requests, NEW r \in O!Answers, Reply(s, r), pc[s] \in Early,
         r \in O!Results => tx[s] \in Txs /\ r = result[tx[s]],
         UNCHANGED tx
  PROVE  Honest'
<1>1. response[s] = <<>> /\ O!Send({s}, r)
  BY Unanswered DEF Reply
<1>2. {s} \in SUBSET Requests /\ \A q \in {s} : q = s
  OBVIOUS
<1> QED BY <1>1, <1>2, SendHonestly

LEMMA RequestIsHonest ==
  ASSUME TypeInv, AnswerInv, Honest, ResultsStay, NEW s \in Requests,
         Arrive(s) \/ ArriveMalformed(s) \/ Submit(s) \/ Cancel(s)
  PROVE  Honest'
<1>0. /\ O!Results = {"success", "failed"}
      /\ O!Results \subseteq O!Answers
  BY DEF O!Results, O!Answers
<1>a. ASSUME NEW r \in O!Errors, Reply(s, r), pc[s] \in Early, UNCHANGED tx
      PROVE  Honest'
  <2>1. r \in O!Answers /\ r \notin O!Results
    BY <1>0 DEF O!Answers, O!Errors
  <2> QED BY <1>a, <2>1, ReplyHonestly
<1>b. O!Errors = {"malformed", "error", "noAccount", "noMoreRoom",
                  "badSequence", "rejected", "canceled", "timeout"}
  BY DEF O!Errors
<1>1. CASE Arrive(s)
  <2>1. UNCHANGED response /\ pc[s] = "idle"
    BY <1>1 DEF Arrive, openVars
  <2>2. \A q \in Requests : q # s => tx'[q] = tx[q]
    BY <1>1 DEF Arrive, TypeInv, TypeOK
  <2> QED BY <2>1, <2>2, SayNothing
<1>2. CASE ArriveMalformed(s)
  BY <1>2, <1>a, <1>b DEF ArriveMalformed, Early
<1>3. CASE Lookup(s)
  <2>1. pc[s] \in Early /\ tx[s] \in Txs /\ UNCHANGED tx
    BY <1>3 DEF Lookup, Early, TypeInv, HasTx
  <2>2. CASE Reply(s, "error")
    BY <1>a, <1>b, <2>1, <2>2
  <2>3. CASE result[tx[s]] # "none" /\ Reply(s, result[tx[s]])
    <3>1. result[tx[s]] \in O!Answers
      BY <1>0, <2>1, <2>3 DEF TypeInv, TypeOK
    <3> QED BY <2>1, <2>3, <3>1, ReplyHonestly
  <2>4. CASE UNCHANGED openVars
    BY <2>1, <2>4, SayNothing DEF openVars
  <2> QED BY <1>3, <2>2, <2>3, <2>4 DEF Lookup
<1>4. CASE LoadSequence(s)
  <2>1. pc[s] \in Early /\ UNCHANGED tx
    BY <1>4 DEF LoadSequence, Early
  <2>2. CASE Reply(s, "error") \/ Reply(s, "noAccount")
    BY <1>a, <1>b, <2>1, <2>2
  <2>3. CASE UNCHANGED openVars
    BY <2>1, <2>3, SayNothing DEF openVars
  <2> QED BY <1>4, <2>2, <2>3 DEF LoadSequence
<1>5. CASE GiveUp(s)
  BY <1>5, <1>a, <1>b DEF GiveUp, Early
<1>6. CASE Cancel(s)
  BY <1>6, <1>a, <1>b DEF Cancel, Early
<1>7. CASE SubmitRejected(s)
  BY <1>7, <1>a, <1>b DEF SubmitRejected, Early
<1>8. CASE SubmitUnknown(s)
  BY <1>8, <1>a, <1>b DEF SubmitUnknown, Early
<1>9. CASE Recheck(s)
  <2>1. pc[s] \in Early /\ tx[s] \in Txs /\ UNCHANGED tx
    BY <1>9 DEF Recheck, Early, TypeInv, HasTx
  <2>2. CASE result[tx[s]] = "success" /\ Reply(s, "success")
    BY <1>0, <2>1, <2>2, ReplyHonestly
  <2>3. CASE Reply(s, "badSequence")
    BY <1>a, <1>b, <2>1, <2>3
  <2> QED BY <1>9, <2>2, <2>3 DEF Recheck
<1>10. CASE \/ PushSubmission(s) \/ UpdateQueue(s) \/ Proceed(s)
            \/ SubmitAccepted(s) \/ SubmitBadSeq(s) \/ AddPending(s)
            \/ ReleaseNext(s)
  <2>1. UNCHANGED <<response, tx>>
    BY <1>10 DEF PushSubmission, UpdateQueue, Proceed, SubmitAccepted,
                 SubmitBadSeq, AddPending, O!Add, ReleaseNext, openVars
  <2> QED BY <2>1, SayNothing
<1> QED BY <1>1, <1>2, <1>3, <1>4, <1>5, <1>6, <1>7, <1>8, <1>9, <1>10
        DEF Submit

LEMMA OthersAreHonest ==
  ASSUME TypeInv, AnswerInv, Honest, ResultsStay,
         \/ Tick \/ TickLoadFails
         \/ \E a \in Accounts : QueueExpires(a) \/ AccountMerges(a)
         \/ \E t \in Txs :
              SubmissionAges(t) \/ LedgerCloses(t) \/ NodeDrops(t) \/ Gossip(t)
  PROVE  Honest'
<1>0. UNCHANGED tx
  BY DEF Tick, TickStart, TickLoad, TickLoadFails, TickUpdate, TickPending,
         TickResolve, TickClean, QueueExpires, AccountMerges, SubmissionAges,
         LedgerCloses, NodeDrops, Gossip, requestVars
<1>1. ASSUME NEW t \in Txs, TickResolve(t)
      PROVE  Honest'
  <2>1. CASE result[t] # "none" /\ O!Finish(t, result[t])
    <3>1. submissions[t] \in SUBSET Requests /\ result[t] \in O!Answers
      BY <2>1 DEF TypeInv, TypeOK, O!Answers
    <3>2. \A s \in submissions[t] : response[s] = <<>> /\ tx[s] = t
      BY <3>1, Unanswered
    <3>3. O!Send(submissions[t], result[t])
      BY <2>1 DEF O!Finish
    <3> QED BY <1>0, <3>1, <3>2, <3>3, SendHonestly
  <2>2. CASE UNCHANGED openVars
    BY <1>0, <2>2, SayNothing DEF openVars
  <2> QED BY <1>1, <2>1, <2>2 DEF TickResolve
<1>2. CASE TickClean
  <2> DEFINE A == UNION {submissions[t] : t \in O!Overdue}
  <2>1. /\ A \in SUBSET Requests
        /\ O!Overdue \subseteq Txs
        /\ O!Send(A, "timeout")
    BY <1>2 DEF TickClean, O!Clean, O!Overdue, O!Pending, TypeInv, TypeOK
  <2>2. \A s \in A : response[s] = <<>>
    BY <2>1, Unanswered
  <2>3. "timeout" \in O!Answers /\ "timeout" \notin O!Results
    BY DEF O!Answers, O!Errors, O!Results
  <2> QED BY <1>0, <2>1, <2>2, <2>3, SendHonestly
<1>3. CASE UNCHANGED response
  BY <1>0, <1>3, SayNothing
<1> QED BY <1>1, <1>2, <1>3
        DEF Tick, TickStart, TickLoad, TickLoadFails, TickUpdate, TickPending,
            QueueExpires, AccountMerges, SubmissionAges, LedgerCloses,
            NodeDrops, Gossip, O!Age, openVars

(* Whoever reads a result, when and from which goroutine it is sent, what  *)
(* the client is told of its transaction is what the ledger says, and      *)
(* stays true.                                                             *)
THEOREM ResultsAreTheLedgers == Spec => []HonestResult
<1>1. Init => Honest
  <2> SUFFICES ASSUME Init PROVE Honest
    OBVIOUS
  <2>1. \A s \in Requests : response[s] = <<>>
    BY DEF Init, O!Init
  <2>2. DOMAIN <<>> = {}
    OBVIOUS
  <2> QED BY <2>1, <2>2 DEF Honest
<1>2. TypeInv /\ AnswerInv /\ OrderInv /\ Honest /\ [Next]_vars => Honest'
  <2> SUFFICES ASSUME TypeInv, AnswerInv, OrderInv, Honest, [Next]_vars
               PROVE  Honest'
    OBVIOUS
  <2>1. ResultsStay
    BY ResultIsFinal
  <2>2. CASE Next
    BY <2>1, <2>2, RequestIsHonest, OthersAreHonest DEF Next
  <2>3. CASE UNCHANGED vars
    BY <2>1, <2>3, SayNothing DEF vars, openVars, requestVars
  <2> QED BY <2>2, <2>3
<1>3. Honest => HonestResult
  BY DEF Honest, HonestResult
<1> QED BY <1>1, <1>2, <1>3, TypeInvHolds, AnswerInvHolds, OrderInvHolds, PTL
        DEF Spec

-----------------------------------------------------------------------------
(* Wakeups, and the submission system as a user of the sequence manager.   *)

(* Only a request between its push and its own update may have an item     *)
(* that its queue would already release.                                   *)
AboveNext ==
  \A a \in Accounts : \A i \in queues[a].items :
    pc[i.chan] = "update" \/ queues[a].next \in 1 .. i.seq - 1

(* A request that has pushed has a verdict in its channel or an item in    *)
(* the queue of its account.                                               *)
Queued ==
  \A s \in Requests : pc[s] \in {"update", "wait"} /\ signal[s] = "empty" =>
    \E i \in queues[Account(s)].items : i.chan = s

BeforePush == {"idle", "lookup", "load", "push"}

(* A request that has not pushed has neither.                              *)
Fresh ==
  \A s \in Requests : pc[s] \in BeforePush =>
    signal[s] = "empty" /\ \A a \in Accounts : \A i \in queues[a].items : i.chan # s

WaitInv == AboveNext /\ Queued /\ Fresh

(* The places of the requests that the queues tell apart.                  *)
SameWait(s) ==
  /\ pc[s] \in BeforePush <=> pc'[s] \in BeforePush
  /\ pc[s] = "update" <=> pc'[s] = "update"
  /\ pc[s] = "wait" <=> pc'[s] = "wait"

ItemType ==
  \A a \in Accounts : \A i \in queues[a].items :
    i \in Q!Item /\ i.chan \in Requests /\ i.seq \in Nat

LEMMA ItemsTyped == TypeInv => ItemType
BY DEF TypeInv, TypeOK, Q!TypeOK, Q!Queue, Q!Item, ItemType

(* A step that leaves the manager alone.                                   *)
LEMMA WaitStill ==
  ASSUME TypeInv, WaitInv, UNCHANGED signal,
         \A a \in Accounts : queues'[a].items = queues[a].items
                             /\ queues'[a].next = queues[a].next,
         \A s \in Requests :
           /\ pc'[s] \in BeforePush => pc[s] \in BeforePush
           /\ pc[s] = "update" <=> pc'[s] = "update"
           /\ pc'[s] = "wait" => pc[s] = "wait"
           /\ pc[s] # "idle" => tx'[s] = tx[s]
  PROVE  WaitInv'
<1>1. AboveNext'
  BY ItemsTyped DEF WaitInv, AboveNext, ItemType
<1>2. Queued'
  <2> SUFFICES ASSUME NEW s \in Requests, pc'[s] \in {"update", "wait"},
                      signal'[s] = "empty"
               PROVE  \E i \in queues'[Source[tx'[s]]].items : i.chan = s
    BY DEF Queued, Account
  <2>1. pc[s] \in {"update", "wait"}
    OBVIOUS
  <2>2. tx'[s] = tx[s] /\ Source[tx[s]] \in Accounts
    BY <2>1, TxSubAssumption DEF TypeInv, HasTx
  <2>3. \E i \in queues[Source[tx[s]]].items : i.chan = s
    BY <2>1 DEF WaitInv, Queued, Account
  <2> QED BY <2>2, <2>3
<1>3. Fresh'
  BY DEF WaitInv, Fresh
<1> QED BY <1>1, <1>2, <1>3 DEF WaitInv

LEMMA WaitPushed ==
  ASSUME TypeInv, WaitInv, NEW s \in Requests, PushSubmission(s)
  PROVE  WaitInv'
<1> DEFINE new == [seq |-> SeqNum[tx[s]], chan |-> s]
<1>1. /\ pc[s] = "push" /\ pc'[s] = "update" /\ tx' = tx
      /\ tx[s] \in Txs /\ Account(s) \in Accounts
      /\ Q!Push(s, Account(s), SeqNum[tx[s]])
      /\ \A q \in Requests : q # s => pc'[q] = pc[q]
  BY TxSubAssumption DEF PushSubmission, Goto, Account, TypeInv, TypeOK, HasTx
<1>2. /\ "push" \in BeforePush /\ "update" \notin BeforePush
      /\ "wait" \notin BeforePush
  BY DEF BeforePush
<1>3. CASE ~Q!HasRoom
  <2>1. queues' = queues /\ signal' = [signal EXCEPT ![s] = "noMoreRoom"]
    BY <1>1, <1>3 DEF Q!Push
  <2>2. /\ signal'[s] = "noMoreRoom"
        /\ \A q \in Requests : q # s => signal'[q] = signal[q]
    BY <2>1 DEF TypeInv, TypeOK, Q!TypeOK
  <2>3. AboveNext'
    BY <1>1, <2>1, ItemsTyped DEF WaitInv, AboveNext, ItemType
  <2>4. Queued'
    BY <1>1, <2>1, <2>2 DEF WaitInv, Queued, Account
  <2>5. Fresh'
    BY <1>1, <1>2, <2>1, <2>2 DEF WaitInv, Fresh
  <2> QED BY <2>3, <2>4, <2>5 DEF WaitInv
<1>4. CASE Q!HasRoom
  <2>1. /\ queues' = [queues EXCEPT ![Account(s)].items = @ \cup {new}]
        /\ signal' = signal
    BY <1>1, <1>4 DEF Q!Push
  <2>2. \A a \in Accounts :
          /\ queues'[a].next = queues[a].next
          /\ queues'[a].items = IF a = Account(s) THEN queues[a].items \cup {new}
                                                  ELSE queues[a].items
    <3>1. \A a \in Accounts : queues[a] \in Q!Queue
      BY DEF TypeInv, TypeOK, Q!TypeOK
    <3>2. \A a \in Accounts :
            queues'[a] = IF a = Account(s)
                         THEN [queues[a] EXCEPT !.items = @ \cup {new}]
                         ELSE queues[a]
      BY <2>1 DEF TypeInv, TypeOK, Q!TypeOK
    <3> QED BY <3>1, <3>2 DEF Q!Queue
  <2>3. new.chan = s
    OBVIOUS
  <2>4. AboveNext'
    <3> SUFFICES ASSUME NEW a \in Accounts, NEW i \in queues'[a].items,
                        pc'[i.chan] # "update"
                 PROVE  queues'[a].next \in 1 .. i.seq - 1
      BY DEF AboveNext
    <3>1. i \in queues[a].items
      BY <1>1, <2>2, <2>3
    <3>2. i.chan \in Requests /\ pc[i.chan] # "update"
      BY <1>1, <3>1, ItemsTyped DEF ItemType
    <3> QED BY <2>2, <3>1, <3>2 DEF WaitInv, AboveNext
  <2>5. Queued'
    <3> SUFFICES ASSUME NEW q \in Requests, pc'[q] \in {"update", "wait"},
                        signal[q] = "empty"
                 PROVE  \E i \in queues'[Account(q)].items : i.chan = q
      BY <1>1, <2>1 DEF Queued, Account
    <3>1. CASE q = s
      BY <1>1, <2>2, <2>3, <3>1
    <3>2. CASE q # s
      <4>1. pc[q] \in {"update", "wait"}
        BY <1>1, <3>2
      <4>2. Account(q) \in Accounts
        BY <4>1, TxSubAssumption DEF TypeInv, HasTx, Account
      <4>3. \E i \in queues[Account(q)].items : i.chan = q
        BY <4>1 DEF WaitInv, Queued
      <4> QED BY <2>2, <4>2, <4>3
    <3> QED BY <3>1, <3>2
  <2>6. Fresh'
    <3> SUFFICES ASSUME NEW q \in Requests, pc'[q] \in BeforePush
                 PROVE  /\ signal[q] = "empty"
                        /\ \A a \in Accounts : \A i \in queues'[a].items : i.chan # q
      BY <2>1 DEF Fresh
    <3>1. q # s /\ pc[q] \in BeforePush
      BY <1>1, <1>2
    <3> QED BY <2>2, <2>3, <3>1 DEF WaitInv, Fresh
  <2> QED BY <2>4, <2>5, <2>6 DEF WaitInv
<1> QED BY <1>3, <1>4

(* What an update leaves in a queue is above what it would release next,   *)
(* and the channel of an item it takes out is sent a verdict.              *)
LEMMA UpdatedQueue ==
  ASSUME NEW q \in Q!Queue, NEW n \in Nat,
         NEW i \in Q!AfterUpdate(q, n).items
  PROVE  /\ i \in q.items
         /\ Q!AfterUpdate(q, n).next \in 1 .. i.seq - 1
<1>1. /\ i \in q.items \ Q!Popped(q, n)
      /\ Q!AfterUpdate(q, n).next = Q!NextSequence(q, n)
  BY QueueAfterUpdate DEF Q!NewQueue
<1>2. Q!NextSequence(q, n) \in Nat /\ Q!NextSequence(q, n) >= 1
  BY DEF Q!NextSequence, Q!Queue
<1>3. i.seq \in Nat /\ i.seq > Q!NextSequence(q, n)
  <2>1. i.seq \in Nat
    BY <1>1 DEF Q!Queue, Q!Item
  <2>2. ~(i.seq <= Q!NextSequence(q, n))
    BY <1>1 DEF Q!Popped, Q!TimedOut, Q!Unlocked
  <2> QED BY <1>2, <2>1, <2>2
<1> QED BY <1>1, <1>2, <1>3

LEMMA WaitUpdated ==
  ASSUME TypeInv, WaitInv, NEW u, DOMAIN u \subseteq Accounts,
         \A a \in DOMAIN u : u[a] \in Nat,
         Q!Update(u), UNCHANGED tx,
         \A s \in Requests :
           \/ SameWait(s)
           \/ /\ pc[s] \notin BeforePush /\ pc'[s] \notin BeforePush
              /\ pc[s] = "update" => pc'[s] = "wait" /\ Account(s) \in DOMAIN u
              /\ pc[s] # "update" => pc'[s] \notin {"update", "wait"},
         Faithful
  PROVE  WaitInv'
<1>1. ASSUME NEW a \in Accounts, a \in DOMAIN u
      PROVE  /\ \A i \in queues'[a].items :
                  i \in queues[a].items /\ queues'[a].next \in 1 .. i.seq - 1
             /\ queues'[a].items = queues[a].items \ Q!Popped(queues[a], u[a])
  <2>1. queues[a] \in Q!Queue /\ u[a] \in Nat
    BY <1>1 DEF TypeInv, TypeOK, Q!TypeOK
  <2>2. queues'[a] = Q!AfterUpdate(queues[a], u[a])
    BY <1>1 DEF Q!Update
  <2> QED BY <2>1, <2>2, UpdatedQueue, QueueAfterUpdate
<1>2. ASSUME NEW a \in Accounts, a \notin DOMAIN u
      PROVE  queues'[a] = queues[a]
  BY <1>2 DEF Q!Update
<1>3. AboveNext'
  <2> SUFFICES ASSUME NEW a \in Accounts, NEW i \in queues'[a].items,
                      pc'[i.chan] # "update"
               PROVE  queues'[a].next \in 1 .. i.seq - 1
    BY DEF AboveNext
  <2>1. CASE a \in DOMAIN u
    BY <1>1, <2>1
  <2>2. CASE a \notin DOMAIN u
    <3>1. /\ i \in queues[a].items /\ i.chan \in Requests
          /\ Account(i.chan) = a /\ queues'[a] = queues[a]
      BY <1>2, <2>2, ItemsTyped DEF ItemType, Faithful
    <3>2. pc[i.chan] # "update"
      BY <2>2, <3>1 DEF SameWait
    <3> QED BY <3>1, <3>2 DEF WaitInv, AboveNext
  <2> QED BY <2>1, <2>2
<1>4. Queued'
  <2> SUFFICES ASSUME NEW s \in Requests, pc'[s] \in {"update", "wait"},
                      signal'[s] = "empty"
               PROVE  \E i \in queues'[Account(s)].items : i.chan = s
    BY DEF Queued, Account
  <2>1. pc[s] \in {"update", "wait"}
    BY DEF SameWait
  <2>2. Account(s) \in Accounts
    BY <2>1, TxSubAssumption DEF TypeInv, HasTx, Account
  <2>3. signal[s] = "empty" /\ \A v \in {"nil", "badSequence"} : s \notin Q!Notified(u, v)
    BY DEF Q!Update
  <2>4. PICK i \in queues[Account(s)].items : i.chan = s
    BY <2>1, <2>3 DEF WaitInv, Queued
  <2>5. CASE Account(s) \in DOMAIN u
    <3>1. i \notin Q!Popped(queues[Account(s)], u[Account(s)])
      <4>1. \A v : (\E j \in Q!Popped(queues[Account(s)], u[Account(s)]) :
                      j.chan = s
                      /\ Q!Verdict(queues[Account(s)], u[Account(s)], j) = v)
                     => s \in Q!Notified(u, v)
        BY <2>2, <2>5 DEF Q!Notified
      <4>2. Q!Verdict(queues[Account(s)], u[Account(s)], i) \in {"nil", "badSequence"}
        BY DEF Q!Verdict
      <4> QED BY <2>3, <2>4, <4>1, <4>2
    <3> QED BY <1>1, <2>2, <2>4, <2>5, <3>1
  <2>6. CASE Account(s) \notin DOMAIN u
    BY <1>2, <2>2, <2>4, <2>6
  <2> QED BY <2>5, <2>6
<1>5. Fresh'
  <2> SUFFICES ASSUME NEW s \in Requests, pc'[s] \in BeforePush
               PROVE  /\ signal'[s] = "empty"
                      /\ \A a \in Accounts : \A i \in queues'[a].items : i.chan # s
    BY DEF Fresh
  <2>1. pc[s] \in BeforePush
    BY DEF SameWait
  <2>2. signal[s] = "empty" /\ \A a \in Accounts : \A i \in queues[a].items : i.chan # s
    BY <2>1 DEF WaitInv, Fresh
  <2>3. \A a \in Accounts : \A i \in queues'[a].items : i.chan # s
    BY <1>1, <1>2, <2>2
  <2>4. \A v : s \notin Q!Notified(u, v)
    <3> SUFFICES ASSUME NEW v, s \in Q!Notified(u, v) PROVE FALSE
      OBVIOUS
    <3>1. PICK a \in Accounts \cap DOMAIN u :
            \E j \in Q!Popped(queues[a], u[a]) : j.chan = s
      BY DEF Q!Notified
    <3>2. queues[a] \in Q!Queue /\ u[a] \in Nat
      BY DEF TypeInv, TypeOK, Q!TypeOK
    <3> QED BY <2>2, <3>1, <3>2, QueuePopped
  <2> QED BY <2>2, <2>3, <2>4 DEF Q!Update
<1> QED BY <1>3, <1>4, <1>5 DEF WaitInv

LEMMA RequestWaits ==
  ASSUME TypeInv, OrderInv, WaitInv, NEW s \in Requests,
         Arrive(s) \/ ArriveMalformed(s) \/ Submit(s) \/ Cancel(s)
  PROVE  WaitInv'
<1>0. \A place : Goto(s, place) =>
        pc'[s] = place /\ \A q \in Requests : q # s => pc'[q] = pc[q]
  BY DEF Goto, TypeInv, TypeOK
<1>a. ASSUME UNCHANGED queueVars, NEW place, Goto(s, place), UNCHANGED tx,
             place \notin {"update", "wait"}, pc[s] # "update",
             place \in BeforePush => pc[s] \in BeforePush
      PROVE  WaitInv'
  BY <1>0, <1>a, WaitStill DEF queueVars
<1>b. BeforePush = {"idle", "lookup", "load", "push"}
  BY DEF BeforePush
<1>1. CASE Arrive(s)
  <2>1. \A q \in Requests : pc[q] # "idle" => tx'[q] = tx[q]
    BY <1>1 DEF Arrive, TypeInv, TypeOK
  <2> QED BY <1>0, <1>1, <1>b, <2>1, WaitStill DEF Arrive, queueVars
<1>2. CASE ArriveMalformed(s) \/ GiveUp(s) \/ Cancel(s) \/ SubmitRejected(s)
           \/ SubmitUnknown(s) \/ Recheck(s)
  <2>1. /\ Goto(s, "done") /\ UNCHANGED <<queueVars, tx>>
        /\ pc[s] # "update"
    BY <1>2 DEF ArriveMalformed, GiveUp, Cancel, SubmitRejected, SubmitUnknown,
                Recheck, Reply
  <2> QED BY <1>a, <1>b, <2>1
<1>3. CASE Lookup(s)
  <2>1. /\ Goto(s, "done") \/ Goto(s, "load")
        /\ UNCHANGED <<queueVars, tx>> /\ pc[s] = "lookup"
    BY <1>3 DEF Lookup, Reply
  <2> QED BY <1>a, <1>b, <2>1
<1>4. CASE LoadSequence(s)
  <2>1. /\ Goto(s, "done") \/ Goto(s, "push")
        /\ UNCHANGED <<queueVars, tx>> /\ pc[s] = "load"
    BY <1>4 DEF LoadSequence, Reply
  <2> QED BY <1>a, <1>b, <2>1
<1>5. CASE PushSubmission(s)
  BY <1>5, WaitPushed
<1>6. CASE UpdateQueue(s)
  <2> DEFINE u == [a \in {Account(s)} |-> curSeq[s]]
  <2>1. /\ pc[s] = "update" /\ Goto(s, "wait") /\ tx' = tx /\ Q!Update(u)
        /\ Account(s) \in Accounts /\ curSeq[s] \in Nat
    BY <1>6, TxSubAssumption
       DEF UpdateQueue, Account, TypeInv, TypeOK, HasTx
  <2>2. DOMAIN u = {Account(s)} /\ \A a \in DOMAIN u : u[a] \in Nat
    BY <2>1
  <2>3. \A q \in Requests :
          \/ SameWait(q)
          \/ /\ pc[q] \notin BeforePush /\ pc'[q] \notin BeforePush
             /\ pc[q] = "update" => pc'[q] = "wait" /\ Account(q) \in DOMAIN u
             /\ pc[q] # "update" => pc'[q] \notin {"update", "wait"}
    <3>1. \A q \in Requests : q # s => SameWait(q)
      BY <1>0, <2>1 DEF SameWait
    <3>2. pc'[s] = "wait"
      BY <1>0, <2>1
    <3> QED BY <1>b, <2>1, <2>2, <3>1, <3>2
  <2> HIDE DEF u
  <2>4. DOMAIN u \subseteq Accounts
    BY <2>1, <2>2
  <2>5. Faithful
    BY DEF OrderInv, QueueInv
  <2> QED BY <2>1, <2>2, <2>3, <2>4, <2>5, WaitUpdated
<1>7. CASE Proceed(s)
  BY <1>7, <1>a, <1>b DEF Proceed
<1>8. CASE SubmitAccepted(s)
  BY <1>8, <1>a, <1>b DEF SubmitAccepted
<1>9. CASE SubmitBadSeq(s)
  BY <1>9, <1>a, <1>b DEF SubmitBadSeq
<1>10. CASE AddPending(s)
  BY <1>10, <1>a, <1>b DEF AddPending
<1>11. CASE ReleaseNext(s)
  <2> DEFINE u == [a \in {Account(s)} |-> SeqNum[tx[s]]]
  <2>1. /\ pc[s] = "release" /\ Goto(s, "open") /\ tx' = tx /\ Q!Update(u)
        /\ Account(s) \in Accounts /\ SeqNum[tx[s]] \in Nat
    BY <1>11, TxSubAssumption DEF ReleaseNext, Account, TypeInv, HasTx
  <2>2. DOMAIN u = {Account(s)} /\ \A a \in DOMAIN u : u[a] \in Nat
    BY <2>1
  <2>3. \A q \in Requests : SameWait(q)
    BY <1>0, <1>b, <2>1 DEF SameWait
  <2> HIDE DEF u
  <2>4. DOMAIN u \subseteq Accounts
    BY <2>1, <2>2
  <2>5. Faithful
    BY DEF OrderInv, QueueInv
  <2> QED BY <2>1, <2>2, <2>3, <2>4, <2>5, WaitUpdated
<1> QED BY <1>1, <1>2, <1>3, <1>4, <1>5, <1>6, <1>7, <1>8, <1>9, <1>10, <1>11
        DEF Submit

LEMMA OthersWait ==
  ASSUME TypeInv, OrderInv, WaitInv,
         \/ Tick \/ TickLoadFails
         \/ \E a \in Accounts : QueueExpires(a) \/ AccountMerges(a)
         \/ \E t \in Txs :
              SubmissionAges(t) \/ LedgerCloses(t) \/ NodeDrops(t) \/ Gossip(t)
  PROVE  WaitInv'
<1>0. UNCHANGED <<pc, tx>>
  BY DEF Tick, TickStart, TickLoad, TickLoadFails, TickUpdate, TickPending,
         TickResolve, TickClean, QueueExpires, AccountMerges, SubmissionAges,
         LedgerCloses, NodeDrops, Gossip, requestVars
<1>1. CASE UNCHANGED queueVars
  BY <1>0, <1>1, WaitStill DEF queueVars
<1>2. CASE TickUpdate
  <2>1. \A s \in Requests : SameWait(s)
    BY <1>0 DEF SameWait
  <2>2. /\ DOMAIN tickSeq \subseteq Accounts
        /\ \A a \in DOMAIN tickSeq : tickSeq[a] \in Nat
    BY DEF TypeInv, TypeOK
  <2>3. Faithful
    BY DEF OrderInv, QueueInv
  <2> QED BY <1>0, <1>2, <2>1, <2>2, <2>3, WaitUpdated DEF TickUpdate
<1>3. ASSUME NEW a \in Accounts, QueueExpires(a)
      PROVE  WaitInv'
  <2>1. /\ signal' = signal
        /\ \A b \in Accounts : /\ queues'[b].next = queues[b].next
                               /\ queues'[b].items = queues[b].items
    BY <1>3 DEF QueueExpires, Q!Expire, TypeInv, TypeOK, Q!TypeOK, Q!Queue
  <2> QED BY <1>0, <2>1, WaitStill
<1> QED BY <1>1, <1>2, <1>3
        DEF Tick, TickStart, TickLoad, TickLoadFails, TickPending, TickResolve,
            TickClean, AccountMerges, SubmissionAges, LedgerCloses, NodeDrops,
            Gossip

LEMMA WaitInvHolds == Spec => []WaitInv
<1>1. Init => WaitInv
  BY DEF Init, Q!Init, Q!NewQueue, WaitInv, AboveNext, Queued, Fresh
<1>2. TypeInv /\ OrderInv /\ WaitInv /\ [Next]_vars => WaitInv'
  <2> SUFFICES ASSUME TypeInv, OrderInv, WaitInv, [Next]_vars PROVE WaitInv'
    OBVIOUS
  <2>1. CASE Next
    BY <2>1, RequestWaits, OthersWait DEF Next
  <2>2. CASE UNCHANGED vars
    BY <2>2, WaitStill DEF vars, queueVars, requestVars
  <2> QED BY <2>1, <2>2
<1> QED BY <1>1, <1>2, TypeInvHolds, OrderInvHolds, PTL DEF Spec

(* Although Push and Update are two calls, and other requests and ticks    *)
(* update between them, a request that waits has its verdict or an item    *)
(* that its queue has looked at and still has a reason to keep.            *)
THEOREM WakeupsAreKept == Spec => []NoLostWakeup
<1>1. TypeInv /\ OrderInv /\ WaitInv => NoLostWakeup
  <2> SUFFICES ASSUME TypeInv, OrderInv, WaitInv, NEW s \in Requests,
                      pc[s] = "wait", signal[s] = "empty"
               PROVE  \E i \in queues[Account(s)].items :
                        /\ i.chan = s /\ i.seq = SeqNum[tx[s]]
                        /\ queues[Account(s)].next \in 1 .. i.seq - 1
    BY DEF NoLostWakeup
  <2>1. Account(s) \in Accounts
    BY TxSubAssumption DEF TypeInv, HasTx, Account
  <2>2. PICK i \in queues[Account(s)].items : i.chan = s
    BY DEF WaitInv, Queued
  <2>3. i.seq = SeqNum[tx[s]]
    BY <2>1, <2>2 DEF OrderInv, QueueInv, Faithful
  <2>4. queues[Account(s)].next \in 1 .. i.seq - 1
    BY <2>1, <2>2 DEF WaitInv, AboveNext
  <2> QED BY <2>2, <2>3, <2>4
<1> QED BY <1>1, TypeInvHolds, OrderInvHolds, WaitInvHolds, PTL
-----------------------------------------------------------------------------
(* The submission system uses its sequence manager as it asks to be used.  *)

(* Every number that is read and reported is a transaction's, or zero.     *)
Bounded ==
  /\ \A a \in Accounts : ledgerSeq[a] <= MaxSequence
  /\ \A s \in Requests : curSeq[s] <= MaxSequence
  /\ \A a \in DOMAIN tickSeq : tickSeq[a] <= MaxSequence
  /\ tick = "update" => tickSeq = [a \in DOMAIN tickSeq |-> tickSeq[a]]

LEMMA StepIsBounded ==
  ASSUME TypeInv, Bounded, [Next]_vars
  PROVE  Bounded'
<1>0. MaxSequence \in Nat
  BY TxSubAssumption
<1>a. ASSUME UNCHANGED <<ledgerSeq, curSeq, tickSeq>>,
             tick' = "update" => tick = "update"
      PROVE  Bounded'
  BY <1>a DEF Bounded
<1>1. ASSUME NEW s \in Requests, UpdateQueue(s)
      PROVE  Bounded'
  <2>1. /\ curSeq' = [curSeq EXCEPT ![s] = 0]
        /\ UNCHANGED <<ledgerSeq, tickSeq, tick>>
    BY <1>1 DEF UpdateQueue, coreVars, tickVars
  <2> QED BY <1>0, <2>1 DEF Bounded, TypeInv, TypeOK
<1>2. ASSUME NEW s \in Requests, LoadSequence(s)
      PROVE  Bounded'
  <2>1. CASE curSeq' = [curSeq EXCEPT ![s] = ledgerSeq[Account(s)]]
    <3>1. Account(s) \in Accounts /\ UNCHANGED <<ledgerSeq, tickSeq, tick>>
      BY <1>2, TxSubAssumption
         DEF LoadSequence, Account, TypeInv, HasTx, coreVars, tickVars
    <3> QED BY <2>1, <3>1 DEF Bounded, TypeInv, TypeOK
  <2>2. CASE UNCHANGED curSeq
    BY <1>2, <1>a, <2>2 DEF LoadSequence, coreVars, tickVars
  <2> QED BY <1>2, <2>1, <2>2 DEF LoadSequence
<1>3. CASE TickLoad
  <2>1. /\ tickSeq' = [a \in {b \in addys : exists[b]} |-> ledgerSeq[a]]
        /\ UNCHANGED <<ledgerSeq, curSeq>>
    BY <1>3 DEF TickLoad, coreVars, requestVars
  <2>2. addys \subseteq Accounts
    BY DEF TypeInv, TypeOK
  <2>3. /\ tickSeq' = [a \in DOMAIN tickSeq' |-> tickSeq'[a]]
        /\ \A a \in DOMAIN tickSeq' : tickSeq'[a] <= MaxSequence
    BY <2>1, <2>2 DEF Bounded
  <2> QED BY <2>1, <2>3 DEF Bounded
<1>4. CASE TickUpdate
  <2>1. /\ tickSeq' = <<>> /\ tick' = "pending"
        /\ UNCHANGED <<ledgerSeq, curSeq>>
    BY <1>4 DEF TickUpdate, coreVars, requestVars
  <2>2. DOMAIN <<>> = {}
    OBVIOUS
  <2> QED BY <2>1, <2>2 DEF Bounded
<1>5. ASSUME NEW t \in Txs, LedgerCloses(t)
      PROVE  Bounded'
  <2>1. /\ SeqNum[t] = ledgerSeq[Source[t]] + 1
        /\ ledgerSeq' = [ledgerSeq EXCEPT ![Source[t]] = ledgerSeq[Source[t]] + 1]
        /\ UNCHANGED <<curSeq, tickSeq, tick>>
    BY <1>5 DEF LedgerCloses, C!Apply, requestVars, tickVars
  <2>2. Source[t] \in Accounts /\ SeqNum[t] <= MaxSequence
    BY <1>0, TxSubAssumption
  <2> QED BY <2>1, <2>2 DEF Bounded, TypeInv, TypeOK
<1>6. ASSUME NEW s \in Requests,
             \/ Arrive(s) \/ ArriveMalformed(s) \/ Cancel(s) \/ Lookup(s)
             \/ PushSubmission(s) \/ Proceed(s) \/ GiveUp(s)
             \/ SubmitAccepted(s) \/ SubmitBadSeq(s) \/ SubmitRejected(s)
             \/ SubmitUnknown(s) \/ Recheck(s) \/ AddPending(s) \/ ReleaseNext(s)
      PROVE  Bounded'
  BY <1>6, <1>a DEF Arrive, ArriveMalformed, Cancel, Lookup, PushSubmission,
       Proceed, GiveUp, SubmitAccepted, SubmitBadSeq, SubmitRejected,
       SubmitUnknown, Recheck, AddPending, ReleaseNext, coreVars, tickVars,
       C!Take
<1>7. ASSUME \/ TickStart \/ TickPending \/ TickClean \/ TickLoadFails
             \/ \E t \in Txs : TickResolve(t)
      PROVE  Bounded'
  BY <1>7, <1>a DEF TickStart, TickPending, TickClean, TickLoadFails,
       TickResolve, coreVars, requestVars
<1>8. ASSUME \/ \E a \in Accounts : QueueExpires(a) \/ AccountMerges(a)
             \/ \E t \in Txs : SubmissionAges(t) \/ NodeDrops(t) \/ Gossip(t)
             \/ UNCHANGED vars
      PROVE  Bounded'
  BY <1>8, <1>a DEF QueueExpires, AccountMerges, SubmissionAges, NodeDrops,
       Gossip, C!Merge, C!Drop, C!Take, coreVars, requestVars, tickVars, vars
<1> QED BY <1>1, <1>2, <1>3, <1>4, <1>5, <1>6, <1>7, <1>8
        DEF Next, Submit, Tick

LEMMA BoundedHolds == Spec => []Bounded
<1>1. Init => Bounded
  <2> SUFFICES ASSUME Init PROVE Bounded
    OBVIOUS
  <2>1. /\ tickSeq = <<>> /\ tick = "idle"
        /\ \A a \in Accounts : ledgerSeq[a] = 0
        /\ \A s \in Requests : curSeq[s] = 0
    BY DEF Init, C!Init
  <2>2. DOMAIN <<>> = {}
    OBVIOUS
  <2> QED BY <2>1, <2>2, TxSubAssumption DEF Bounded
<1>2. TypeInv /\ Bounded /\ [Next]_vars => Bounded'
  BY StepIsBounded
<1> QED BY <1>1, <1>2, TypeInvHolds, PTL DEF Spec

LEMMA UpdateIsTheManagers ==
  ASSUME NEW u, DOMAIN u \subseteq Accounts, u = [a \in DOMAIN u |-> u[a]],
         \A a \in DOMAIN u : u[a] \in Nat /\ u[a] <= MaxSequence,
         Q!Update(u)
  PROVE  Q!Next
<1>1. \A a \in DOMAIN u : u[a] \in Q!Sequences
  BY TxSubAssumption DEF Q!Sequences
<1>2. u \in [DOMAIN u -> Q!Sequences]
  BY <1>1
<1>3. u \in Q!Updates
  BY <1>2 DEF Q!Updates
<1> QED BY <1>3 DEF Q!Next

LEMMA StepUsesManager ==
  ASSUME TypeInv, WaitInv, Bounded, [Next]_vars
  PROVE  [Q!Next]_(Q!vars)
<1>0. UNCHANGED queueVars => UNCHANGED Q!vars
  BY DEF queueVars, Q!vars
<1>1. ASSUME NEW s \in Requests, PushSubmission(s)
      PROVE  Q!Next
  <2>1. /\ pc[s] = "push" /\ Account(s) \in Accounts
        /\ SeqNum[tx[s]] \in Q!Sequences
        /\ Q!Push(s, Account(s), SeqNum[tx[s]])
    BY <1>1, TxSubAssumption
       DEF PushSubmission, Account, TypeInv, HasTx, Q!Sequences
  <2>2. signal[s] = "empty" /\ \A a \in Accounts : \A i \in queues[a].items : i.chan # s
    BY <2>1 DEF WaitInv, Fresh, BeforePush
  <2>3. Q!Unused(s)
    BY <2>2 DEF Q!Unused, Q!Buffered
  <2> QED BY <2>1, <2>3 DEF Q!Next
<1>2. ASSUME NEW s \in Requests, NEW n \in Nat, n <= MaxSequence,
             Account(s) \in Accounts, Q!Update([a \in {Account(s)} |-> n])
      PROVE  Q!Next
  <2> DEFINE u == [a \in {Account(s)} |-> n]
  <2>1. /\ DOMAIN u \subseteq Accounts /\ u = [a \in DOMAIN u |-> u[a]]
        /\ \A a \in DOMAIN u : u[a] \in Nat /\ u[a] <= MaxSequence
        /\ Q!Update(u)
    BY <1>2
  <2> HIDE DEF u
  <2> QED BY <2>1, UpdateIsTheManagers
<1>3. ASSUME NEW s \in Requests, UpdateQueue(s)
      PROVE  Q!Next
  <2>1. /\ Q!Update([a \in {Account(s)} |-> curSeq[s]])
        /\ Account(s) \in Accounts
        /\ curSeq[s] \in Nat /\ curSeq[s] <= MaxSequence
    BY <1>3, TxSubAssumption
       DEF UpdateQueue, Account, TypeInv, TypeOK, HasTx, Bounded
  <2> QED BY <1>2, <2>1
<1>4. ASSUME NEW s \in Requests, ReleaseNext(s)
      PROVE  Q!Next
  <2>1. /\ Q!Update([a \in {Account(s)} |-> SeqNum[tx[s]]])
        /\ Account(s) \in Accounts
        /\ SeqNum[tx[s]] \in Nat /\ SeqNum[tx[s]] <= MaxSequence
    BY <1>4, TxSubAssumption DEF ReleaseNext, Account, TypeInv, HasTx
  <2> QED BY <1>2, <2>1
<1>5. ASSUME TickUpdate
      PROVE  Q!Next
  BY <1>5, UpdateIsTheManagers DEF TickUpdate, TypeInv, TypeOK, Bounded
<1>6. ASSUME NEW a \in Accounts, QueueExpires(a)
      PROVE  Q!Next
  BY <1>6 DEF QueueExpires, Q!Next
<1>7. ASSUME NEW s \in Requests,
             \/ Arrive(s) \/ ArriveMalformed(s) \/ Cancel(s) \/ Lookup(s)
             \/ LoadSequence(s) \/ Proceed(s) \/ GiveUp(s)
             \/ SubmitAccepted(s) \/ SubmitBadSeq(s) \/ SubmitRejected(s)
             \/ SubmitUnknown(s) \/ Recheck(s) \/ AddPending(s)
      PROVE  UNCHANGED queueVars
  BY <1>7 DEF Arrive, ArriveMalformed, Cancel, Lookup, LoadSequence, Proceed,
       GiveUp, SubmitAccepted, SubmitBadSeq, SubmitRejected, SubmitUnknown,
       Recheck, AddPending
<1>8. ASSUME \/ TickStart \/ TickLoad \/ TickPending \/ TickClean
             \/ TickLoadFails \/ \E t \in Txs : TickResolve(t)
      PROVE  UNCHANGED queueVars
  BY <1>8 DEF TickStart, TickLoad, TickPending, TickClean, TickLoadFails,
       TickResolve
<1>9. ASSUME \/ \E a \in Accounts : AccountMerges(a)
             \/ \E t \in Txs : SubmissionAges(t) \/ LedgerCloses(t)
                               \/ NodeDrops(t) \/ Gossip(t)
             \/ UNCHANGED vars
      PROVE  UNCHANGED queueVars
  BY <1>9 DEF AccountMerges, SubmissionAges, LedgerCloses, NodeDrops, Gossip,
       vars
<1> QED BY <1>0, <1>1, <1>3, <1>4, <1>5, <1>6, <1>7, <1>8, <1>9
        DEF Next, Submit, Tick

(* The submission system pushes each channel once and reports only numbers *)
(* of the manager's range: every one of its steps is a step of the         *)
(* sequence manager or leaves it alone, so that what is proved of the      *)
(* manager alone holds inside the system.                                  *)
THEOREM ManagerIsUsedAsMeant == Spec => ManagerSpec
<1>1. Init => Q!Init
  BY DEF Init
<1>2. TypeInv /\ WaitInv /\ Bounded /\ [Next]_vars => [Q!Next]_(Q!vars)
  BY StepUsesManager
<1> QED BY <1>1, <1>2, TypeInvHolds, WaitInvHolds, BoundedHolds, PTL
        DEF Spec, ManagerSpec, Q!Spec
=============================================================================
