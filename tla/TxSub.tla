------------------------------- MODULE TxSub -------------------------------
(***************************************************************************)
(* Horizon's transaction submission system (txsub.System): one goroutine   *)
(* per HTTP request runs Submit, the application's ticker runs Tick once a *)
(* second, and both share the sequence manager, the open submission list   *)
(* and the databases written by dfc-core.                                  *)
(*                                                                         *)
(* Between two calls that lock a mutex, read a database or reach the node, *)
(* a goroutine touches only its own variables; a step of a request is one  *)
(* such call with the local code up to the next one.                       *)
(***************************************************************************)
EXTENDS Naturals, Sequences, FiniteSets

CONSTANTS
  Requests,     \* POST /transactions requests; also their channels
  Accounts,
  Txs,
  Source,       \* Txs -> Accounts
  SeqNum,       \* Txs -> sequence number
  MaxSize,      \* Manager.MaxSize
  MaxSequence,  \* bound of the model: largest sequence number
  Faults        \* what the environment may do, a subset of FaultKinds

FaultKinds == {
  "db",         \* a database read fails
  "transport",  \* the node is unreachable or its answer is lost
  "reject",     \* the node refuses a transaction for its contents
  "drop",       \* the node drops a transaction it had taken
  "gossip",     \* a transaction reaches the node by another way
  "merge",      \* an account is merged away
  "cancel"}     \* a request's context ends: client gone, or its deadline

ASSUME TxSubAssumption ==
  /\ Source \in [Txs -> Accounts]
  /\ SeqNum \in [Txs -> 1 .. MaxSequence]
  /\ MaxSize \in Nat /\ MaxSequence \in Nat
  /\ Faults \subseteq FaultKinds

VARIABLES
  queues, signal,                        \* the sequence manager
  submissions, old, response,            \* the open submission list
  exists, ledgerSeq, mempool, result,    \* dfc-core and its database
  pc,           \* where each request is in Submit
  tx,           \* its transaction
  curSeq,       \* its local curSeq, what line 91 read
  accepted,     \* history: transactions the node has answered nil for
  tick,         \* where Tick is, "idle" when tickInProgress is false
  addys,        \* Tick's local addys
  tickSeq,      \* Tick's local curSeq, a map
  hashes        \* what is left of Tick's loop over Pending

Q == INSTANCE SequenceManager WITH Channels <- Requests
O == INSTANCE OpenSubmissionList WITH Hashes <- Txs, Listeners <- Requests
C == INSTANCE DfcCore

queueVars == <<queues, signal>>
openVars == <<submissions, old, response>>
coreVars == <<exists, ledgerSeq, mempool, result>>
requestVars == <<pc, tx, curSeq, accepted>>
tickVars == <<tick, addys, tickSeq, hashes>>
vars == <<queueVars, openVars, coreVars, requestVars, tickVars>>

Places == {"idle", "lookup", "load", "push", "update", "wait", "submit",
           "recheck", "add", "release", "open", "done"}

TickPlaces == {"idle", "load", "update", "pending", "resolve"}

NoTx == "no transaction"

Init ==
  /\ Q!Init
  /\ O!Init
  /\ C!Init
  /\ pc = [s \in Requests |-> "idle"]
  /\ tx = [s \in Requests |-> NoTx]
  /\ curSeq = [s \in Requests |-> 0]
  /\ accepted = {}
  /\ tick = "idle"
  /\ addys = {}
  /\ tickSeq = <<>>
  /\ hashes = {}

Account(s) == Source[tx[s]]

Goto(s, place) == pc' = [pc EXCEPT ![s] = place]

(* System.finish: the result is sent on the request's own channel, which   *)
(* is closed; Submit returns.                                              *)
Reply(s, r) ==
  /\ O!Send({s}, r)
  /\ UNCHANGED <<submissions, old>>
  /\ Goto(s, "done")

-----------------------------------------------------------------------------
(* Submit, up to the queue.                                                *)

(* A request arrives; extractEnvelopeInfo gives hash, source and sequence. *)
Arrive(s) ==
  /\ pc[s] = "idle"
  /\ \E t \in Txs : tx' = [tx EXCEPT ![s] = t]
  /\ Goto(s, "lookup")
  /\ UNCHANGED <<queueVars, openVars, coreVars, curSeq, accepted, tickVars>>

ArriveMalformed(s) ==
  /\ pc[s] = "idle"
  /\ Reply(s, "malformed")
  /\ UNCHANGED <<queueVars, coreVars, tx, curSeq, accepted, tickVars>>

(* The first ResultByHash.  Both databases are written by core's ledger    *)
(* closing; a result is found or there is none, or the read fails.         *)
Lookup(s) ==
  /\ pc[s] = "lookup"
  /\ \/ "db" \in Faults /\ Reply(s, "error")
     \/ result[tx[s]] # "none" /\ Reply(s, result[tx[s]])
     \/ /\ result[tx[s]] = "none"
        /\ Goto(s, "load")
        /\ UNCHANGED openVars
  /\ UNCHANGED <<queueVars, coreVars, tx, curSeq, accepted, tickVars>>

(* Sequences.Get for the source account, BEFORE the push.                  *)
LoadSequence(s) ==
  /\ pc[s] = "load"
  /\ \/ "db" \in Faults /\ Reply(s, "error") /\ UNCHANGED curSeq
     \/ ~exists[Account(s)] /\ Reply(s, "noAccount") /\ UNCHANGED curSeq
     \/ /\ exists[Account(s)]
        /\ curSeq' = [curSeq EXCEPT ![s] = ledgerSeq[Account(s)]]
        /\ Goto(s, "push")
        /\ UNCHANGED openVars
  /\ UNCHANGED <<queueVars, coreVars, tx, accepted, tickVars>>

\* Pushing the same channel again as long as there is no room.
PushRetries(s) ==
  /\ pc[s] = "push"
  /\ Q!Push(s, Account(s), SeqNum[tx[s]])
  /\ Goto(s, IF Q!HasRoom THEN "update" ELSE "push")
  /\ UNCHANGED <<openVars, coreVars, tx, curSeq, accepted, tickVars>>

PushSubmission(s) ==
  /\ pc[s] = "push"
  /\ Q!Push(s, Account(s), SeqNum[tx[s]])
  /\ Goto(s, "update")
  /\ UNCHANGED <<openVars, coreVars, tx, curSeq, accepted, tickVars>>

\* Waiting without the update that releases one's own item.
UpdateQueueForgotten(s) ==
  /\ pc[s] = "update"
  /\ Goto(s, "wait")
  /\ curSeq' = [curSeq EXCEPT ![s] = 0]
  /\ UNCHANGED <<queueVars, openVars, coreVars, tx, accepted, tickVars>>

UpdateQueue(s) ==
  /\ pc[s] = "update"
  /\ Q!Update([a \in {Account(s)} |-> curSeq[s]])
  /\ Goto(s, "wait")
  /\ curSeq' = [curSeq EXCEPT ![s] = 0]
  /\ UNCHANGED <<openVars, coreVars, tx, accepted, tickVars>>

-----------------------------------------------------------------------------
(* The select between the queue's verdict and the end of the context.      *)

Proceed(s) ==
  /\ pc[s] = "wait"
  /\ signal[s] = "nil"
  /\ Goto(s, "submit")
  /\ UNCHANGED <<queueVars, openVars, coreVars, tx, curSeq, accepted, tickVars>>

GiveUp(s) ==
  /\ pc[s] = "wait"
  /\ signal[s] \in {"badSequence", "noMoreRoom"}
  /\ Reply(s, signal[s])
  /\ UNCHANGED <<queueVars, coreVars, tx, curSeq, accepted, tickVars>>

\* The item stays in its queue: nothing takes it out.
Cancel(s) ==
  /\ "cancel" \in Faults
  /\ pc[s] = "wait"
  /\ Reply(s, "canceled")
  /\ UNCHANGED <<queueVars, coreVars, tx, curSeq, accepted, tickVars>>

-----------------------------------------------------------------------------
(* submitOnce: the transaction is posted to the node, which answers.       *)

\* PENDING or DUPLICATE: the Submitter returns a nil error.
SubmitAccepted(s) ==
  /\ pc[s] = "submit"
  /\ \/ tx[s] \in mempool /\ UNCHANGED coreVars
     \/ tx[s] \notin mempool /\ C!Take(tx[s])
  /\ accepted' = accepted \cup {tx[s]}
  /\ Goto(s, "add")
  /\ UNCHANGED <<queueVars, openVars, tx, curSeq, tickVars>>

\* ERROR with tx_bad_seq.
SubmitBadSeq(s) ==
  /\ pc[s] = "submit"
  /\ tx[s] \notin mempool
  /\ exists[Account(s)]
  /\ ~C!Follows(tx[s])
  /\ Goto(s, "recheck")
  /\ UNCHANGED <<queueVars, openVars, coreVars, tx, curSeq, accepted, tickVars>>

\* A rejected submission that lets the next one go ahead.
SubmitRejectedReleases(s) ==
  /\ pc[s] = "submit"
  /\ tx[s] \notin mempool
  /\ "reject" \in Faults \/ ~exists[Account(s)]
  /\ Reply(s, "rejected")
  /\ Q!Update([a \in {Account(s)} |-> SeqNum[tx[s]]])
  /\ UNCHANGED <<coreVars, tx, curSeq, accepted, tickVars>>

\* ERROR with another result code: the contents, or a missing account.
SubmitRejected(s) ==
  /\ pc[s] = "submit"
  /\ tx[s] \notin mempool
  /\ "reject" \in Faults \/ ~exists[Account(s)]
  /\ Reply(s, "rejected")
  /\ UNCHANGED <<queueVars, coreVars, tx, curSeq, accepted, tickVars>>

\* An HTTP or decoding error, an exception, an unknown status: whether the
\* node has taken the transaction is not known to Horizon.
SubmitUnknown(s) ==
  /\ "transport" \in Faults
  /\ pc[s] = "submit"
  /\ C!Take(tx[s]) \/ UNCHANGED coreVars
  /\ Reply(s, "error")
  /\ UNCHANGED <<queueVars, tx, curSeq, accepted, tickVars>>

\* A second look that takes any result for a success.
RecheckTakesFailure(s) ==
  /\ pc[s] = "recheck"
  /\ \/ result[tx[s]] # "none" /\ Reply(s, "success")
     \/ /\ result[tx[s]] # "success" \/ "db" \in Faults
        /\ Reply(s, "badSequence")
  /\ UNCHANGED <<queueVars, coreVars, tx, curSeq, accepted, tickVars>>

(* The second ResultByHash, after tx_bad_seq: only a successful result is  *)
(* used, anything else leaves the node's answer.                           *)
Recheck(s) ==
  /\ pc[s] = "recheck"
  /\ \/ result[tx[s]] = "success" /\ Reply(s, "success")
     \/ /\ result[tx[s]] # "success" \/ "db" \in Faults
        /\ Reply(s, "badSequence")
  /\ UNCHANGED <<queueVars, coreVars, tx, curSeq, accepted, tickVars>>

AddPending(s) ==
  /\ pc[s] = "add"
  /\ O!Add(tx[s], s)
  /\ Goto(s, "release")
  /\ UNCHANGED <<queueVars, coreVars, tx, curSeq, accepted, tickVars>>

\* The next submission of the account may go ahead; Submit returns, and the
\* response is left to Tick.
ReleaseNext(s) ==
  /\ pc[s] = "release"
  /\ Q!Update([a \in {Account(s)} |-> SeqNum[tx[s]]])
  /\ Goto(s, "open")
  /\ UNCHANGED <<openVars, coreVars, tx, curSeq, accepted, tickVars>>

-----------------------------------------------------------------------------
(* Tick.  tickInProgress is set in every place but "idle".                 *)

TickStart ==
  /\ tick = "idle"
  /\ addys' = Q!Addresses
  /\ tick' = IF Q!Addresses = {} THEN "pending" ELSE "load"
  /\ UNCHANGED <<queueVars, openVars, coreVars, requestVars, tickSeq, hashes>>

(* One SQL query; an account without a row is not in the map.              *)
TickLoad ==
  /\ tick = "load"
  /\ tickSeq' = [a \in {b \in addys : exists[b]} |-> ledgerSeq[a]]
  /\ addys' = {}
  /\ tick' = "update"
  /\ UNCHANGED <<queueVars, openVars, coreVars, requestVars, hashes>>

(* When the query fails Tick returns at once.                              *)
TickLoadFails ==
  /\ "db" \in Faults
  /\ tick = "load"
  /\ addys' = {}
  /\ tick' = "idle"
  /\ UNCHANGED <<queueVars, openVars, coreVars, requestVars, tickSeq, hashes>>

TickUpdate ==
  /\ tick = "update"
  /\ Q!Update(tickSeq)
  /\ tickSeq' = <<>>
  /\ tick' = "pending"
  /\ UNCHANGED <<openVars, coreVars, requestVars, addys, hashes>>

TickPending ==
  /\ tick = "pending"
  /\ hashes' = O!Pending
  /\ tick' = "resolve"
  /\ UNCHANGED <<queueVars, openVars, coreVars, requestVars, addys, tickSeq>>

(* One round of the loop: a result ends the submission, no result or a     *)
(* failed read leaves it open.                                             *)
TickResolve(t) ==
  /\ tick = "resolve"
  /\ t \in hashes
  /\ hashes' = hashes \ {t}
  /\ \/ result[t] # "none" /\ O!Finish(t, result[t])
     \/ /\ result[t] = "none" \/ "db" \in Faults
        /\ UNCHANGED openVars
  /\ UNCHANGED <<queueVars, coreVars, requestVars, tick, addys, tickSeq>>

TickClean ==
  /\ tick = "resolve"
  /\ hashes = {}
  /\ O!Clean
  /\ tick' = "idle"
  /\ UNCHANGED <<queueVars, coreVars, requestVars, addys, tickSeq, hashes>>

-----------------------------------------------------------------------------
(* The environment: clocks and the network.                                *)

QueueExpires(a) ==
  /\ Q!Expire(a)
  /\ UNCHANGED <<openVars, coreVars, requestVars, tickVars>>

SubmissionAges(t) ==
  /\ O!Age(t)
  /\ UNCHANGED <<queueVars, coreVars, requestVars, tickVars>>

LedgerCloses(t) ==
  /\ \E r \in O!Results : C!Apply(t, r)
  /\ UNCHANGED <<queueVars, openVars, requestVars, tickVars>>

NodeDrops(t) ==
  /\ "drop" \in Faults
  /\ C!Drop(t)
  /\ UNCHANGED <<queueVars, openVars, requestVars, tickVars>>

Gossip(t) ==
  /\ "gossip" \in Faults
  /\ C!Take(t)
  /\ UNCHANGED <<queueVars, openVars, requestVars, tickVars>>

AccountMerges(a) ==
  /\ "merge" \in Faults
  /\ C!Merge(a)
  /\ UNCHANGED <<queueVars, openVars, requestVars, tickVars>>

Submit(s) ==
  \/ Lookup(s) \/ LoadSequence(s) \/ PushSubmission(s) \/ UpdateQueue(s)
  \/ Proceed(s) \/ GiveUp(s)
  \/ SubmitAccepted(s) \/ SubmitBadSeq(s) \/ SubmitRejected(s)
  \/ SubmitUnknown(s) \/ Recheck(s) \/ AddPending(s) \/ ReleaseNext(s)

Tick ==
  \/ TickStart \/ TickLoad \/ TickUpdate \/ TickPending
  \/ \E t \in Txs : TickResolve(t)
  \/ TickClean

Next ==
  \/ \E s \in Requests :
       Arrive(s) \/ ArriveMalformed(s) \/ Submit(s) \/ Cancel(s)
  \/ Tick
  \/ TickLoadFails
  \/ \E a \in Accounts : QueueExpires(a) \/ AccountMerges(a)
  \/ \E t \in Txs :
       SubmissionAges(t) \/ LedgerCloses(t) \/ NodeDrops(t) \/ Gossip(t)

Spec == Init /\ [][Next]_vars

(* A request's goroutine runs, its context ends at the latest at the       *)
(* connection timeout (chimiddleware.Timeout), time passes, the ticker     *)
(* keeps ticking, and a database that fails does not fail for ever.        *)
Fairness ==
  /\ \A s \in Requests : WF_vars(Submit(s)) /\ WF_vars(Cancel(s))
  /\ WF_vars(Tick)
  /\ SF_vars(TickLoad)
  /\ \A a \in Accounts : WF_vars(QueueExpires(a))
  /\ \A t \in Txs : WF_vars(SubmissionAges(t))

FairSpec == Spec /\ Fairness

-----------------------------------------------------------------------------
(* Type correctness of the whole system.                                   *)
TypeOK ==
  /\ Q!TypeOK
  /\ submissions \in [Txs -> SUBSET Requests]
  /\ old \in [Txs -> BOOLEAN]
  /\ response \in [Requests -> Seq(O!Answers)]
  /\ exists \in [Accounts -> BOOLEAN]
  /\ ledgerSeq \in [Accounts -> Nat]
  /\ mempool \subseteq Txs
  /\ result \in [Txs -> O!Results \cup {"none"}]
  /\ pc \in [Requests -> Places]
  /\ tx \in [Requests -> Txs \cup {NoTx}]
  /\ curSeq \in [Requests -> Nat]
  /\ accepted \subseteq Txs
  /\ tick \in TickPlaces
  /\ addys \subseteq Accounts
  /\ DOMAIN tickSeq \subseteq Accounts
  /\ \A a \in DOMAIN tickSeq : tickSeq[a] \in Nat
  /\ hashes \subseteq Txs

(* Every request is answered at most once: nothing is ever sent on a       *)
(* response channel that has been closed (System.finish, Finish and Clean  *)
(* each send and close, from different goroutines).                        *)
AnsweredOnce == \A s \in Requests : Len(response[s]) <= 1

(* No response channel is orphaned.  A request in Submit has no answer and *)
(* is in no list; one whose submission has been taken by the node is       *)
(* either still a listener of its transaction, and then unanswered, or has *)
(* been answered by Tick (Pending.Add, Finish and Clean).                  *)
NoOrphan ==
  \A s \in Requests :
    /\ pc[s] = "done" => response[s] # <<>>
    /\ pc[s] \in {"release", "open"}
         => (response[s] = <<>> <=> s \in submissions[tx[s]])
    /\ pc[s] \notin {"release", "open", "done"}
         => response[s] = <<>> /\ \A t \in Txs : s \notin submissions[t]

(* The predecessor of sequence number n of account a is known: it has been *)
(* applied, or the node has answered nil for it.                           *)
Known(a, n) ==
  \/ n <= ledgerSeq[a]
  \/ \E t \in accepted : Source[t] = a /\ SeqNum[t] = n

(* A transaction is posted to the node only after its predecessor was      *)
(* applied or accepted, whatever the interleaving of requests and ticks    *)
(* and however stale the sequence numbers they read ("will be written to   *)
(* when the requester should attempt the submission", Manager.Push).       *)
InOrder ==
  \A s \in Requests : pc[s] = "submit" => Known(Account(s), SeqNum[tx[s]] - 1)

(* No wakeup is lost.  A request that waits for a verdict has a verdict in *)
(* its channel or an item in its account's queue; that queue has been told *)
(* a sequence number since, and the item is above the next number it would *)
(* release: whatever could be released has been (Push and Update are two   *)
(* steps of Submit; Queue.Update pops until the head is too high).         *)
NoLostWakeup ==
  \A s \in Requests : pc[s] = "wait" /\ signal[s] = "empty" =>
    \E i \in queues[Account(s)].items :
      /\ i.chan = s /\ i.seq = SeqNum[tx[s]]
      /\ queues[Account(s)].next \in 1 .. i.seq - 1

(* An answer that gives a transaction's result is the ledger's.            *)
HonestResult ==
  \A s \in Requests : \A i \in DOMAIN response[s] :
    response[s][i] \in O!Results => response[s][i] = result[tx[s]]

-----------------------------------------------------------------------------
(* The promise: SubmissionService, under this refinement mapping.          *)

PhaseOf(s) ==
  IF response[s] # <<>> THEN "answered"
  ELSE IF pc[s] = "idle" THEN "new"
  ELSE IF pc[s] \in {"lookup", "load", "push", "update", "wait"} THEN "queued"
  ELSE "cleared"

phaseBar == [s \in Requests |-> PhaseOf(s)]

knownBar == [a \in Accounts |-> {n \in 0 .. MaxSequence : Known(a, n)}]

S == INSTANCE SubmissionService WITH
       phase <- phaseBar, answer <- response, known <- knownBar

(* The system with its queues, open list and ticks keeps the promise of    *)
(* SubmissionService: one standing answer for each request, posting in     *)
(* sequence order, results only for what the ledger has used up.           *)
ServiceSpec == S!Spec

(* The system uses the sequence manager as its interface allows, so what   *)
(* is proved of SequenceManager alone holds in it.                         *)
ManagerSpec == Q!Spec

-----------------------------------------------------------------------------
(* "tx_bad_seq" is not a guess about a transaction in flight: a request is *)
(* never told that its transaction has failed while the node holds that    *)
(* transaction (doc.go: Submit is "waiting to respond to submitters when   *)
(* no definitive state is known").                                         *)
NoFailureInFlight ==
  [][\A s \in Requests :
       (response[s] = <<>> /\ response'[s] = <<"badSequence">>)
         => tx[s] \notin mempool]_vars

(* Every request is answered.                                              *)
EveryRequestIsAnswered ==
  \A s \in Requests : (pc[s] = "lookup") ~> (response[s] # <<>>)

(* Every item leaves its queue: the room it takes is given back            *)
(* (Queue.Update: "if the queue wasn't changed, see if it is too old,      *)
(* clear it and make room for other's").                                   *)
RoomIsGivenBack ==
  \A s \in Requests : (\E i \in Q!Buffered : i.chan = s)
                        ~> ~(\E i \in Q!Buffered : i.chan = s)
=============================================================================
