------------------------------ MODULE Bifrost ------------------------------
(***************************************************************************)
(* Bifrost turns deposits on a chain (bitcoin or ethereum) into tokens.    *)
(* Several instances share one database: in each a listener walks the      *)
(* chain's blocks, a rail records every deposit and queues it, a poller    *)
(* takes deposits off the queue, and one goroutine per deposit configures  *)
(* the user's account through Horizon.                                     *)
(*                                                                         *)
(* A step is one call to the database or to Horizon.                       *)
(***************************************************************************)
EXTENDS Naturals, Sequences, FiniteSets, SequencesExt

CONSTANTS
  Instances,   \* Bifrost servers, each with a signer account of its own
  Serving,     \* those of them that answer requests for an address
  Deposits,    \* transactions to associated addresses, large enough
  Accounts,    \* public keys of the users
  Block,       \* deposit -> the block that holds it
  Associations,\* the functions deposit -> account to consider
  MaxBlock,    \* bound of the model: the last block mined
  MaxFaults    \* bound of the model: crashes and failed calls

ASSUME BifrostAssumption ==
  /\ MaxBlock \in Nat \ {0} /\ MaxFaults \in Nat
  /\ Serving \subseteq Instances
  /\ Block \in [Deposits -> 1 .. MaxBlock]
  /\ Associations \subseteq [Deposits -> Accounts]

VARIABLES
  height,      \* the chain's latest block
  dest,        \* deposit -> account, by the address association
  lastBlock,   \* the last processed block saved, 0 if none
  base,        \* history: where an instance last began with no saved block
  processed,   \* table processed_transaction
  queue,       \* transactions_queue: the rows not pooled, by id
  pooled,      \* and those that are
  events,      \* broadcasted_event: account and event are unique
  up,          \* instances that run
  listener,    \* instance -> its processBlocks
  signerNo,    \* instance -> AccountConfigurator.signerSequence
  signerSeq,   \* the sequence number of its signer account on the ledger
  job,         \* deposit -> its ConfigureAccount
  account,     \* the state of each user's account on the ledger
  signer,      \* and the instance whose signer the user put on it
  accountSeq,  \* and its sequence number
  sent,        \* history: deposit -> how often its tokens were sent
  faults       \* how many there have been

chainVars == <<height, dest>>
storeVars == <<lastBlock, base, processed, queue, pooled>>
ledgerVars == <<signerSeq, account, signer, accountSeq, sent>>
vars == <<chainVars, storeVars, events, up, listener, signerNo, job,
          ledgerVars, faults>>

Off == [at |-> "off", block |-> 0, todo |-> {}, deposit |-> {}]
NoJob == [at |-> "none", by |-> "nobody", seq |-> 0]
Ended == {"none", "done", "failed", "lost"}

Init ==
  /\ height = 1
  /\ dest \in Associations
  /\ lastBlock = 0 /\ base = 0
  /\ processed = {} /\ queue = <<>> /\ pooled = {}
  /\ events = {}
  /\ up = {}
  /\ listener = [i \in Instances |-> Off]
  /\ signerNo = [i \in Instances |-> 0]
  /\ signerSeq = [i \in Instances |-> 0]
  /\ job = [d \in Deposits |-> NoJob]
  /\ account = [a \in Accounts |-> "absent"]
  /\ signer = [a \in Accounts |-> "nobody"]
  /\ accountSeq = [a \in Accounts |-> 0]
  /\ sent = [d \in Deposits |-> 0]
  /\ faults = 0

Fault == faults < MaxFaults /\ faults' = faults + 1

AddEvent(a, e) == events' = events \cup {<<a, e>>}

(* BroadcastEvent logs a failed insert and goes on.                        *)
BroadcastEvent(a, e) == \/ AddEvent(a, e) /\ UNCHANGED faults
                        \/ Fault /\ UNCHANGED events

-----------------------------------------------------------------------------
(* The chain, the users and the operators.                                 *)

MineBlock ==
  /\ height < MaxBlock
  /\ height' = height + 1
  /\ UNCHANGED <<dest, storeVars, events, up, listener, signerNo, job,
                 ledgerVars, faults>>

(* The user makes the temporary signer the only one on the account: that   *)
(* of the instance which answered his request for an address, whichever    *)
(* takes the deposit.                                                      *)
AddSigner(a) ==
  /\ account[a] = "created"
  /\ account' = [account EXCEPT ![a] = "temporary"]
  /\ \E i \in Serving : signer' = [signer EXCEPT ![a] = i]
  /\ accountSeq' = [accountSeq EXCEPT ![a] = @ + 1]
  /\ UNCHANGED <<chainVars, storeVars, events, up, listener, signerNo, job,
                 signerSeq, sent, faults>>

\* Listener.Start: the block after the saved one, or the latest block.
BlockToProcess == IF lastBlock > 0 THEN lastBlock + 1 ELSE height

(* Server.Start: the listener's block, and the signer's sequence number.   *)
(* Until a block has been saved, each instance begins at its own latest.   *)
StartInstance(i) ==
  /\ i \notin up
  /\ up' = up \cup {i}
  /\ base' = IF lastBlock = 0 THEN height ELSE base
  /\ listener' = [listener EXCEPT ![i] = [Off EXCEPT !.at = "block",
                                                     !.block = BlockToProcess]]
  /\ signerNo' = [signerNo EXCEPT ![i] = signerSeq[i]]
  /\ UNCHANGED <<chainVars, lastBlock, processed, queue, pooled, events, job,
                 ledgerVars, faults>>

(* An instance stops: what it held in memory is lost, its goroutines too.  *)
Crash(i) ==
  /\ i \in up
  /\ Fault
  /\ up' = up \ {i}
  /\ listener' = [listener EXCEPT ![i] = Off]
  /\ job' = [d \in Deposits |->
       IF job[d].by = i /\ job[d].at \notin Ended
       THEN [job[d] EXCEPT !.at = "lost"] ELSE job[d]]
  /\ UNCHANGED <<chainVars, storeVars, events, signerNo, ledgerVars>>

-----------------------------------------------------------------------------
(* Listener.processBlocks and the rail.                                    *)

ToListener(i, place) == listener' = [listener EXCEPT ![i].at = place]

(* A block that does not exist yet is asked for again.                     *)
GetBlock(i) ==
  /\ listener[i].at = "block"
  /\ listener[i].block <= height
  /\ listener' = [listener EXCEPT ![i].at = "rail",
       ![i].todo = {d \in Deposits : Block[d] = listener[i].block}]
  /\ UNCHANGED <<chainVars, storeVars, events, up, signerNo, job, ledgerVars,
                 faults>>

(* AddProcessedTransaction: a duplicate is skipped; an error makes         *)
(* processBlocks take the same block again.                                *)
AddProcessed(i) ==
  /\ listener[i].at = "rail"
  /\ \E d \in listener[i].todo :
     \/ /\ d \in processed
        /\ listener' = [listener EXCEPT ![i].todo = @ \ {d}]
        /\ UNCHANGED <<processed, faults>>
     \/ /\ d \notin processed
        /\ processed' = processed \cup {d}
        /\ listener' = [listener EXCEPT ![i].at = "queue", ![i].deposit = {d}]
        /\ UNCHANGED faults
     \/ Fault /\ ToListener(i, "block") /\ UNCHANGED processed
  /\ UNCHANGED <<chainVars, lastBlock, base, queue, pooled, events, up,
                 signerNo, job, ledgerVars>>

Queued == ToSet(queue) \cup pooled

\* Insert; the row is unique, pooled ones included.
Enqueue(d) == queue' = IF d \in Queued THEN queue ELSE Append(queue, d)

(* QueueAdd, an error of which is the block's too.                         *)
QueueAdd(i) ==
  /\ listener[i].at = "queue"
  /\ \E d \in listener[i].deposit :
     \/ /\ Enqueue(d)
        /\ ToListener(i, "received")
        /\ UNCHANGED faults
     \/ /\ Fault
        /\ listener' = [listener EXCEPT ![i].at = "block", ![i].deposit = {}]
        /\ UNCHANGED queue
  /\ UNCHANGED <<chainVars, lastBlock, base, processed, pooled, events,
                 up, signerNo, job, ledgerVars>>

TransactionReceived(i) ==
  /\ listener[i].at = "received"
  /\ \E d \in listener[i].deposit :
       /\ BroadcastEvent(dest[d], "transaction_received")
       /\ listener' = [listener EXCEPT ![i].at = "rail", ![i].deposit = {},
                                       ![i].todo = @ \ {d}]
  /\ UNCHANGED <<chainVars, storeVars, up, signerNo, job, ledgerVars>>

\* Saves a block whose transactions have not all been handled.
SaveLastBlockEarly(i) ==
  /\ listener[i].at = "rail"
  /\ lastBlock' = IF listener[i].block > lastBlock THEN listener[i].block
                                                   ELSE lastBlock
  /\ listener' = [listener EXCEPT ![i].at = "block", ![i].block = @ + 1]
  /\ UNCHANGED <<chainVars, base, processed, queue, pooled, events, up,
                 signerNo, job, ledgerVars, faults>>

(* SaveLastProcessedBlock only moves forward; when it fails, the listener  *)
(* goes on with the next block all the same.                               *)
SaveLastBlock(i) ==
  /\ listener[i].at = "rail" /\ listener[i].todo = {}
  /\ LET block == listener[i].block IN
     \/ /\ lastBlock' = IF block > lastBlock THEN block ELSE lastBlock
        /\ UNCHANGED faults
     \/ Fault /\ UNCHANGED lastBlock
  /\ listener' = [listener EXCEPT ![i].at = "block", ![i].block = @ + 1]
  /\ UNCHANGED <<chainVars, base, processed, queue, pooled, events, up,
                 signerNo, job, ledgerVars>>

\* The row is read, and can be read again.
QueuePoolPeeks(i) ==
  /\ i \in up
  /\ queue # <<>>
  /\ queue' = queue
  /\ pooled' = pooled \cup {Head(queue)}
  /\ job' = [job EXCEPT ![Head(queue)] = [at |-> "check", by |-> i, seq |-> 0]]
  /\ UNCHANGED <<chainVars, lastBlock, base, processed, events, up,
                 listener, signerNo, ledgerVars, faults>>

\* The rows are read from the newest on.
QueuePoolNewest(i) ==
  /\ i \in up
  /\ queue # <<>>
  /\ queue' = Front(queue)
  /\ pooled' = pooled \cup {Last(queue)}
  /\ job' = [job EXCEPT ![Last(queue)] = [at |-> "check", by |-> i, seq |-> 0]]
  /\ UNCHANGED <<chainVars, lastBlock, base, processed, events, up,
                 listener, signerNo, ledgerVars, faults>>

(* QueuePool marks the row pooled in the transaction that reads it, and a  *)
(* goroutine is started for it, unless the answer to the commit is lost.   *)
QueuePool(i) ==
  /\ i \in up
  /\ queue # <<>>
  /\ queue' = Tail(queue)
  /\ pooled' = pooled \cup {Head(queue)}
  /\ \E place \in {"check", "lost"} :
       /\ job' = [job EXCEPT ![Head(queue)] = [at |-> place, by |-> i, seq |-> 0]]
       /\ IF place = "lost" THEN Fault ELSE UNCHANGED faults
  /\ UNCHANGED <<chainVars, lastBlock, base, processed, events, up,
                 listener, signerNo, ledgerVars>>

-----------------------------------------------------------------------------
(* ConfigureAccount, one goroutine per deposit, and its transactions.      *)

\* The job goes on, with no transaction at hand.
To(d, place) == job' = [job EXCEPT ![d].at = place, ![d].seq = 0]

JobAt(d, place) == job[d].at = place

(* getAccount, and for an account that does not exist getSignerSequence.   *)
(* A failed load is tried again.                                           *)
CheckAccount(d) ==
  /\ JobAt(d, "check")
  /\ LET i == job[d].by IN
     \/ /\ account[dest[d]] # "absent"
        /\ To(d, "created")
        /\ UNCHANGED signerNo
     \/ /\ account[dest[d]] = "absent"
        /\ signerNo' = [signerNo EXCEPT ![i] = @ + 1]
        /\ job' = [job EXCEPT ![d].at = "create", ![d].seq = signerNo[i] + 1]
  /\ UNCHANGED <<chainVars, storeVars, events, up, listener, ledgerVars, faults>>

(* What the network does with a create-account transaction: the right      *)
(* number is used up even when the account exists by then.                 *)
ApplyCreate(d) ==
  LET i == job[d].by
      a == dest[d]
      valid == job[d].seq = signerSeq[i] + 1 IN
  /\ signerSeq' = [signerSeq EXCEPT ![i] = IF valid THEN @ + 1 ELSE @]
  /\ account' = [account EXCEPT ![a] = IF valid /\ @ = "absent" THEN "created"
                                                               ELSE @]
CreateSucceeds(d) == /\ job[d].seq = signerSeq[job[d].by] + 1
                     /\ account[dest[d]] = "absent"

(* createAccountTransaction: an error of Horizon's (its timeout is one)     *)
(* updates the signer's sequence number, any other does not; both are      *)
(* tried again, and either can hide a transaction that was applied.        *)
CreateAccount(d) ==
  /\ JobAt(d, "create")
  /\ \/ /\ ApplyCreate(d)
        /\ To(d, IF CreateSucceeds(d) THEN "created" ELSE "update")
        /\ UNCHANGED faults
     \/ /\ Fault
        /\ ApplyCreate(d) \/ UNCHANGED <<signerSeq, account>>
        /\ \E place \in {"check", "update"} : To(d, place)
  /\ UNCHANGED <<chainVars, storeVars, events, up, listener, signerNo,
                 signer, accountSeq, sent>>

\* Stores the next number, which getSignerSequence then adds one to.
UpdateSignerSequenceTooHigh(d) ==
  /\ job[d].at \in {"update", "leave"}
  /\ signerNo' = [signerNo EXCEPT ![job[d].by] = signerSeq[job[d].by] + 1]
  /\ To(d, IF job[d].at = "update" THEN "check" ELSE "failed")
  /\ UNCHANGED <<chainVars, storeVars, events, up, listener, ledgerVars, faults>>

(* updateSignerSequence, under its mutex; a failed load leaves the number. *)
(* At "leave" it follows a failed transaction of the user's account.       *)
UpdateSignerSequence(d) ==
  /\ job[d].at \in {"update", "leave"}
  /\ \/ /\ signerNo' = [signerNo EXCEPT ![job[d].by] = signerSeq[job[d].by]]
        /\ UNCHANGED faults
     \/ Fault /\ UNCHANGED signerNo
  /\ To(d, IF job[d].at = "update" THEN "check" ELSE "failed")
  /\ UNCHANGED <<chainVars, storeVars, events, up, listener, ledgerVars>>

(* OnAccountCreated.                                                       *)
AccountCreated(d) ==
  /\ JobAt(d, "created")
  /\ BroadcastEvent(dest[d], "account_created")
  /\ To(d, "wait")
  /\ UNCHANGED <<chainVars, storeVars, up, listener, signerNo, ledgerVars>>

\* signerExistsOnly: the signer of the instance that asks, and no other.
SignerExistsOnly(d) ==
  account[dest[d]] = "temporary" /\ signer[dest[d]] = job[d].by

(* The loop of signerExistsOnly.                                           *)
SignerFound(d) ==
  /\ JobAt(d, "wait")
  /\ SignerExistsOnly(d)
  /\ To(d, "build")
  /\ UNCHANGED <<chainVars, storeVars, events, up, listener, signerNo,
                 ledgerVars, faults>>

(* AutoSequence loads the number of the user's account; an error ends the  *)
(* goroutine. Places "build" and "send" are configureAccountTransaction,   *)
(* "unbuild" and "remove" are removeTemporarySigner.                       *)
AutoSequence(d, from, next) ==
  /\ JobAt(d, from)
  /\ \/ /\ job' = [job EXCEPT ![d].at = next, ![d].seq = accountSeq[dest[d]] + 1]
        /\ UNCHANGED faults
     \/ Fault /\ To(d, "failed")
  /\ UNCHANGED <<chainVars, storeVars, events, up, listener, signerNo,
                 ledgerVars>>

(* A transaction of the user's account that the instance's signer signs.   *)
ValidForAccount(d) == /\ job[d].seq = accountSeq[dest[d]] + 1
                      /\ SignerExistsOnly(d)

(* submitTransaction fails: an error of Horizon's updates the signer's     *)
(* number even now, any other ends ConfigureAccount at once.               *)
GivesUp(d) == Fault /\ \E place \in {"leave", "failed"} : To(d, place)
IsRejected(d) == ~ValidForAccount(d) /\ To(d, "leave") /\ UNCHANGED faults

ApplySend(d) ==
  /\ accountSeq' = [accountSeq EXCEPT ![dest[d]] = @ + 1]
  /\ sent' = [sent EXCEPT ![d] = @ + 1]

\* Tries again when the answer is lost.
SendTokensAgain(d) ==
  /\ JobAt(d, "send")
  /\ \/ ValidForAccount(d) /\ ApplySend(d) /\ To(d, "unbuild") /\ UNCHANGED faults
     \/ ValidForAccount(d) /\ ApplySend(d) /\ To(d, "build") /\ Fault
     \/ /\ ~ValidForAccount(d) /\ To(d, "leave")
        /\ UNCHANGED <<accountSeq, sent, faults>>
  /\ UNCHANGED <<chainVars, storeVars, events, up, listener, signerNo,
                 signerSeq, account, signer>>

SendTokens(d) ==
  /\ JobAt(d, "send")
  /\ \/ ValidForAccount(d) /\ ApplySend(d) /\ To(d, "unbuild") /\ UNCHANGED faults
     \/ ValidForAccount(d) /\ ApplySend(d) /\ GivesUp(d)
     \/ UNCHANGED <<accountSeq, sent>> /\ (GivesUp(d) \/ IsRejected(d))
  /\ UNCHANGED <<chainVars, storeVars, events, up, listener, signerNo,
                 signerSeq, account, signer>>

ApplyRemove(d) ==
  /\ accountSeq' = [accountSeq EXCEPT ![dest[d]] = @ + 1]
  /\ account' = [account EXCEPT ![dest[d]] = "released"]

\* Announces the exchange whatever became of the transaction.
RemoveSignerUnchecked(d) ==
  /\ JobAt(d, "remove")
  /\ IF ValidForAccount(d) THEN ApplyRemove(d) ELSE UNCHANGED <<accountSeq, account>>
  /\ To(d, "exchanged")
  /\ UNCHANGED <<chainVars, storeVars, events, up, listener, signerNo,
                 signerSeq, signer, sent, faults>>

RemoveSigner(d) ==
  /\ JobAt(d, "remove")
  /\ \/ ValidForAccount(d) /\ ApplyRemove(d) /\ To(d, "exchanged") /\ UNCHANGED faults
     \/ ValidForAccount(d) /\ ApplyRemove(d) /\ GivesUp(d)
     \/ UNCHANGED <<accountSeq, account>> /\ (GivesUp(d) \/ IsRejected(d))
  /\ UNCHANGED <<chainVars, storeVars, events, up, listener, signerNo,
                 signerSeq, signer, sent>>

(* OnExchanged.                                                            *)
Exchanged(d) ==
  /\ JobAt(d, "exchanged")
  /\ BroadcastEvent(dest[d], "exchanged")
  /\ To(d, "done")
  /\ UNCHANGED <<chainVars, storeVars, up, listener, signerNo, ledgerVars>>

-----------------------------------------------------------------------------
Listen(i) == \/ GetBlock(i) \/ AddProcessed(i) \/ QueueAdd(i)
             \/ TransactionReceived(i) \/ SaveLastBlock(i)

Configure(d) ==
  \/ CheckAccount(d) \/ CreateAccount(d) \/ UpdateSignerSequence(d)
  \/ AccountCreated(d) \/ SignerFound(d)
  \/ AutoSequence(d, "build", "send") \/ SendTokens(d)
  \/ AutoSequence(d, "unbuild", "remove") \/ RemoveSigner(d)
  \/ Exchanged(d)

Next ==
  \/ MineBlock
  \/ \E a \in Accounts : AddSigner(a)
  \/ \E i \in Instances :
       StartInstance(i) \/ Crash(i) \/ Listen(i) \/ QueuePool(i)
  \/ \E d \in Deposits : Configure(d)

Spec == Init /\ [][Next]_vars

(* Goroutines are scheduled, some instance is restarted and some poller    *)
(* runs, and users follow the procedure. The chain need not grow, nor need *)
(* a listener walk it.                                                     *)
Fairness ==
  /\ WF_vars(\E i \in Instances : StartInstance(i))
  /\ WF_vars(\E i \in Instances : QueuePool(i))
  /\ \A d \in Deposits : WF_vars(Configure(d))
  /\ WF_vars(\E a \in Accounts : AddSigner(a))

FairSpec == Spec /\ Fairness

-----------------------------------------------------------------------------
(* Properties.                                                             *)

ListenerPlaces == {"off", "block", "rail", "queue", "received"}
JobPlaces == Ended \cup {"check", "create", "update", "leave", "created", "wait",
                         "build", "send", "unbuild", "remove", "exchanged"}

(* Types, and the database's constraints.                                  *)
TypeOK ==
  /\ height \in 1 .. MaxBlock /\ dest \in Associations
  /\ lastBlock \in 0 .. height /\ base \in 0 .. height
  /\ processed \subseteq Deposits /\ pooled \subseteq Deposits
  /\ queue \in Seq(Deposits) /\ IsInjective(queue) /\ ToSet(queue) \cap pooled = {}
  /\ \A i \in Instances :
       /\ listener[i].at \in ListenerPlaces /\ listener[i].block \in 0 .. MaxBlock + 1
       /\ listener[i].at = "off" <=> i \notin up
       /\ Cardinality(listener[i].deposit) =
            IF listener[i].at \in {"queue", "received"} THEN 1 ELSE 0
       /\ signerNo[i] \in Nat /\ signerSeq[i] \in Nat
  /\ \A d \in Deposits :
       /\ job[d].at \in JobPlaces
       /\ job[d].at \notin Ended => job[d].by \in up
       /\ job[d].at # "none" <=> d \in pooled
  /\ \A a \in Accounts :
       /\ account[a] \in {"absent", "created", "temporary", "released"}
       /\ signer[a] \in Instances \cup {"nobody"}
  /\ faults \in 0 .. MaxFaults

(* A deposit's tokens are sent at most once, and only for a deposit of the *)
(* chain: whatever the instances, the blocks they take again, the answers  *)
(* they lose and the crashes.                                              *)
HonouredOnce == \A d \in Deposits : sent[d] <= 1 /\ (sent[d] = 1 => d \in processed)

(* The saved block never passes a deposit nobody recorded: from the block  *)
(* on where an instance last began at the latest one, for none was saved,  *)
(* a restart skips nothing, although instances save out of order and go on *)
(* after a failed save.                                                    *)
NoDepositSkipped ==
  \A d \in Deposits : Block[d] \in base .. lastBlock => d \in processed

(* What the event stream tells the user is so: the account exists, the     *)
(* tokens of a deposit were sent and the signer is gone.                   *)
EventsAreTrue ==
  \A a \in Accounts :
    /\ <<a, "transaction_received">> \in events =>
         \E d \in Queued : dest[d] = a
    /\ <<a, "account_created">> \in events => account[a] # "absent"
    /\ <<a, "exchanged">> \in events =>
         account[a] = "released" /\ \E d \in Deposits : dest[d] = a /\ sent[d] = 1

E == INSTANCE Exchange WITH recorded <- processed, line <- queue, taken <- pooled

(* Instances, listeners, rails, pollers and jobs, whatever fails, together *)
(* do no more than Exchange: each deposit goes through the stages in turn, *)
(* each at most once, and each event is announced when it is so.           *)
ExchangeSpec == E!Spec

(* signerExistsOnly will never be true: the user put the signer of another *)
(* instance on his account, or a deposit to it has been exchanged.         *)
Stranded(d) ==
  /\ JobAt(d, "wait")
  /\ \/ account[dest[d]] = "temporary" /\ signer[dest[d]] # job[d].by
     \/ account[dest[d]] = "released"

(* A queued deposit ends: its goroutine is done, was lost with its         *)
(* instance or gave up on an error. Instances and goroutines that mix up   *)
(* signer numbers sort themselves out, and nothing but the wrong signer or *)
(* an earlier exchange of the same account leaves one waiting.             *)
QueuedIsSettled ==
  \A d \in Deposits :
    d \in Queued ~> (job[d].at \in {"done", "lost", "failed"} \/ Stranded(d))

(* listener.go:99: "it's safe to reprocess blocks": a recorded deposit is  *)
(* queued, or a rail is about to queue it.                                 *)
ReprocessingIsSafe ==
  \A d \in processed :
    d \in Queued \/ \E i \in Instances : d \in listener[i].deposit
=============================================================================
