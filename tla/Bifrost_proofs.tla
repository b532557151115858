--------------------------- MODULE Bifrost_proofs ---------------------------
(***************************************************************************)
(* Proofs about Bifrost, for any instances, deposits, accounts, chain and  *)
(* number of faults.  The inductive invariant is built in five layers,     *)
(* each of which rests on those before it: the types, the queue, what the  *)
(* jobs have sent, the blocks, and what the events say.  On them rests     *)
(* that Bifrost implements Exchange (BifrostIsExchange), and that a        *)
(* deposit whose account has another instance's signer stays where it is   *)
(* (StrandedForGood).                                                      *)
(***************************************************************************)
EXTENDS Bifrost, FiniteSetTheorems, SequenceTheorems, TLAPS

-----------------------------------------------------------------------------
(* Types of the whole state.                                               *)

Listener == [at : ListenerPlaces, block : Nat, todo : SUBSET Deposits,
             deposit : SUBSET Deposits]

Job == [at : JobPlaces, by : Instances \cup {"nobody"}, seq : Nat]

AccountStates == {"absent", "created", "temporary", "released"}

Types ==
  /\ height \in 1 .. MaxBlock /\ dest \in Associations
  /\ lastBlock \in Nat /\ base \in Nat
  /\ processed \in SUBSET Deposits /\ pooled \in SUBSET Deposits
  /\ queue \in Seq(Deposits)
  /\ up \in SUBSET Instances
  /\ listener \in [Instances -> Listener]
  /\ signerNo \in [Instances -> Nat] /\ signerSeq \in [Instances -> Nat]
  /\ job \in [Deposits -> Job]
  /\ \A d \in Deposits : job[d].at \notin Ended => job[d].by \in up
  /\ account \in [Accounts -> AccountStates]
  /\ signer \in [Accounts -> Instances \cup {"nobody"}]
  /\ accountSeq \in [Accounts -> Nat] /\ sent \in [Deposits -> Nat]
  /\ faults \in 0 .. MaxFaults

LEMMA Names ==
  /\ ListenerPlaces = {"off", "block", "rail", "queue", "received"}
  /\ JobPlaces = {"none", "done", "failed", "lost", "check", "create", "update",
                  "leave", "created", "wait", "build", "send", "unbuild",
                  "remove", "exchanged"}
  /\ Ended = {"none", "done", "failed", "lost"}
BY DEF ListenerPlaces, JobPlaces, Ended

LEMMA DestType ==
  ASSUME Types
  PROVE  \A d \in Deposits : dest[d] \in Accounts
BY BifrostAssumption DEF Types

LEMMA BlockType ==
  /\ MaxBlock \in Nat /\ MaxBlock # 0 /\ MaxFaults \in Nat
  /\ \A d \in Deposits : Block[d] \in Nat /\ Block[d] >= 1
BY BifrostAssumption

(* A fault counts, and an event may cost one.                              *)
LEMMA FaultType ==
  ASSUME Types, Fault \/ UNCHANGED faults
  PROVE  faults' \in 0 .. MaxFaults
BY BlockType DEF Types, Fault

LEMMA BroadcastFault ==
  ASSUME NEW a, NEW e, BroadcastEvent(a, e)
  PROVE  Fault \/ UNCHANGED faults
BY DEF BroadcastEvent

LEMMA TailOfQueue ==
  ASSUME NEW q \in Seq(Deposits), q # <<>>
  PROVE  Head(q) \in Deposits /\ Tail(q) \in Seq(Deposits)
BY HeadTailProperties

-----------------------------------------------------------------------------
(* What each action does to the one listener it moves.                     *)

OnlyListener(i) == \A j \in Instances : j # i => listener'[j] = listener[j]

(* The next place of a listener, which keeps the block it is at.           *)
Moved(i, place) ==
  /\ listener' \in [Instances -> Listener]
  /\ OnlyListener(i)
  /\ listener'[i].at = place
  /\ listener'[i].block = listener[i].block

LEMMA ListenerFields ==
  ASSUME Types, NEW i \in Instances
  PROVE  /\ listener[i].at \in ListenerPlaces /\ listener[i].block \in Nat
         /\ listener[i].todo \subseteq Deposits
         /\ listener[i].deposit \subseteq Deposits
BY DEF Types, Listener

LEMMA ToListenerDoes ==
  ASSUME Types, NEW i \in Instances, NEW place \in ListenerPlaces,
         ToListener(i, place)
  PROVE  /\ Moved(i, place)
         /\ listener'[i].todo = listener[i].todo
         /\ listener'[i].deposit = listener[i].deposit
BY DEF Types, ToListener, Moved, OnlyListener, Listener

LEMMA GetBlockDoes ==
  ASSUME Types, NEW i \in Instances, GetBlock(i)
  PROVE  /\ Moved(i, "rail")
         /\ listener[i].at = "block" /\ listener[i].block <= height
         /\ listener'[i].todo = {d \in Deposits : Block[d] = listener[i].block}
         /\ listener'[i].deposit = listener[i].deposit
BY Names DEF Types, GetBlock, Moved, OnlyListener, Listener

LEMMA AddProcessedDoes ==
  ASSUME Types, NEW i \in Instances, AddProcessed(i)
  PROVE  /\ listener[i].at = "rail"
         /\ Fault \/ UNCHANGED faults
         /\ \E d \in listener[i].todo :
              \/ /\ d \in processed /\ processed' = processed
                 /\ Moved(i, "rail")
                 /\ listener'[i].todo = listener[i].todo \ {d}
                 /\ listener'[i].deposit = listener[i].deposit
              \/ /\ processed' = processed \cup {d}
                 /\ Moved(i, "queue")
                 /\ listener'[i].todo = listener[i].todo
                 /\ listener'[i].deposit = {d}
              \/ /\ processed' = processed
                 /\ Moved(i, "block")
                 /\ listener'[i].deposit = listener[i].deposit
<1>1. PICK d \in listener[i].todo :
        \/ /\ d \in processed
           /\ listener' = [listener EXCEPT ![i].todo = @ \ {d}]
           /\ UNCHANGED <<processed, faults>>
        \/ /\ d \notin processed
           /\ processed' = processed \cup {d}
           /\ listener' = [listener EXCEPT ![i].at = "queue", ![i].deposit = {d}]
           /\ UNCHANGED faults
        \/ Fault /\ ToListener(i, "block") /\ UNCHANGED processed
  BY DEF AddProcessed
<1>2. listener[i].at = "rail" /\ d \in Deposits
  BY ListenerFields DEF AddProcessed
<1>3. CASE /\ d \in processed
           /\ listener' = [listener EXCEPT ![i].todo = @ \ {d}]
           /\ UNCHANGED <<processed, faults>>
  <2>1. /\ Moved(i, "rail")
        /\ listener'[i].todo = listener[i].todo \ {d}
        /\ listener'[i].deposit = listener[i].deposit
    BY <1>2, <1>3, Names DEF Types, Moved, OnlyListener, Listener
  <2> QED BY <1>2, <1>3, <2>1
<1>4. CASE /\ d \notin processed
           /\ processed' = processed \cup {d}
           /\ listener' = [listener EXCEPT ![i].at = "queue", ![i].deposit = {d}]
           /\ UNCHANGED faults
  <2>1. /\ Moved(i, "queue")
        /\ listener'[i].todo = listener[i].todo
        /\ listener'[i].deposit = {d}
    BY <1>2, <1>4, Names DEF Types, Moved, OnlyListener, Listener
  <2> QED BY <1>2, <1>4, <2>1
<1>5. CASE Fault /\ ToListener(i, "block") /\ UNCHANGED processed
  BY <1>2, <1>5, ToListenerDoes, Names
<1> QED BY <1>1, <1>3, <1>4, <1>5

LEMMA QueueAddDoes ==
  ASSUME Types, NEW i \in Instances, QueueAdd(i)
  PROVE  /\ listener[i].at = "queue"
         /\ Fault \/ UNCHANGED faults
         /\ \E d \in listener[i].deposit :
              \/ /\ Enqueue(d)
                 /\ Moved(i, "received")
                 /\ listener'[i].todo = listener[i].todo
                 /\ listener'[i].deposit = listener[i].deposit
              \/ /\ queue' = queue
                 /\ Moved(i, "block")
                 /\ listener'[i].deposit = {}
<1>1. PICK d \in listener[i].deposit :
        \/ /\ Enqueue(d)
           /\ ToListener(i, "received")
           /\ UNCHANGED faults
        \/ /\ Fault
           /\ listener' = [listener EXCEPT ![i].at = "block", ![i].deposit = {}]
           /\ UNCHANGED queue
  BY DEF QueueAdd
<1>2. listener[i].at = "queue"
  BY DEF QueueAdd
<1>3. CASE Enqueue(d) /\ ToListener(i, "received") /\ UNCHANGED faults
  BY <1>2, <1>3, ToListenerDoes, Names
<1>4. CASE /\ Fault
           /\ listener' = [listener EXCEPT ![i].at = "block", ![i].deposit = {}]
           /\ UNCHANGED queue
  <2>1. Moved(i, "block") /\ listener'[i].deposit = {}
    BY <1>2, <1>4, Names DEF Types, Moved, OnlyListener, Listener
  <2> QED BY <1>2, <1>4, <2>1
<1> QED BY <1>1, <1>3, <1>4

LEMMA TransactionReceivedDoes ==
  ASSUME Types, NEW i \in Instances, TransactionReceived(i)
  PROVE  /\ listener[i].at = "received"
         /\ Moved(i, "rail")
         /\ listener'[i].deposit = {}
         /\ \E d \in listener[i].deposit :
              /\ BroadcastEvent(dest[d], "transaction_received")
              /\ listener'[i].todo = listener[i].todo \ {d}
<1>1. PICK d \in listener[i].deposit :
        /\ BroadcastEvent(dest[d], "transaction_received")
        /\ listener' = [listener EXCEPT ![i].at = "rail", ![i].deposit = {},
                                        ![i].todo = @ \ {d}]
  BY DEF TransactionReceived
<1>2. listener[i].at = "received"
  BY DEF TransactionReceived
<1>3. /\ Moved(i, "rail")
      /\ listener'[i].deposit = {}
      /\ listener'[i].todo = listener[i].todo \ {d}
  BY <1>1, Names DEF Types, Moved, OnlyListener, Listener
<1> QED BY <1>1, <1>2, <1>3

LEMMA SaveLastBlockDoes ==
  ASSUME Types, NEW i \in Instances, SaveLastBlock(i)
  PROVE  /\ listener[i].at = "rail" /\ listener[i].todo = {}
         /\ Fault \/ UNCHANGED faults
         /\ listener' \in [Instances -> Listener]
         /\ OnlyListener(i)
         /\ listener'[i].at = "block"
         /\ listener'[i].block = listener[i].block + 1
         /\ listener'[i].deposit = listener[i].deposit
         /\ \/ /\ lastBlock' = IF listener[i].block > lastBlock
                               THEN listener[i].block ELSE lastBlock
            \/ UNCHANGED lastBlock
<1>1. listener' = [listener EXCEPT ![i].at = "block", ![i].block = @ + 1]
  BY DEF SaveLastBlock
<1>2. PICK n \in Nat : n = listener[i].block + 1
  BY ListenerFields
<1>3. listener' = [listener EXCEPT ![i].at = "block", ![i].block = n]
  BY <1>1, <1>2
<1>4. /\ listener' \in [Instances -> Listener]
      /\ OnlyListener(i)
      /\ listener'[i].at = "block"
      /\ listener'[i].block = n
      /\ listener'[i].deposit = listener[i].deposit
  BY <1>3, Names DEF Types, OnlyListener, Listener
<1> QED BY <1>2, <1>4 DEF SaveLastBlock

-----------------------------------------------------------------------------
(* What each action does to the one job it moves.                          *)

OnlyJob(d) == \A e \in Deposits : e # d => job'[e] = job[e]

JobTo(d, place) ==
  /\ job' \in [Deposits -> Job]
  /\ OnlyJob(d)
  /\ job'[d].at = place
  /\ job'[d].by = job[d].by

LEMMA ToDoes ==
  ASSUME Types, NEW d \in Deposits, NEW place \in JobPlaces, To(d, place)
  PROVE  JobTo(d, place)
BY DEF Types, To, JobTo, OnlyJob, Job

LEMMA ToWithSeqDoes ==
  ASSUME Types, NEW d \in Deposits, NEW place \in JobPlaces, NEW n \in Nat,
         job' = [job EXCEPT ![d].at = place, ![d].seq = n]
  PROVE  JobTo(d, place)
BY DEF Types, JobTo, OnlyJob, Job

(* A job that runs belongs to an instance that is up.                      *)
LEMMA JobIsRunning ==
  ASSUME Types, NEW d \in Deposits, job[d].at \notin Ended
  PROVE  job[d].by \in up /\ job[d].by \in Instances
BY DEF Types

(* A step of a job that stays with its instance.                           *)
LEMMA JobsTyped ==
  ASSUME Types, NEW d \in Deposits, NEW place, JobTo(d, place),
         job[d].at \notin Ended, up' = up
  PROVE  /\ job' \in [Deposits -> Job]
         /\ \A e \in Deposits : job'[e].at \notin Ended => job'[e].by \in up'
BY JobIsRunning DEF Types, JobTo, OnlyJob
(* The places before the tokens are sent, and after.                       *)
Unsent == {"none", "check", "create", "update", "created", "wait", "build",
           "send"}
Sent == {"unbuild", "remove", "exchanged"}

(* A step of d's job to a place sends d's tokens, or nothing is sent and   *)
(* the job stays on its side of the sending.                               *)
SendsOrStays(d, place) ==
  \/ /\ job[d].at = "send" /\ place \notin Unsent
     /\ sent' = [sent EXCEPT ![d] = @ + 1]
  \/ /\ sent' = sent
     /\ place \in Unsent => job[d].at \in Unsent
     /\ place \in Sent => job[d].at \in Sent

(* An account that exists does not go away, nor does a released one change.*)
AccountsGrow ==
  /\ account' \in [Accounts -> AccountStates]
  /\ \A a \in Accounts :
       /\ account[a] # "absent" => account'[a] # "absent"
       /\ account[a] = "released" => account'[a] = "released"

(* What the job announces at a place is so when it gets there, and is told *)
(* from there.                                                             *)
Announces(d, place) ==
  /\ place = "created" => account'[dest[d]] # "absent"
  /\ place = "exchanged" => account'[dest[d]] = "released"
  /\ \/ events' = events
     \/ /\ job[d].at = "created"
        /\ events' = events \cup {<<dest[d], "account_created">>}
     \/ /\ job[d].at = "exchanged"
        /\ events' = events \cup {<<dest[d], "exchanged">>}

JobStep(d, place) ==
  /\ JobTo(d, place) /\ job[d].at \notin Ended /\ place # "none"
  /\ SendsOrStays(d, place)
  /\ AccountsGrow
  /\ Announces(d, place)
  /\ signerNo' \in [Instances -> Nat] /\ signerSeq' \in [Instances -> Nat]
  /\ accountSeq' \in [Accounts -> Nat]
  /\ Fault \/ UNCHANGED faults
  /\ UNCHANGED <<height, dest, storeVars, up, listener, signer>>

(* A job that only moves.                                                  *)
LEMMA PlainStep ==
  ASSUME Types, NEW d \in Deposits, NEW place, JobTo(d, place),
         job[d].at \notin Ended, place \notin {"none", "created", "exchanged"},
         place \in Unsent => job[d].at \in Unsent,
         place \in Sent => job[d].at \in Sent,
         signerNo' \in [Instances -> Nat], Fault \/ UNCHANGED faults,
         UNCHANGED <<chainVars, storeVars, up, listener, events, ledgerVars>>
  PROVE  JobStep(d, place)
<1>1. /\ UNCHANGED <<height, dest, storeVars, up, listener, events>>
      /\ UNCHANGED <<signerSeq, account, signer, accountSeq, sent>>
  BY DEF chainVars, ledgerVars
<1>2. AccountsGrow
  BY <1>1 DEF AccountsGrow, Types
<1>3. SendsOrStays(d, place) /\ Announces(d, place)
  BY <1>1 DEF SendsOrStays, Announces
<1> QED BY <1>1, <1>2, <1>3 DEF JobStep, Types

LEMMA CheckAccountDoes ==
  ASSUME Types, NEW d \in Deposits, CheckAccount(d)
  PROVE  \E place \in JobPlaces : JobStep(d, place)
<1>1. /\ job[d].at = "check" /\ job[d].at \notin Ended
      /\ UNCHANGED <<chainVars, storeVars, events, up, listener, ledgerVars,
                     faults>>
  BY Names DEF CheckAccount, JobAt
<1>2. job[d].by \in Instances
  BY <1>1, JobIsRunning
<1>3. CASE account[dest[d]] # "absent" /\ To(d, "created") /\ UNCHANGED signerNo
  <2>1. JobTo(d, "created")
    BY <1>3, ToDoes, Names
  <2>2. /\ UNCHANGED <<height, dest, storeVars, up, listener, events>>
        /\ UNCHANGED <<signerSeq, account, signer, accountSeq, sent>>
    BY <1>1 DEF chainVars, ledgerVars
  <2>3. AccountsGrow
    BY <2>2 DEF AccountsGrow, Types
  <2>4. SendsOrStays(d, "created") /\ Announces(d, "created")
    BY <1>1, <1>3, <2>2 DEF SendsOrStays, Announces, Unsent, Sent
  <2>5. JobStep(d, "created")
    BY <1>1, <1>3, <2>1, <2>2, <2>3, <2>4 DEF JobStep, Types
  <2> QED BY <2>5, Names
<1>4. CASE /\ signerNo' = [signerNo EXCEPT ![job[d].by] = @ + 1]
           /\ job' = [job EXCEPT ![d].at = "create",
                                 ![d].seq = signerNo[job[d].by] + 1]
  <2>1. PICK n \in Nat : n = signerNo[job[d].by] + 1
    BY <1>2 DEF Types
  <2>2. JobTo(d, "create")
    BY <1>4, <2>1, ToWithSeqDoes, Names
  <2>3. signerNo' \in [Instances -> Nat]
    BY <1>2, <1>4, <2>1 DEF Types
  <2>4. JobStep(d, "create")
    BY <1>1, <2>2, <2>3, PlainStep DEF Unsent, Sent
  <2> QED BY <2>4, Names
<1> QED BY <1>3, <1>4 DEF CheckAccount

LEMMA ApplyCreateDoes ==
  ASSUME Types, NEW d \in Deposits, job[d].at \notin Ended, ApplyCreate(d)
  PROVE  /\ signerSeq' \in [Instances -> Nat]
         /\ AccountsGrow
         /\ CreateSucceeds(d) => account'[dest[d]] # "absent"
<1>1. job[d].by \in Instances /\ dest[d] \in Accounts
  BY JobIsRunning, DestType
<1>2. signerSeq' \in [Instances -> Nat]
  BY <1>1 DEF ApplyCreate, Types
<1>3. \A a \in Accounts : account'[a] =
        IF a = dest[d] /\ job[d].seq = signerSeq[job[d].by] + 1
           /\ account[a] = "absent"
        THEN "created" ELSE account[a]
  BY <1>1 DEF ApplyCreate, Types
<1>4. account' \in [Accounts -> AccountStates]
  <2>1. account' = [account EXCEPT ![dest[d]] = account'[dest[d]]]
    BY <1>1 DEF ApplyCreate, Types
  <2>2. account'[dest[d]] \in AccountStates
    BY <1>1, <1>3 DEF Types, AccountStates
  <2> QED BY <1>1, <2>1, <2>2 DEF Types
<1>5. AccountsGrow
  BY <1>3, <1>4 DEF AccountsGrow
<1>6. CreateSucceeds(d) => account'[dest[d]] # "absent"
  BY <1>1, <1>3 DEF CreateSucceeds
<1> QED BY <1>2, <1>5, <1>6

LEMMA CreateAccountDoes ==
  ASSUME Types, NEW d \in Deposits, CreateAccount(d)
  PROVE  \E place \in JobPlaces : JobStep(d, place)
<1>1. /\ job[d].at = "create" /\ job[d].at \notin Ended
      /\ UNCHANGED <<height, dest, storeVars, up, listener, events>>
      /\ UNCHANGED <<signerNo, signer, accountSeq, sent>>
  BY Names DEF CreateAccount, JobAt, chainVars
<1>2. AccountsGrow /\ signerSeq' \in [Instances -> Nat]
  <2>1. CASE ApplyCreate(d)
    BY <1>1, <2>1, ApplyCreateDoes
  <2>2. CASE UNCHANGED <<signerSeq, account>>
    BY <2>2 DEF AccountsGrow, Types
  <2> QED BY <2>1, <2>2 DEF CreateAccount
<1>3. \E place \in {"created", "update", "check"} :
        /\ To(d, place)
        /\ place = "created" => account'[dest[d]] # "absent"
        /\ Fault \/ UNCHANGED faults
  <2>1. CASE ApplyCreate(d) /\ UNCHANGED faults
             /\ To(d, IF CreateSucceeds(d) THEN "created" ELSE "update")
    BY <1>1, <2>1, ApplyCreateDoes
  <2>2. CASE Fault /\ \E place \in {"check", "update"} : To(d, place)
    BY <2>2
  <2> QED BY <2>1, <2>2 DEF CreateAccount
<1>4. PICK place \in {"created", "update", "check"} :
        /\ To(d, place)
        /\ place = "created" => account'[dest[d]] # "absent"
        /\ Fault \/ UNCHANGED faults
  BY <1>3
<1>5. JobTo(d, place) /\ place \in JobPlaces
  BY <1>4, ToDoes, Names
<1>6. SendsOrStays(d, place) /\ Announces(d, place)
  BY <1>1, <1>4 DEF SendsOrStays, Announces, Unsent, Sent
<1>7. JobStep(d, place)
  BY <1>1, <1>2, <1>4, <1>5, <1>6 DEF JobStep, Types
<1> QED BY <1>5, <1>7

LEMMA UpdateSignerSequenceDoes ==
  ASSUME Types, NEW d \in Deposits, UpdateSignerSequence(d)
  PROVE  \E place \in JobPlaces : JobStep(d, place)
<1>1. /\ job[d].at \in {"update", "leave"} /\ job[d].at \notin Ended
      /\ UNCHANGED <<chainVars, storeVars, events, up, listener, ledgerVars>>
      /\ Fault \/ UNCHANGED faults
  BY Names DEF UpdateSignerSequence
<1>2. job[d].by \in Instances
  BY <1>1, JobIsRunning
<1>3. signerNo' \in [Instances -> Nat]
  BY <1>2 DEF UpdateSignerSequence, Types
<1>4. PICK place \in {"check", "failed"} :
        To(d, place) /\ (place = "check" => job[d].at = "update")
  BY <1>1 DEF UpdateSignerSequence
<1>5. JobTo(d, place) /\ place \in JobPlaces
  BY <1>4, ToDoes, Names
<1>6. JobStep(d, place)
  BY <1>1, <1>3, <1>4, <1>5, PlainStep DEF Unsent, Sent
<1> QED BY <1>5, <1>6

LEMMA AnnouncementDoes ==
  ASSUME Types, NEW d \in Deposits, AccountCreated(d) \/ Exchanged(d)
  PROVE  \E place \in JobPlaces : JobStep(d, place)
<1>1. PICK e \in {"account_created", "exchanged"}, place \in {"wait", "done"} :
        /\ BroadcastEvent(dest[d], e) /\ To(d, place)
        /\ \/ job[d].at = "created" /\ e = "account_created" /\ place = "wait"
           \/ job[d].at = "exchanged" /\ e = "exchanged" /\ place = "done"
  BY DEF AccountCreated, Exchanged, JobAt
<1>2. /\ job[d].at \notin Ended
      /\ UNCHANGED <<height, dest, storeVars, up, listener>>
      /\ UNCHANGED <<signerNo, signerSeq, account, signer, accountSeq, sent>>
  BY <1>1, Names DEF AccountCreated, Exchanged, chainVars, ledgerVars
<1>3. JobTo(d, place) /\ place \in JobPlaces
  BY <1>1, ToDoes, Names
<1>4. AccountsGrow
  BY <1>2 DEF AccountsGrow, Types
<1>5. Announces(d, place)
  BY <1>1 DEF Announces, BroadcastEvent, AddEvent
<1>6. SendsOrStays(d, place)
  BY <1>1, <1>2 DEF SendsOrStays, Unsent, Sent
<1>7. JobStep(d, place)
  BY <1>1, <1>2, <1>3, <1>4, <1>5, <1>6, BroadcastFault DEF JobStep, Types
<1> QED BY <1>3, <1>7

LEMMA SignerFoundDoes ==
  ASSUME Types, NEW d \in Deposits, SignerFound(d)
  PROVE  \E place \in JobPlaces : JobStep(d, place)
<1>1. JobTo(d, "build")
  BY ToDoes, Names DEF SignerFound
<1>2. job[d].at = "wait" /\ job[d].at \notin Ended
  BY Names DEF SignerFound, JobAt
<1>3. JobStep(d, "build")
  BY <1>1, <1>2, PlainStep DEF SignerFound, Unsent, Sent, Types
<1> QED BY <1>3, Names

LEMMA AutoSequenceDoes ==
  ASSUME Types, NEW d \in Deposits,
         AutoSequence(d, "build", "send") \/ AutoSequence(d, "unbuild", "remove")
  PROVE  \E place \in JobPlaces : JobStep(d, place)
<1>1. PICK from \in {"build", "unbuild"}, next \in {"send", "remove"} :
        /\ AutoSequence(d, from, next)
        /\ from = "build" <=> next = "send"
  OBVIOUS
<1>2. /\ job[d].at = from /\ job[d].at \notin Ended
      /\ UNCHANGED <<chainVars, storeVars, events, up, listener, ledgerVars>>
      /\ signerNo' \in [Instances -> Nat]
      /\ Fault \/ UNCHANGED faults
  BY <1>1, Names DEF AutoSequence, JobAt, Types
<1>3. dest[d] \in Accounts
  BY DestType
<1>4. PICK n \in Nat : n = accountSeq[dest[d]] + 1
  BY <1>3 DEF Types
<1>5. JobTo(d, next) \/ JobTo(d, "failed")
  <2>1. CASE job' = [job EXCEPT ![d].at = next, ![d].seq = accountSeq[dest[d]] + 1]
    BY <1>4, <2>1, ToWithSeqDoes, Names
  <2>2. CASE To(d, "failed")
    BY <2>2, ToDoes, Names
  <2> QED BY <1>1, <2>1, <2>2 DEF AutoSequence
<1>6. JobStep(d, next) \/ JobStep(d, "failed")
  BY <1>1, <1>2, <1>5, PlainStep DEF Unsent, Sent
<1> QED BY <1>6, Names

LEMMA SendTokensDoes ==
  ASSUME Types, NEW d \in Deposits, SendTokens(d)
  PROVE  \E place \in JobPlaces : JobStep(d, place)
<1>1. /\ job[d].at = "send" /\ job[d].at \notin Ended
      /\ UNCHANGED <<height, dest, storeVars, up, listener, events>>
      /\ UNCHANGED <<signerNo, signerSeq, account, signer>>
  BY Names DEF SendTokens, JobAt, chainVars
<1>2. dest[d] \in Accounts
  BY DestType
<1>3. PICK place \in {"unbuild", "leave", "failed"} :
        /\ To(d, place) /\ (Fault \/ UNCHANGED faults)
        /\ \/ ApplySend(d)
           \/ UNCHANGED <<accountSeq, sent>> /\ place # "unbuild"
  BY DEF SendTokens, GivesUp, IsRejected
<1>4. JobTo(d, place) /\ place \in JobPlaces
  BY <1>3, ToDoes, Names
<1>5. accountSeq' \in [Accounts -> Nat]
  <2>1. accountSeq[dest[d]] + 1 \in Nat
    BY <1>2 DEF Types
  <2> QED BY <1>2, <1>3, <2>1 DEF ApplySend, Types
<1>6. SendsOrStays(d, place)
  BY <1>1, <1>3 DEF SendsOrStays, ApplySend, Unsent, Sent
<1>7. Announces(d, place) /\ AccountsGrow
  BY <1>1, <1>3 DEF Announces, AccountsGrow, Types
<1>8. JobStep(d, place)
  BY <1>1, <1>3, <1>4, <1>5, <1>6, <1>7 DEF JobStep, Types
<1> QED BY <1>4, <1>8

LEMMA RemoveSignerDoes ==
  ASSUME Types, NEW d \in Deposits, RemoveSigner(d)
  PROVE  \E place \in JobPlaces : JobStep(d, place)
<1>1. /\ job[d].at = "remove" /\ job[d].at \notin Ended
      /\ UNCHANGED <<height, dest, storeVars, up, listener, events>>
      /\ UNCHANGED <<signerNo, signerSeq, signer, sent>>
  BY Names DEF RemoveSigner, JobAt, chainVars
<1>2. dest[d] \in Accounts
  BY DestType
<1>3. PICK place \in {"exchanged", "leave", "failed"} :
        /\ To(d, place) /\ (Fault \/ UNCHANGED faults)
        /\ \/ ApplyRemove(d)
           \/ UNCHANGED <<accountSeq, account>> /\ place # "exchanged"
  BY DEF RemoveSigner, GivesUp, IsRejected
<1>4. JobTo(d, place) /\ place \in JobPlaces
  BY <1>3, ToDoes, Names
<1>5. accountSeq' \in [Accounts -> Nat]
  <2>1. accountSeq[dest[d]] + 1 \in Nat
    BY <1>2 DEF Types
  <2> QED BY <1>2, <1>3, <2>1 DEF ApplyRemove, Types
<1>6. AccountsGrow
  BY <1>2, <1>3 DEF AccountsGrow, ApplyRemove, AccountStates, Types
<1>7. Announces(d, place)
  BY <1>1, <1>2, <1>3 DEF Announces, ApplyRemove, Types
<1>8. SendsOrStays(d, place)
  BY <1>1, <1>3 DEF SendsOrStays, Unsent, Sent
<1>9. JobStep(d, place)
  BY <1>1, <1>3, <1>4, <1>5, <1>6, <1>7, <1>8 DEF JobStep, Types
<1> QED BY <1>4, <1>9

LEMMA ConfigureDoes ==
  ASSUME Types, NEW d \in Deposits, Configure(d)
  PROVE  \E place \in JobPlaces : JobStep(d, place)
BY CheckAccountDoes, CreateAccountDoes, UpdateSignerSequenceDoes,
   AnnouncementDoes, SignerFoundDoes, AutoSequenceDoes, SendTokensDoes,
   RemoveSignerDoes DEF Configure
-----------------------------------------------------------------------------
(* First layer: types.                                                     *)

LEMMA ListenKeepsTypes ==
  ASSUME Types, NEW i \in Instances, Listen(i)
  PROVE  Types'
<1>1. CASE GetBlock(i)
  <2>1. /\ UNCHANGED <<height, dest, lastBlock, base, processed, queue,
                       pooled, up, signerNo, signerSeq, job, account, signer>>
        /\ UNCHANGED <<accountSeq, sent, faults>>
    BY <1>1 DEF GetBlock, chainVars, storeVars, ledgerVars
  <2>2. listener' \in [Instances -> Listener]
    BY <1>1, GetBlockDoes DEF Moved
  <2> QED BY <2>1, <2>2 DEF Types
<1>2. CASE AddProcessed(i)
  <2>1. /\ UNCHANGED <<height, dest, lastBlock, base, queue, pooled, up,
                       signerNo, signerSeq, job, account, signer>>
        /\ UNCHANGED <<accountSeq, sent>>
    BY <1>2 DEF AddProcessed, chainVars, ledgerVars
  <2>2. listener' \in [Instances -> Listener] /\ faults' \in 0 .. MaxFaults
    BY <1>2, AddProcessedDoes, FaultType DEF Moved
  <2>3. processed' \in SUBSET Deposits
    <3>1. processed \in SUBSET Deposits
      BY DEF Types
    <3> QED BY <1>2, <3>1, AddProcessedDoes, ListenerFields
  <2> QED BY <2>1, <2>2, <2>3 DEF Types
<1>3. CASE QueueAdd(i)
  <2>1. /\ UNCHANGED <<height, dest, lastBlock, base, processed, pooled,
                       up, signerNo, signerSeq, job, account, signer>>
        /\ UNCHANGED <<accountSeq, sent>>
    BY <1>3 DEF QueueAdd, chainVars, ledgerVars
  <2>2. \A d \in Deposits : Enqueue(d) => queue' \in Seq(Deposits)
    BY DEF Enqueue, Types
  <2>3. /\ listener' \in [Instances -> Listener]
        /\ queue' \in Seq(Deposits)
        /\ faults' \in 0 .. MaxFaults
    BY <1>3, <2>2, QueueAddDoes, ListenerFields, FaultType DEF Moved, Types
  <2> QED BY <2>1, <2>3 DEF Types
<1>4. CASE TransactionReceived(i)
  <2>1. /\ UNCHANGED <<height, dest, lastBlock, base, processed, queue,
                       pooled, up, signerNo, signerSeq, job, account, signer>>
        /\ UNCHANGED <<accountSeq, sent>>
    BY <1>4 DEF TransactionReceived, chainVars, storeVars, ledgerVars
  <2>2. /\ listener' \in [Instances -> Listener]
        /\ faults' \in 0 .. MaxFaults
    BY <1>4, TransactionReceivedDoes, BroadcastFault, FaultType DEF Moved
  <2> QED BY <2>1, <2>2 DEF Types
<1>5. CASE SaveLastBlock(i)
  <2>1. /\ UNCHANGED <<height, dest, base, processed, queue, pooled, up, signerNo,
                       signerSeq, job, account, signer>>
        /\ UNCHANGED <<accountSeq, sent>>
    BY <1>5 DEF SaveLastBlock, chainVars, ledgerVars
  <2>2. /\ listener' \in [Instances -> Listener]
        /\ lastBlock' \in Nat
        /\ faults' \in 0 .. MaxFaults
    BY <1>5, SaveLastBlockDoes, ListenerFields, FaultType DEF Types
  <2> QED BY <2>1, <2>2 DEF Types
<1> QED BY <1>1, <1>2, <1>3, <1>4, <1>5 DEF Listen

(* A deposit leaves the queue for a job of the instance.                   *)
LEMMA QueuePoolDoes ==
  ASSUME Types, NEW i \in Instances, QueuePool(i)
  PROVE  /\ i \in up /\ queue # <<>> /\ Head(queue) \in Deposits
         /\ queue' = Tail(queue)
         /\ pooled' = pooled \cup {Head(queue)}
         /\ job' \in [Deposits -> Job]
         /\ OnlyJob(Head(queue))
         /\ job'[Head(queue)].at \in {"check", "lost"}
         /\ job'[Head(queue)].by = i
         /\ Fault \/ UNCHANGED faults
<1>0. PICK d \in Deposits : d = Head(queue)
  BY TailOfQueue DEF QueuePool, Types
<1>1. PICK place \in {"check", "lost"} :
        /\ job' = [job EXCEPT ![d] = [at |-> place, by |-> i, seq |-> 0]]
        /\ IF place = "lost" THEN Fault ELSE UNCHANGED faults
  BY <1>0 DEF QueuePool
<1>3. [at |-> place, by |-> i, seq |-> 0] \in Job
  BY Names DEF Job
<1>4. /\ job' \in [Deposits -> Job] /\ OnlyJob(d)
      /\ job'[d].at = place /\ job'[d].by = i
  BY <1>1, <1>3 DEF OnlyJob, Types
<1> QED BY <1>0, <1>1, <1>4 DEF QueuePool

LEMMA QueuePoolKeepsTypes ==
  ASSUME Types, NEW i \in Instances, QueuePool(i)
  PROVE  Types'
<1>1. /\ UNCHANGED <<height, dest, lastBlock, base, processed, up,
                     listener, signerNo, signerSeq, account, signer>>
      /\ UNCHANGED <<accountSeq, sent>>
  BY DEF QueuePool, chainVars, ledgerVars
<1>2. PICK d \in Deposits : d = Head(queue)
  BY QueuePoolDoes
<1>3. queue' \in Seq(Deposits) /\ pooled' \in SUBSET Deposits
  BY <1>2, QueuePoolDoes, TailOfQueue DEF Types
<1>4. /\ job' \in [Deposits -> Job]
      /\ \A e \in Deposits : job'[e].at \notin Ended => job'[e].by \in up
  BY <1>2, QueuePoolDoes DEF OnlyJob, Types
<1>5. faults' \in 0 .. MaxFaults
  BY QueuePoolDoes, FaultType
<1> QED BY <1>1, <1>3, <1>4, <1>5 DEF Types

LEMMA ConfigureKeepsTypes ==
  ASSUME Types, NEW d \in Deposits, Configure(d)
  PROVE  Types'
<1>1. PICK place \in JobPlaces : JobStep(d, place)
  BY ConfigureDoes
<1>2. UNCHANGED <<height, dest, lastBlock, base, processed, queue, pooled,
                  up, listener, signer>>
  BY <1>1 DEF JobStep, storeVars
<1>3. /\ job' \in [Deposits -> Job]
      /\ \A e \in Deposits : job'[e].at \notin Ended => job'[e].by \in up
  BY <1>1, <1>2, JobsTyped DEF JobStep
<1>4. sent' \in [Deposits -> Nat]
  <2>1. sent[d] + 1 \in Nat
    BY DEF Types
  <2> QED BY <1>1, <2>1 DEF JobStep, SendsOrStays, Types
<1>5. faults' \in 0 .. MaxFaults
  BY <1>1, FaultType DEF JobStep
<1> QED BY <1>1, <1>2, <1>3, <1>4, <1>5 DEF JobStep, AccountsGrow, Types

(* What the chain, the users and the operators do.                         *)
StillJobs(e) == \/ job'[e].at = job[e].at
                \/ job'[e].at = "lost" /\ job[e].at # "none"

LEMMA StartDoes ==
  ASSUME Types, NEW i \in Instances, StartInstance(i)
  PROVE  /\ i \notin up /\ up' = up \cup {i}
         /\ listener' \in [Instances -> Listener]
         /\ OnlyListener(i)
         /\ listener'[i].at = "block"
         /\ listener'[i].block = BlockToProcess
         /\ listener'[i].todo = {} /\ listener'[i].deposit = {}
<1>1. PICK n \in Nat : n = BlockToProcess
  BY BlockType DEF BlockToProcess, Types
<1>2. PICK start \in Listener :
        /\ start.at = "block" /\ start.block = n
        /\ start.todo = {} /\ start.deposit = {}
        /\ listener' = [listener EXCEPT ![i] = start]
  <2> DEFINE start == [Off EXCEPT !.at = "block", !.block = n]
  <2>1. Off \in Listener /\ Off.todo = {} /\ Off.deposit = {}
    BY Names DEF Off, Listener
  <2>2. /\ start \in Listener
        /\ start.at = "block" /\ start.block = n
        /\ start.todo = {} /\ start.deposit = {}
    BY <2>1, Names DEF Listener
  <2>3. listener' = [listener EXCEPT ![i] = start]
    BY <1>1 DEF StartInstance
  <2> HIDE DEF start
  <2> QED BY <2>2, <2>3
<1>3. /\ listener' \in [Instances -> Listener]
      /\ OnlyListener(i)
      /\ listener'[i] = start
  BY <1>2 DEF OnlyListener, Types
<1>4. /\ i \notin up /\ up' = up \cup {i}
  BY DEF StartInstance
<1> QED BY <1>1, <1>2, <1>3, <1>4

LEMMA CrashDoes ==
  ASSUME Types, NEW i \in Instances, Crash(i)
  PROVE  /\ i \in up /\ up' = up \ {i} /\ Fault
         /\ listener' \in [Instances -> Listener]
         /\ OnlyListener(i)
         /\ listener'[i] = Off /\ Off \in Listener
         /\ job' \in [Deposits -> Job]
         /\ \A e \in Deposits :
              /\ StillJobs(e)
              /\ job'[e].at \notin Ended => job'[e].by \in up'
<1>1. Off \in Listener
  BY Names DEF Off, Listener
<1>2. \A e \in Deposits : job'[e] = IF job[e].by = i /\ job[e].at \notin Ended
                                    THEN [job[e] EXCEPT !.at = "lost"] ELSE job[e]
  BY DEF Crash
<1>3. \A e \in Deposits : job'[e] \in Job
  <2>1. \A e \in Deposits : job[e] \in Job
    BY DEF Types
  <2> QED BY <1>2, <2>1, Names DEF Job
<1>4. \A e \in Deposits : job'[e].at = IF job[e].by = i /\ job[e].at \notin Ended
                                       THEN "lost" ELSE job[e].at
  <2>1. \A e \in Deposits : job[e] \in Job
    BY DEF Types
  <2> QED BY <1>2, <2>1 DEF Job
<1>5. \A e \in Deposits :
        /\ StillJobs(e)
        /\ job'[e].at \notin Ended => job'[e].by \in up'
  <2> SUFFICES ASSUME NEW e \in Deposits
               PROVE  /\ StillJobs(e)
                      /\ job'[e].at \notin Ended => job'[e].by \in up'
    OBVIOUS
  <2>1. CASE job[e].by = i /\ job[e].at \notin Ended
    <3>1. job'[e].at = "lost"
      BY <1>4, <2>1
    <3> QED BY <2>1, <3>1, Names DEF StillJobs
  <2>2. CASE ~(job[e].by = i /\ job[e].at \notin Ended)
    <3>1. job'[e] = job[e]
      BY <1>2, <2>2
    <3>2. job[e].at \notin Ended => job[e].by \in up \ {i}
      BY <2>2 DEF Types
    <3>3. up' = up \ {i}
      BY DEF Crash
    <3>4. StillJobs(e)
      BY <3>1 DEF StillJobs
    <3> QED BY <3>1, <3>2, <3>3, <3>4
  <2> QED BY <2>1, <2>2
<1>6. job' \in [Deposits -> Job]
  BY <1>3 DEF Crash
<1> QED BY <1>1, <1>5, <1>6 DEF Crash, OnlyListener, Types

LEMMA OthersKeepTypes ==
  ASSUME Types,
         \/ MineBlock \/ \E a \in Accounts : AddSigner(a)
         \/ \E i \in Instances : StartInstance(i) \/ Crash(i)
  PROVE  Types'
<1>1. CASE MineBlock
  <2>1. UNCHANGED <<lastBlock, base, processed, queue, pooled, up,
                    listener, signerNo, signerSeq, job, account, signer,
                    accountSeq, sent, faults, dest>>
    BY <1>1 DEF MineBlock, storeVars, ledgerVars
  <2>2. height' \in 1 .. MaxBlock
    BY <1>1, BlockType DEF MineBlock, Types
  <2> QED BY <2>1, <2>2 DEF Types
<1>2. ASSUME NEW a \in Accounts, AddSigner(a)
      PROVE  Types'
  <2>1. /\ UNCHANGED <<height, dest, lastBlock, base, processed, queue,
                       pooled, up, listener, signerNo, signerSeq, job, sent>>
        /\ UNCHANGED faults
    BY <1>2 DEF AddSigner, chainVars, storeVars
  <2>2. accountSeq[a] + 1 \in Nat
    BY DEF Types
  <2>3. account' \in [Accounts -> AccountStates] /\ accountSeq' \in [Accounts -> Nat]
    BY <1>2, <2>2 DEF AddSigner, AccountStates, Types
  <2>4. signer' \in [Accounts -> Instances \cup {"nobody"}]
    BY <1>2, BifrostAssumption DEF AddSigner, Types
  <2> QED BY <2>1, <2>3, <2>4 DEF Types
<1>3. ASSUME NEW i \in Instances, StartInstance(i)
      PROVE  Types'
  <2>1. /\ UNCHANGED <<height, dest, lastBlock, processed, queue, pooled,
                       signerSeq, job, account, signer, accountSeq, sent>>
        /\ UNCHANGED faults
    BY <1>3 DEF StartInstance, chainVars, ledgerVars
  <2>4. base' \in Nat
    BY <1>3 DEF StartInstance, Types
  <2>2. up' \in SUBSET Instances /\ signerNo' \in [Instances -> Nat]
        /\ up \subseteq up'
    BY <1>3 DEF StartInstance, Types
  <2>3. listener' \in [Instances -> Listener]
    BY <1>3, StartDoes
  <2> QED BY <2>1, <2>2, <2>3, <2>4 DEF Types
<1>4. ASSUME NEW i \in Instances, Crash(i)
      PROVE  Types'
  <2>1. /\ UNCHANGED <<height, dest, lastBlock, base, processed, queue,
                       pooled, signerNo, signerSeq, account, signer, accountSeq,
                       sent>>
    BY <1>4 DEF Crash, chainVars, storeVars, ledgerVars
  <2>2. /\ up' \in SUBSET Instances /\ faults' \in 0 .. MaxFaults
        /\ listener' \in [Instances -> Listener]
        /\ job' \in [Deposits -> Job]
        /\ \A e \in Deposits : job'[e].at \notin Ended => job'[e].by \in up'
    BY <1>4, CrashDoes, FaultType DEF Types
  <2> QED BY <2>1, <2>2 DEF Types
<1> QED BY <1>1, <1>2, <1>3, <1>4

LEMMA TypesHold == Spec => []Types
<1>1. Init => Types
  <2> SUFFICES ASSUME Init PROVE Types
    OBVIOUS
  <2>1. Off \in Listener /\ NoJob \in Job /\ NoJob.at \in Ended
    BY Names DEF Off, Listener, NoJob, Job
  <2>2. height \in 1 .. MaxBlock /\ faults \in 0 .. MaxFaults
    BY BlockType DEF Init
  <2>3. queue \in Seq(Deposits)
    BY DEF Init
  <2> QED BY <2>1, <2>2, <2>3 DEF Init, Types, AccountStates
<1>2. Types /\ [Next]_vars => Types'
  <2> SUFFICES ASSUME Types, [Next]_vars PROVE Types'
    OBVIOUS
  <2>1. CASE Next
    BY <2>1, ListenKeepsTypes, QueuePoolKeepsTypes, ConfigureKeepsTypes,
       OthersKeepTypes DEF Next
  <2>2. CASE UNCHANGED vars
    BY <2>2 DEF vars, chainVars, storeVars, ledgerVars, Types
  <2> QED BY <2>1, <2>2
<1> QED BY <1>1, <1>2, PTL DEF Spec

-----------------------------------------------------------------------------
(* Second layer: the queue.                                                *)

RowsInv ==
  /\ IsInjective(queue) /\ ToSet(queue) \cap pooled = {}
  /\ Queued \subseteq processed

JobsInv == \A d \in Deposits : job[d].at # "none" <=> d \in pooled

(* The deposit an instance has in its hands.                               *)
Handling(i) ==
  /\ listener[i].at = "off" <=> i \notin up
  /\ listener[i].at = "off" => listener[i].block = 0
  /\ listener[i].deposit \subseteq processed
  /\ IF listener[i].at \in {"queue", "received"}
     THEN \E d \in Deposits : listener[i].deposit = {d}
     ELSE listener[i].deposit = {}
  /\ listener[i].at = "received" => listener[i].deposit \subseteq Queued

QueueInv == RowsInv /\ JobsInv /\ \A i \in Instances : Handling(i)

LEMMA AppendToQueue ==
  ASSUME NEW q \in Seq(Deposits), IsInjective(q), NEW d \in Deposits,
         d \notin ToSet(q)
  PROVE  /\ IsInjective(Append(q, d))
         /\ ToSet(Append(q, d)) = ToSet(q) \cup {d}
<1>1. /\ Len(q) \in Nat /\ DOMAIN q = 1 .. Len(q)
      /\ DOMAIN Append(q, d) = 1 .. Len(q) + 1
      /\ \A k \in 1 .. Len(q) : Append(q, d)[k] = q[k]
      /\ Append(q, d)[Len(q) + 1] = d
  BY AppendProperties
<1>2. \A k \in 1 .. Len(q) : q[k] # d
  BY <1>1 DEF ToSet
<1>3. \A k \in 1 .. Len(q) + 1 : k \in 1 .. Len(q) \/ k = Len(q) + 1
  BY <1>1
<1>4. IsInjective(Append(q, d))
  BY <1>1, <1>2, <1>3 DEF IsInjective
<1>5. 1 .. Len(q) + 1 = (1 .. Len(q)) \cup {Len(q) + 1}
  BY <1>1
<1>6. ToSet(Append(q, d)) = ToSet(q) \cup {d}
  BY <1>1, <1>5 DEF ToSet
<1> QED BY <1>4, <1>6

LEMMA TakeFromQueue ==
  ASSUME NEW q \in Seq(Deposits), q # <<>>, IsInjective(q)
  PROVE  /\ IsInjective(Tail(q))
         /\ Head(q) \notin ToSet(Tail(q))
         /\ ToSet(q) = ToSet(Tail(q)) \cup {Head(q)}
<1>1. /\ Len(q) \in Nat /\ Len(q) >= 1 /\ DOMAIN q = 1 .. Len(q)
      /\ DOMAIN Tail(q) = 1 .. Len(q) - 1
      /\ \A k \in 1 .. Len(q) - 1 : Tail(q)[k] = q[k + 1]
      /\ Head(q) = q[1]
  BY HeadTailProperties
<1>2. \A k \in 1 .. Len(q) - 1 : k + 1 \in 1 .. Len(q) /\ k + 1 # 1
  BY <1>1
<1>3. \A k \in 1 .. Len(q) : k = 1 \/ (k - 1 \in 1 .. Len(q) - 1 /\ k = (k - 1) + 1)
  BY <1>1
<1>4. IsInjective(Tail(q))
  <2> SUFFICES ASSUME NEW j \in 1 .. Len(q) - 1, NEW k \in 1 .. Len(q) - 1,
                      q[j + 1] = q[k + 1]
               PROVE  j = k
    BY <1>1 DEF IsInjective
  <2>1. j + 1 = k + 1
    BY <1>1, <1>2 DEF IsInjective
  <2> QED BY <2>1, <1>1
<1>5. Head(q) \notin ToSet(Tail(q))
  <2> SUFFICES ASSUME NEW k \in 1 .. Len(q) - 1, q[k + 1] = q[1]
               PROVE  FALSE
    BY <1>1 DEF ToSet
  <2>1. 1 \in 1 .. Len(q)
    BY <1>1
  <2> QED BY <1>1, <1>2, <2>1 DEF IsInjective
<1>6. ToSet(Tail(q)) \cup {Head(q)} \subseteq ToSet(q)
  <2>1. 1 \in 1 .. Len(q)
    BY <1>1
  <2> QED BY <1>1, <1>2, <2>1 DEF ToSet
<1>7. ToSet(q) \subseteq ToSet(Tail(q)) \cup {Head(q)}
  <2> SUFFICES ASSUME NEW k \in 1 .. Len(q), k # 1
               PROVE  q[k] \in ToSet(Tail(q))
    BY <1>1 DEF ToSet
  <2>1. k - 1 \in 1 .. Len(q) - 1 /\ q[k] = Tail(q)[k - 1]
    BY <1>1, <1>3
  <2> QED BY <1>1, <2>1 DEF ToSet
<1> QED BY <1>4, <1>5, <1>6, <1>7

(* A recorded deposit enters the queue at most once.                       *)
LEMMA EnqueueKeepsRows ==
  ASSUME Types, RowsInv, NEW d \in processed, Enqueue(d),
         pooled' = pooled, processed' = processed
  PROVE  RowsInv' /\ Queued' = Queued \cup {d}
<1>1. CASE d \in Queued
  BY <1>1 DEF RowsInv, Enqueue, Queued
<1>2. CASE d \notin Queued
  <2>1. d \in Deposits /\ d \notin ToSet(queue) /\ d \notin pooled
        /\ queue' = Append(queue, d)
    BY <1>2 DEF Types, Enqueue, Queued
  <2>2. IsInjective(queue') /\ ToSet(queue') = ToSet(queue) \cup {d}
    BY <2>1, AppendToQueue DEF RowsInv, Types
  <2> QED BY <2>1, <2>2 DEF RowsInv, Queued
<1> QED BY <1>1, <1>2

(* A deposit that is pooled stays queued.                                  *)
LEMMA PoolKeepsRows ==
  ASSUME Types, RowsInv, queue # <<>>, queue' = Tail(queue),
         pooled' = pooled \cup {Head(queue)}, processed' = processed
  PROVE  RowsInv' /\ Queued' = Queued
<1>1. /\ IsInjective(queue') /\ Head(queue) \notin ToSet(queue')
      /\ ToSet(queue) = ToSet(queue') \cup {Head(queue)}
  BY TakeFromQueue DEF RowsInv, Types
<1> QED BY <1>1 DEF RowsInv, Queued

LEMMA OthersHandling ==
  ASSUME \A j \in Instances : Handling(j),
         NEW i \in Instances, OnlyListener(i), Handling(i)',
         \A j \in Instances : j # i => (j \in up' <=> j \in up),
         processed \subseteq processed', Queued \subseteq Queued'
  PROVE  \A j \in Instances : Handling(j)'
BY DEF OnlyListener, Handling

LEMMA ListenKeepsQueue ==
  ASSUME Types, QueueInv, NEW i \in Instances, Listen(i)
  PROVE  QueueInv'
<1>1. Handling(i) /\ up' = up /\ job' = job /\ pooled' = pooled
  BY DEF QueueInv, Listen, GetBlock, AddProcessed, QueueAdd, TransactionReceived,
         SaveLastBlock, storeVars
<1>2. CASE GetBlock(i)
  <2>1. UNCHANGED <<processed, queue, pooled>>
    BY <1>2 DEF GetBlock, storeVars
  <2>2. Handling(i)'
    BY <1>1, <1>2, <2>1, GetBlockDoes DEF Handling, Moved
  <2>3. RowsInv' /\ Queued' = Queued
    BY <2>1 DEF QueueInv, RowsInv, Queued
  <2> QED BY <1>1, <1>2, <2>1, <2>2, <2>3, GetBlockDoes, OthersHandling
          DEF QueueInv, JobsInv, Moved
<1>3. CASE AddProcessed(i)
  <2>1. UNCHANGED <<queue, pooled>> /\ listener[i].at = "rail"
    BY <1>3 DEF AddProcessed
  <2>2. PICK d \in listener[i].todo :
          \/ /\ d \in processed /\ processed' = processed
             /\ Moved(i, "rail")
             /\ listener'[i].deposit = listener[i].deposit
          \/ /\ processed' = processed \cup {d}
             /\ Moved(i, "queue")
             /\ listener'[i].deposit = {d}
          \/ /\ processed' = processed
             /\ Moved(i, "block")
             /\ listener'[i].deposit = listener[i].deposit
    BY <1>3, AddProcessedDoes
  <2>3. d \in Deposits
    BY ListenerFields
  <2>4. RowsInv' /\ Queued' = Queued /\ processed \subseteq processed'
    BY <2>1, <2>2 DEF QueueInv, RowsInv, Queued
  <2>5. Handling(i)' /\ OnlyListener(i)
    BY <1>1, <2>1, <2>2, <2>3 DEF Handling, Moved
  <2> QED BY <1>1, <2>4, <2>5, OthersHandling DEF QueueInv, JobsInv
<1>4. CASE QueueAdd(i)
  <2>1. UNCHANGED <<processed, pooled>> /\ listener[i].at = "queue"
    BY <1>4 DEF QueueAdd
  <2>2. PICK d \in listener[i].deposit :
          \/ /\ Enqueue(d)
             /\ Moved(i, "received")
             /\ listener'[i].deposit = listener[i].deposit
          \/ /\ queue' = queue
             /\ Moved(i, "block")
             /\ listener'[i].deposit = {}
    BY <1>4, QueueAddDoes
  <2>3. d \in processed /\ listener[i].deposit = {d} /\ d \in Deposits
    BY <1>1, <2>1 DEF Handling
  <2>4. RowsInv' /\ Queued \subseteq Queued' /\ (Enqueue(d) => d \in Queued')
    <3>1. CASE Enqueue(d)
      BY <2>1, <2>3, <3>1, EnqueueKeepsRows DEF QueueInv
    <3>2. CASE queue' = queue /\ ~Enqueue(d)
      BY <2>1, <3>2 DEF QueueInv, RowsInv, Queued
    <3> QED BY <2>2, <3>1, <3>2
  <2>5. Handling(i)' /\ OnlyListener(i)
    BY <1>1, <2>1, <2>2, <2>3, <2>4 DEF Handling, Moved
  <2> QED BY <1>1, <2>1, <2>4, <2>5, OthersHandling DEF QueueInv, JobsInv
<1>5. CASE TransactionReceived(i)
  <2>1. UNCHANGED <<processed, queue, pooled>>
    BY <1>5 DEF TransactionReceived, storeVars
  <2>2. Handling(i)'
    BY <1>1, <1>5, <2>1, TransactionReceivedDoes DEF Handling, Moved
  <2>3. RowsInv' /\ Queued' = Queued
    BY <2>1 DEF QueueInv, RowsInv, Queued
  <2> QED BY <1>1, <1>5, <2>1, <2>2, <2>3, TransactionReceivedDoes,
             OthersHandling DEF QueueInv, JobsInv, Moved
<1>6. CASE SaveLastBlock(i)
  <2>1. UNCHANGED <<processed, queue, pooled>>
    BY <1>6 DEF SaveLastBlock
  <2>2. Handling(i)'
    BY <1>1, <1>6, <2>1, SaveLastBlockDoes DEF Handling
  <2>3. RowsInv' /\ Queued' = Queued
    BY <2>1 DEF QueueInv, RowsInv, Queued
  <2> QED BY <1>1, <1>6, <2>1, <2>2, <2>3, SaveLastBlockDoes, OthersHandling
          DEF QueueInv, JobsInv
<1> QED BY <1>2, <1>3, <1>4, <1>5, <1>6 DEF Listen

LEMMA SameHandling ==
  ASSUME \A i \in Instances : Handling(i), UNCHANGED <<listener, up, processed>>,
         Queued' = Queued
  PROVE  \A i \in Instances : Handling(i)'
BY DEF Handling

LEMMA JobKeepsQueue ==
  ASSUME Types, QueueInv, NEW d \in Deposits, Configure(d)
  PROVE  QueueInv'
<1>1. PICK place \in JobPlaces : JobStep(d, place)
  BY ConfigureDoes
<1>2. UNCHANGED <<processed, queue, pooled, up, listener>>
  BY <1>1 DEF JobStep, storeVars
<1>3. RowsInv' /\ Queued' = Queued
  BY <1>2 DEF QueueInv, RowsInv, Queued
<1>4. JobsInv'
  BY <1>1, <1>2, Names DEF QueueInv, JobsInv, JobStep, JobTo, OnlyJob
<1> QED BY <1>2, <1>3, <1>4, SameHandling DEF QueueInv

LEMMA QueuePoolKeepsQueue ==
  ASSUME Types, QueueInv, NEW i \in Instances, QueuePool(i)
  PROVE  QueueInv'
<1>1. UNCHANGED <<processed, up, listener>>
  BY DEF QueuePool
<1>2. RowsInv' /\ Queued' = Queued
  BY <1>1, QueuePoolDoes, PoolKeepsRows DEF QueueInv
<1>3. PICK d \in Deposits : d = Head(queue)
  BY QueuePoolDoes
<1>4. JobsInv'
  BY <1>3, QueuePoolDoes DEF QueueInv, JobsInv, OnlyJob
<1> QED BY <1>1, <1>2, <1>4, SameHandling DEF QueueInv

LEMMA OthersKeepQueue ==
  ASSUME Types, QueueInv,
         \/ MineBlock \/ \E a \in Accounts : AddSigner(a)
         \/ \E i \in Instances : StartInstance(i) \/ Crash(i)
  PROVE  QueueInv'
<1>1. /\ UNCHANGED <<processed, queue, pooled>>
      /\ RowsInv' /\ Queued' = Queued
  <2>1. UNCHANGED <<processed, queue, pooled>>
    BY DEF MineBlock, AddSigner, StartInstance, Crash, storeVars
  <2> QED BY <2>1 DEF QueueInv, RowsInv, Queued
<1>2. CASE MineBlock \/ \E a \in Accounts : AddSigner(a)
  <2>1. UNCHANGED <<up, listener, job>>
    BY <1>2 DEF MineBlock, AddSigner
  <2> QED BY <1>1, <2>1, SameHandling DEF QueueInv, JobsInv
<1>3. ASSUME NEW i \in Instances, StartInstance(i)
      PROVE  QueueInv'
  <2>1. job' = job
    BY <1>3 DEF StartInstance
  <2>2. Handling(i)'
    BY <1>3, StartDoes DEF Handling
  <2> QED BY <1>1, <1>3, <2>1, <2>2, StartDoes, OthersHandling
          DEF QueueInv, JobsInv
<1>4. ASSUME NEW i \in Instances, Crash(i)
      PROVE  QueueInv'
  <2>1. Handling(i)'
    BY <1>4, CrashDoes DEF Handling, Off
  <2>2. JobsInv'
    BY <1>1, <1>4, CrashDoes DEF QueueInv, JobsInv, StillJobs
  <2> QED BY <1>1, <1>4, <2>1, <2>2, CrashDoes, OthersHandling DEF QueueInv
<1> QED BY <1>2, <1>3, <1>4

LEMMA QueueHolds == Spec => []QueueInv
<1>1. Init => QueueInv
  <2> SUFFICES ASSUME Init PROVE QueueInv
    OBVIOUS
  <2>1. DOMAIN queue = {} /\ pooled = {} /\ up = {}
    BY DEF Init
  <2>2. RowsInv
    BY <2>1 DEF RowsInv, Queued, ToSet, IsInjective
  <2>3. JobsInv
    BY <2>1 DEF JobsInv, Init, NoJob
  <2>4. \A i \in Instances : Handling(i)
    BY <2>1 DEF Init, Off, Handling
  <2> QED BY <2>2, <2>3, <2>4 DEF QueueInv
<1>2. Types /\ QueueInv /\ [Next]_vars => QueueInv'
  <2> SUFFICES ASSUME Types, QueueInv, [Next]_vars PROVE QueueInv'
    OBVIOUS
  <2>1. CASE Next
    BY <2>1, ListenKeepsQueue, QueuePoolKeepsQueue, JobKeepsQueue,
       OthersKeepQueue DEF Next
  <2>2. CASE UNCHANGED vars
    <3>1. UNCHANGED <<processed, queue, pooled, up, listener, job>>
      BY <2>2 DEF vars, storeVars
    <3> QED BY <3>1, SameHandling DEF QueueInv, RowsInv, JobsInv, Queued
  <2> QED BY <2>1, <2>2
<1> QED BY <1>1, <1>2, TypesHold, PTL DEF Spec

-----------------------------------------------------------------------------
(* Third layer: what the jobs have sent.                                   *)

SentInv ==
  \A d \in Deposits :
    /\ sent[d] \in 0 .. 1
    /\ job[d].at \in Unsent => sent[d] = 0
    /\ job[d].at \in Sent => sent[d] = 1

(* A deposit that is taken off the queue has no job yet.                   *)
LEMMA PooledIsNew ==
  ASSUME Types, QueueInv, NEW i \in Instances, QueuePool(i)
  PROVE  job[Head(queue)].at = "none"
<1>1. Head(queue) \in ToSet(queue)
  BY QueuePoolDoes, TakeFromQueue DEF QueueInv, RowsInv, Types
<1> QED BY <1>1, QueuePoolDoes DEF QueueInv, RowsInv, JobsInv

LEMMA JobKeepsSent ==
  ASSUME Types, SentInv, NEW d \in Deposits, Configure(d)
  PROVE  SentInv' /\ \A e \in Deposits : sent[e] = 1 => sent'[e] = 1
<1>1. PICK place \in JobPlaces : JobStep(d, place)
  BY ConfigureDoes
<1>2. /\ \A e \in Deposits : e # d => job'[e] = job[e]
      /\ job'[d].at = place
  BY <1>1 DEF JobStep, JobTo, OnlyJob
<1>3. CASE /\ job[d].at = "send" /\ place \notin Unsent
           /\ sent' = [sent EXCEPT ![d] = @ + 1]
  <2>1. sent[d] = 0
    BY <1>3 DEF SentInv, Unsent
  <2>2. sent' = [sent EXCEPT ![d] = 1]
    BY <1>3, <2>1
  <2>3. sent'[d] = 1 /\ \A e \in Deposits : e # d => sent'[e] = sent[e]
    BY <2>2 DEF Types
  <2> QED BY <1>2, <1>3, <2>1, <2>3 DEF SentInv
<1>4. CASE /\ sent' = sent
           /\ place \in Unsent => job[d].at \in Unsent
           /\ place \in Sent => job[d].at \in Sent
  BY <1>2, <1>4 DEF SentInv
<1> QED BY <1>1, <1>3, <1>4 DEF JobStep, SendsOrStays

LEMMA OthersKeepSent ==
  ASSUME Types, QueueInv, SentInv,
         \/ MineBlock \/ \E a \in Accounts : AddSigner(a)
         \/ \E i \in Instances : \/ StartInstance(i) \/ Crash(i) \/ Listen(i)
                                 \/ QueuePool(i)
  PROVE  SentInv' /\ sent' = sent
<1>1. sent' = sent
  BY DEF MineBlock, AddSigner, StartInstance, Crash, Listen, GetBlock,
         AddProcessed, QueueAdd, TransactionReceived, SaveLastBlock, QueuePool,
         ledgerVars
<1>2. CASE \/ MineBlock \/ \E a \in Accounts : AddSigner(a)
           \/ \E i \in Instances : StartInstance(i) \/ Listen(i)
  <2>1. job' = job
    BY <1>2 DEF MineBlock, AddSigner, StartInstance, Listen, GetBlock,
                AddProcessed, QueueAdd, TransactionReceived, SaveLastBlock
  <2> QED BY <1>1, <2>1 DEF SentInv
<1>3. ASSUME NEW i \in Instances, Crash(i)
      PROVE  SentInv'
  BY <1>1, <1>3, CrashDoes DEF SentInv, StillJobs, Unsent, Sent
<1>4. ASSUME NEW i \in Instances, QueuePool(i)
      PROVE  SentInv'
  <2>1. PICK d \in Deposits : d = Head(queue)
    BY <1>4, QueuePoolDoes
  <2>2. /\ job[d].at = "none" /\ job'[d].at \in {"check", "lost"}
        /\ \A e \in Deposits : e # d => job'[e] = job[e]
    BY <1>4, <2>1, PooledIsNew, QueuePoolDoes DEF OnlyJob
  <2> QED BY <1>1, <2>2 DEF SentInv, Unsent, Sent
<1> QED BY <1>1, <1>2, <1>3, <1>4

LEMMA SentHolds == Spec => []SentInv
<1>1. Init => SentInv
  BY DEF Init, SentInv, NoJob, Unsent, Sent
<1>2. Types /\ QueueInv /\ SentInv /\ [Next]_vars => SentInv'
  <2> SUFFICES ASSUME Types, QueueInv, SentInv, [Next]_vars PROVE SentInv'
    OBVIOUS
  <2>1. CASE Next
    BY <2>1, JobKeepsSent, OthersKeepSent DEF Next
  <2>2. CASE UNCHANGED vars
    BY <2>2 DEF vars, ledgerVars, SentInv
  <2> QED BY <2>1, <2>2
<1> QED BY <1>1, <1>2, TypesHold, QueueHolds, PTL DEF Spec

-----------------------------------------------------------------------------
(* Fourth layer: the blocks.                                               *)

SavedInv ==
  lastBlock <= height /\ base <= height

(* What a listener has behind it, from the base on, is recorded; of the    *)
(* block it is at, what it does not hold is.                               *)
Walk(i) ==
  /\ listener[i].block \in 1 .. height + 1
  /\ listener[i].at # "block" =>
       /\ listener[i].block <= height
       /\ \A d \in Deposits : Block[d] = listener[i].block =>
            d \in listener[i].todo \cup processed
  /\ \A d \in Deposits :
       base <= Block[d] /\ Block[d] < listener[i].block => d \in processed

BlockInv == SavedInv /\ NoDepositSkipped /\ \A i \in up : Walk(i)

(* The walks of the listeners that do not move.                            *)
LEMMA OthersWalk ==
  ASSUME Types, \A j \in up : Walk(j), NEW i \in Instances, OnlyListener(i),
         height' = height, base \in Nat, base' \in Nat, base <= base',
         processed \subseteq processed'
  PROVE  \A j \in up : j # i => Walk(j)'
<1> SUFFICES ASSUME NEW j \in up, j # i PROVE Walk(j)'
  OBVIOUS
<1>1. Walk(j) /\ listener'[j] = listener[j]
  BY DEF OnlyListener, Types
<1>2. \A d \in Deposits : base' <= Block[d] => base <= Block[d]
  BY BlockType
<1> QED BY <1>1, <1>2 DEF Walk

LEMMA SavedKept ==
  ASSUME SavedInv, NoDepositSkipped,
         UNCHANGED <<height, lastBlock, base, up>>,
         processed \subseteq processed'
  PROVE  SavedInv' /\ NoDepositSkipped'
BY DEF SavedInv, NoDepositSkipped

LEMMA ListenerIsUp ==
  ASSUME Types, QueueInv, NEW i \in Instances, listener[i].at # "off"
  PROVE  i \in up
BY DEF QueueInv, Handling

(* The steps within a block.                                               *)
LEMMA RailKeepsBlock ==
  ASSUME Types, QueueInv, BlockInv, NEW i \in Instances,
         GetBlock(i) \/ AddProcessed(i) \/ QueueAdd(i) \/ TransactionReceived(i)
  PROVE  BlockInv'
<1>1. UNCHANGED <<height, lastBlock, base, up>>
  BY DEF GetBlock, AddProcessed, QueueAdd, TransactionReceived, chainVars,
         storeVars
<1>2. i \in up /\ Walk(i) /\ Handling(i)
  <2>1. listener[i].at # "off"
    BY DEF GetBlock, AddProcessed, QueueAdd, TransactionReceived
  <2> QED BY <2>1, ListenerIsUp DEF BlockInv, QueueInv
<1>3. /\ OnlyListener(i)
      /\ processed \subseteq processed'
      /\ listener'[i].block = listener[i].block
      /\ listener'[i].at # "block" =>
           /\ listener[i].block <= height
           /\ \A d \in Deposits : Block[d] = listener[i].block =>
                d \in listener'[i].todo \cup processed'
  <2>1. CASE GetBlock(i)
    <3>1. processed' = processed
      BY <2>1 DEF GetBlock, storeVars
    <3> QED BY <2>1, <3>1, GetBlockDoes DEF Moved
  <2>2. CASE AddProcessed(i)
    BY <1>2, <2>2, AddProcessedDoes DEF Moved, Walk
  <2>3. CASE QueueAdd(i)
    <3>1. processed' = processed
      BY <2>3 DEF QueueAdd
    <3> QED BY <1>2, <2>3, <3>1, QueueAddDoes DEF Moved, Walk
  <2>4. CASE TransactionReceived(i)
    <3>1. processed' = processed
      BY <2>4 DEF TransactionReceived, storeVars
    <3>2. listener[i].deposit \subseteq processed
      BY <1>2 DEF Handling
    <3> QED BY <1>2, <2>4, <3>1, <3>2, TransactionReceivedDoes DEF Moved, Walk
  <2> QED BY <2>1, <2>2, <2>3, <2>4
<1>4. Walk(i)'
  <2>1. /\ height' = height /\ base' = base
        /\ listener'[i].block = listener[i].block
    BY <1>1, <1>3
  <2> QED BY <1>2, <1>3, <2>1 DEF Walk
<1>5. base \in Nat /\ base' \in Nat /\ base <= base'
  BY <1>1 DEF Types
<1> QED BY <1>1, <1>2, <1>3, <1>4, <1>5, OthersWalk, SavedKept DEF BlockInv

(* A block is saved, or its saving fails, when everything in it is         *)
(* recorded.                                                               *)
LEMMA SaveKeepsBlock ==
  ASSUME Types, QueueInv, BlockInv, NEW i \in Instances, SaveLastBlock(i)
  PROVE  BlockInv'
<1>1. /\ UNCHANGED <<height, up, base, processed>>
      /\ listener[i].at = "rail" /\ listener[i].todo = {}
  BY DEF SaveLastBlock, chainVars
<1>2. i \in up /\ Walk(i)
  BY <1>1, ListenerIsUp DEF BlockInv
<1>3. PICK b \in Nat : b = listener[i].block
  BY ListenerFields
<1>4. /\ b >= 1 /\ b <= height
      /\ \A d \in Deposits : Block[d] = b => d \in processed
      /\ \A d \in Deposits : base <= Block[d] /\ Block[d] < b => d \in processed
  BY <1>1, <1>2, <1>3 DEF Walk, Types
<1>5. listener'[i].at = "block" /\ listener'[i].block = b + 1 /\ OnlyListener(i)
  BY <1>3, SaveLastBlockDoes
<1>6. /\ height \in Nat /\ lastBlock \in Nat /\ base \in Nat
      /\ \A d \in Deposits : Block[d] \in Nat
  BY BlockType DEF Types
<1>7. Walk(i)'
  BY <1>1, <1>4, <1>5, <1>6 DEF Walk
<1>8. \A j \in up : Walk(j)'
  BY <1>1, <1>5, <1>6, <1>7, OthersWalk DEF BlockInv
<1>9. CASE UNCHANGED lastBlock
  BY <1>1, <1>8, <1>9, SavedKept DEF BlockInv
<1>10. CASE lastBlock' = IF b > lastBlock THEN b ELSE lastBlock
  <2>1. lastBlock' <= height /\ lastBlock' \in {lastBlock, b}
    BY <1>4, <1>6, <1>10 DEF BlockInv, SavedInv
  <2>2. SavedInv'
    BY <1>1, <2>1 DEF BlockInv, SavedInv
  <2>3. NoDepositSkipped'
    BY <1>1, <1>4, <1>6, <2>1 DEF BlockInv, NoDepositSkipped
  <2> QED BY <1>1, <1>8, <2>2, <2>3 DEF BlockInv
<1> QED BY <1>3, <1>9, <1>10, SaveLastBlockDoes

LEMMA StartKeepsBlock ==
  ASSUME Types, BlockInv, NEW i \in Instances, StartInstance(i)
  PROVE  BlockInv'
<1>1. /\ UNCHANGED <<height, lastBlock, processed>>
      /\ up' = up \cup {i} /\ base' = (IF lastBlock = 0 THEN height ELSE base)
      /\ OnlyListener(i) /\ i \notin up
      /\ listener'[i].at = "block"
  BY StartDoes DEF StartInstance, chainVars
<1>2. /\ height \in Nat /\ height >= 1 /\ lastBlock \in Nat /\ base \in Nat
      /\ \A d \in Deposits : Block[d] \in Nat /\ Block[d] >= 1
  BY BlockType DEF Types
<1>3. PICK b \in Nat : /\ b = listener'[i].block
                       /\ b = IF lastBlock > 0 THEN lastBlock + 1 ELSE height
  BY <1>2, StartDoes DEF BlockToProcess
<1>4. lastBlock <= height /\ base <= height /\ base <= base' /\ base' \in Nat
  BY <1>1, <1>2 DEF BlockInv, SavedInv
<1>5. Walk(i)'
  <2>1. b \in 1 .. height + 1
    BY <1>2, <1>3, <1>4
  <2>2. \A d \in Deposits : base' <= Block[d] /\ Block[d] < b => d \in processed
    BY <1>1, <1>2, <1>3 DEF BlockInv, NoDepositSkipped
  <2> QED BY <1>1, <1>3, <2>1, <2>2 DEF Walk
<1>6. \A j \in up : Walk(j)'
  BY <1>1, <1>2, <1>4, OthersWalk DEF BlockInv
<1>7. SavedInv'
  BY <1>1, <1>4 DEF SavedInv
<1>8. NoDepositSkipped'
  BY <1>1, <1>2 DEF BlockInv, NoDepositSkipped
<1> QED BY <1>1, <1>5, <1>6, <1>7, <1>8 DEF BlockInv

LEMMA CrashKeepsBlock ==
  ASSUME Types, BlockInv, NEW i \in Instances, Crash(i)
  PROVE  BlockInv'
<1>1. /\ UNCHANGED <<height, lastBlock, base, processed>>
      /\ up' = up \ {i} /\ OnlyListener(i)
  BY CrashDoes DEF Crash, chainVars, storeVars
<1>4. base \in Nat /\ base' \in Nat /\ base <= base'
  BY <1>1 DEF Types
<1>2. \A j \in up : j # i => Walk(j)'
  BY <1>1, <1>4, OthersWalk DEF BlockInv
<1>3. SavedInv' /\ NoDepositSkipped'
  BY <1>1 DEF BlockInv, SavedInv, NoDepositSkipped
<1> QED BY <1>1, <1>2, <1>3 DEF BlockInv

LEMMA MineKeepsBlock ==
  ASSUME Types, BlockInv, MineBlock
  PROVE  BlockInv'
<1>1. /\ UNCHANGED <<lastBlock, base, processed, up, listener>>
      /\ height' = height + 1 /\ height \in Nat /\ lastBlock \in Nat
      /\ base \in Nat
  BY DEF MineBlock, storeVars, Types
<1>2. SavedInv' /\ NoDepositSkipped'
  BY <1>1 DEF BlockInv, SavedInv, NoDepositSkipped
<1>3. ASSUME NEW i \in up PROVE Walk(i)'
  <2>1. Walk(i) /\ listener[i].block \in Nat
    BY ListenerFields DEF BlockInv, Types
  <2> QED BY <1>1, <2>1 DEF Walk
<1> QED BY <1>1, <1>2, <1>3 DEF BlockInv

LEMMA SameBlocks ==
  ASSUME BlockInv,
         UNCHANGED <<height, lastBlock, base, processed, up, listener>>
  PROVE  BlockInv'
BY DEF BlockInv, SavedInv, NoDepositSkipped, Walk

LEMMA OthersKeepBlock ==
  ASSUME Types, BlockInv,
         \/ \E a \in Accounts : AddSigner(a)
         \/ \E i \in Instances : QueuePool(i)
         \/ \E d \in Deposits : Configure(d)
  PROVE  BlockInv'
<1>1. CASE \E a \in Accounts : AddSigner(a)
  BY <1>1, SameBlocks DEF AddSigner, chainVars, storeVars
<1>2. CASE \E i \in Instances : QueuePool(i)
  BY <1>2, SameBlocks DEF QueuePool, chainVars
<1>3. CASE \E d \in Deposits : Configure(d)
  BY <1>3, SameBlocks, ConfigureDoes DEF JobStep, storeVars
<1> QED BY <1>1, <1>2, <1>3

LEMMA BlocksHold == Spec => []BlockInv
<1>1. Init => BlockInv
  BY BlockType DEF Init, BlockInv, SavedInv, NoDepositSkipped
<1>2. Types /\ QueueInv /\ BlockInv /\ [Next]_vars => BlockInv'
  <2> SUFFICES ASSUME Types, QueueInv, BlockInv, [Next]_vars PROVE BlockInv'
    OBVIOUS
  <2>1. CASE Next
    BY <2>1, RailKeepsBlock, SaveKeepsBlock, StartKeepsBlock, CrashKeepsBlock,
       MineKeepsBlock, OthersKeepBlock DEF Next, Listen
  <2>2. CASE UNCHANGED vars
    BY <2>2, SameBlocks DEF vars, chainVars, storeVars
  <2> QED BY <2>1, <2>2
<1> QED BY <1>1, <1>2, TypesHold, QueueHolds, PTL DEF Spec

-----------------------------------------------------------------------------
(* Fifth layer: what the events say.                                       *)

(* A job that is about to announce something has it behind it.             *)
ReadyInv ==
  \A d \in Deposits :
    /\ job[d].at = "created" => account[dest[d]] # "absent"
    /\ job[d].at = "exchanged" => account[dest[d]] = "released"

ToldInv == ReadyInv /\ EventsAreTrue

(* What is so of an account stays so, and an event is added when it is so. *)
LEMMA EventsStayTrue ==
  ASSUME EventsAreTrue, dest' = dest, Queued \subseteq Queued',
         \A a \in Accounts :
           /\ account[a] # "absent" => account'[a] # "absent"
           /\ account[a] = "released" => account'[a] = "released",
         \A d \in Deposits : sent[d] = 1 => sent'[d] = 1,
         \A a \in Accounts :
           /\ <<a, "transaction_received">> \in events' =>
                \/ <<a, "transaction_received">> \in events
                \/ \E d \in Queued : dest[d] = a
           /\ <<a, "account_created">> \in events' =>
                <<a, "account_created">> \in events \/ account[a] # "absent"
           /\ <<a, "exchanged">> \in events' =>
                \/ <<a, "exchanged">> \in events
                \/ account[a] = "released" /\ \E d \in Deposits : dest[d] = a /\ sent[d] = 1
  PROVE  EventsAreTrue'
<1> SUFFICES ASSUME NEW a \in Accounts
             PROVE  /\ <<a, "transaction_received">> \in events' =>
                         \E d \in Queued' : dest[d] = a
                    /\ <<a, "account_created">> \in events' => account'[a] # "absent"
                    /\ <<a, "exchanged">> \in events' =>
                         /\ account'[a] = "released"
                         /\ \E d \in Deposits : dest[d] = a /\ sent'[d] = 1
  BY DEF EventsAreTrue
<1>1. <<a, "transaction_received">> \in events' => \E d \in Queued' : dest[d] = a
  BY DEF EventsAreTrue
<1>2. <<a, "account_created">> \in events' => account'[a] # "absent"
  BY DEF EventsAreTrue
<1>3. <<a, "exchanged">> \in events' =>
        /\ account'[a] = "released"
        /\ \E d \in Deposits : dest[d] = a /\ sent'[d] = 1
  BY DEF EventsAreTrue
<1> QED BY <1>1, <1>2, <1>3

LEMMA JobKeepsTold ==
  ASSUME Types, SentInv, ToldInv, NEW d \in Deposits, Configure(d)
  PROVE  ToldInv'
<1>1. PICK place \in JobPlaces : JobStep(d, place)
  BY ConfigureDoes
<1>2. /\ dest' = dest /\ Queued' = Queued
      /\ \A a \in Accounts :
           /\ account[a] # "absent" => account'[a] # "absent"
           /\ account[a] = "released" => account'[a] = "released"
      /\ \A e \in Deposits : e # d => job'[e] = job[e]
      /\ job'[d].at = place
      /\ Announces(d, place)
  BY <1>1 DEF JobStep, JobTo, OnlyJob, AccountsGrow, storeVars, Queued
<1>3. \A e \in Deposits : sent[e] = 1 => sent'[e] = 1
  BY JobKeepsSent
<1>4. \A e \in Deposits : dest[e] \in Accounts
  BY DestType
<1>5. ReadyInv'
  BY <1>2, <1>4 DEF ToldInv, ReadyInv, Announces
<1>6. job[d].at = "created" => account[dest[d]] # "absent"
  BY DEF ToldInv, ReadyInv
<1>7. job[d].at = "exchanged" => account[dest[d]] = "released" /\ sent[d] = 1
  BY DEF ToldInv, ReadyInv, SentInv, Sent
<1>8. \A a \in Accounts :
        /\ <<a, "transaction_received">> \in events' =>
             <<a, "transaction_received">> \in events
        /\ <<a, "account_created">> \in events' =>
             <<a, "account_created">> \in events \/ account[a] # "absent"
        /\ <<a, "exchanged">> \in events' =>
             \/ <<a, "exchanged">> \in events
             \/ account[a] = "released" /\ \E e \in Deposits : dest[e] = a /\ sent[e] = 1
  BY <1>2, <1>6, <1>7 DEF Announces
<1>9. EventsAreTrue'
  BY <1>2, <1>3, <1>8, EventsStayTrue DEF ToldInv
<1> QED BY <1>5, <1>9 DEF ToldInv

(* A step that changes neither accounts nor events.                        *)
LEMMA QuietStep ==
  ASSUME EventsAreTrue, Queued \subseteq Queued',
         UNCHANGED <<dest, account, sent, events>>
  PROVE  EventsAreTrue'
BY EventsStayTrue DEF EventsAreTrue

LEMMA ReadyKept ==
  ASSUME ReadyInv, UNCHANGED <<dest, account>>,
         \A d \in Deposits : \/ job'[d].at = job[d].at
                             \/ job'[d].at \in {"check", "lost"}
  PROVE  ReadyInv'
BY DEF ReadyInv

LEMMA ListenKeepsTold ==
  ASSUME Types, QueueInv, ToldInv, NEW i \in Instances, Listen(i)
  PROVE  ToldInv'
<1>1. UNCHANGED <<dest, account, sent, job>>
  BY DEF Listen, GetBlock, AddProcessed, QueueAdd, TransactionReceived,
         SaveLastBlock, chainVars, ledgerVars
<1>2. ReadyInv'
  BY <1>1, ReadyKept DEF ToldInv
<1>3. CASE GetBlock(i) \/ AddProcessed(i) \/ SaveLastBlock(i)
  <2>1. events' = events /\ Queued' = Queued
    BY <1>3 DEF GetBlock, AddProcessed, SaveLastBlock, storeVars, Queued
  <2> QED BY <1>1, <1>2, <2>1, QuietStep DEF ToldInv
<1>4. CASE QueueAdd(i)
  <2>1. events' = events /\ pooled' = pooled /\ processed' = processed
        /\ listener[i].at = "queue"
    BY <1>4 DEF QueueAdd
  <2>2. Queued \subseteq Queued'
    <3>1. PICK d \in listener[i].deposit : Enqueue(d) \/ queue' = queue
      BY <1>4, QueueAddDoes
    <3>2. d \in processed
      BY <2>1 DEF QueueInv, Handling
    <3>3. CASE Enqueue(d)
      BY <2>1, <3>2, <3>3, EnqueueKeepsRows DEF QueueInv
    <3>4. CASE queue' = queue
      BY <2>1, <3>4 DEF Queued
    <3> QED BY <3>1, <3>3, <3>4
  <2> QED BY <1>1, <1>2, <2>1, <2>2, QuietStep DEF ToldInv
<1>5. CASE TransactionReceived(i)
  <2>1. Queued' = Queued
    BY <1>5 DEF TransactionReceived, storeVars, Queued
  <2>2. PICK d \in listener[i].deposit :
          BroadcastEvent(dest[d], "transaction_received")
    BY <1>5, TransactionReceivedDoes
  <2>3. d \in Queued
    BY <1>5, TransactionReceivedDoes DEF QueueInv, Handling
  <2>4. \A a \in Accounts :
          /\ <<a, "transaction_received">> \in events' =>
               \/ <<a, "transaction_received">> \in events
               \/ \E e \in Queued : dest[e] = a
          /\ <<a, "account_created">> \in events' => <<a, "account_created">> \in events
          /\ <<a, "exchanged">> \in events' => <<a, "exchanged">> \in events
    BY <2>2, <2>3 DEF BroadcastEvent, AddEvent
  <2>5. EventsAreTrue'
    BY <1>1, <2>1, <2>4, EventsStayTrue DEF ToldInv
  <2> QED BY <1>2, <2>5 DEF ToldInv
<1> QED BY <1>3, <1>4, <1>5 DEF Listen

LEMMA OthersKeepTold ==
  ASSUME Types, QueueInv, ToldInv,
         \/ MineBlock \/ \E a \in Accounts : AddSigner(a)
         \/ \E i \in Instances : StartInstance(i) \/ Crash(i) \/ QueuePool(i)
  PROVE  ToldInv'
<1>1. CASE MineBlock \/ \E i \in Instances : StartInstance(i)
  <2>1. UNCHANGED <<dest, account, sent, job, events>> /\ Queued' = Queued
    BY <1>1 DEF MineBlock, StartInstance, chainVars, storeVars, ledgerVars, Queued
  <2> QED BY <2>1, QuietStep, ReadyKept DEF ToldInv
<1>2. ASSUME NEW i \in Instances, Crash(i)
      PROVE  ToldInv'
  <2>1. UNCHANGED <<dest, account, sent, events>> /\ Queued' = Queued
    BY <1>2 DEF Crash, chainVars, storeVars, ledgerVars, Queued
  <2>2. \A d \in Deposits : job'[d].at = job[d].at \/ job'[d].at = "lost"
    BY <1>2, CrashDoes DEF StillJobs
  <2> QED BY <2>1, <2>2, QuietStep, ReadyKept DEF ToldInv
<1>3. ASSUME NEW i \in Instances, QueuePool(i)
      PROVE  ToldInv'
  <2>1. UNCHANGED <<dest, account, sent, events, processed>>
    BY <1>3 DEF QueuePool, chainVars, ledgerVars
  <2>2. Queued' = Queued
    BY <1>3, <2>1, QueuePoolDoes, PoolKeepsRows DEF QueueInv
  <2>3. \A d \in Deposits : \/ job'[d].at = job[d].at
                            \/ job'[d].at \in {"check", "lost"}
    <3>1. PICK e \in Deposits : e = Head(queue)
      BY <1>3, QueuePoolDoes
    <3> QED BY <1>3, <3>1, QueuePoolDoes DEF OnlyJob
  <2> QED BY <2>1, <2>2, <2>3, QuietStep, ReadyKept DEF ToldInv
<1>4. ASSUME NEW a \in Accounts, AddSigner(a)
      PROVE  ToldInv'
  <2>1. UNCHANGED <<dest, sent, job, events>> /\ Queued' = Queued
    BY <1>4 DEF AddSigner, chainVars, storeVars, Queued
  <2>2. \A b \in Accounts :
          /\ account[b] # "absent" => account'[b] # "absent"
          /\ account[b] = "released" => account'[b] = "released"
    BY <1>4 DEF AddSigner, Types
  <2>3. EventsAreTrue'
    BY <2>1, <2>2, EventsStayTrue DEF ToldInv
  <2>4. ReadyInv'
    BY <2>1, <2>2, DestType DEF ToldInv, ReadyInv
  <2> QED BY <2>3, <2>4 DEF ToldInv
<1> QED BY <1>1, <1>2, <1>3, <1>4

LEMMA ToldHolds == Spec => []ToldInv
<1>1. Init => ToldInv
  BY DEF Init, ToldInv, ReadyInv, EventsAreTrue, NoJob
<1>2. Types /\ QueueInv /\ SentInv /\ ToldInv /\ [Next]_vars => ToldInv'
  <2> SUFFICES ASSUME Types, QueueInv, SentInv, ToldInv, [Next]_vars
               PROVE  ToldInv'
    OBVIOUS
  <2>1. CASE Next
    BY <2>1, JobKeepsTold, ListenKeepsTold, OthersKeepTold DEF Next
  <2>2. CASE UNCHANGED vars
    <3>1. UNCHANGED <<dest, account, sent, job, events>> /\ Queued' = Queued
      BY <2>2 DEF vars, chainVars, storeVars, ledgerVars, Queued
    <3> QED BY <3>1, QuietStep, ReadyKept DEF ToldInv
  <2> QED BY <2>1, <2>2
<1> QED BY <1>1, <1>2, TypesHold, QueueHolds, SentHolds, PTL DEF Spec

-----------------------------------------------------------------------------
(* Every step is one of Exchange, or changes nothing that Exchange sees.   *)

LEMMA Unseen ==
  ASSUME UNCHANGED <<dest, processed, queue, pooled, account, sent, events>>
  PROVE  [E!Next]_(E!vars)
BY DEF E!vars

LEMMA AnnouncementRefines ==
  ASSUME UNCHANGED <<dest, processed, queue, pooled, account, sent>>,
         NEW d \in Deposits, NEW e \in E!Events,
         BroadcastEvent(dest[d], e), E!IsSo(d, e)
  PROVE  [E!Next]_(E!vars)
<1>1. CASE AddEvent(dest[d], e)
  BY <1>1 DEF AddEvent, E!Announce, E!Next
<1>2. CASE UNCHANGED events
  BY <1>2, Unseen
<1> QED BY <1>1, <1>2 DEF BroadcastEvent

LEMMA ListenRefines ==
  ASSUME Types, QueueInv, NEW i \in Instances, Listen(i)
  PROVE  [E!Next]_(E!vars)
<1>1. /\ UNCHANGED <<dest, pooled, account, sent>>
      /\ listener[i].deposit \subseteq processed
      /\ listener[i].todo \subseteq Deposits /\ listener[i].deposit \subseteq Deposits
  BY ListenerFields
     DEF Listen, GetBlock, AddProcessed, QueueAdd, TransactionReceived,
         SaveLastBlock, chainVars, storeVars, ledgerVars, QueueInv, Handling
<1>2. CASE GetBlock(i) \/ SaveLastBlock(i)
  <2>1. UNCHANGED <<processed, queue, events>>
    BY <1>2 DEF GetBlock, SaveLastBlock, storeVars
  <2> QED BY <1>1, <2>1, Unseen
<1>3. CASE AddProcessed(i)
  <2>1. UNCHANGED <<queue, events>>
    BY <1>3 DEF AddProcessed
  <2>2. PICK d \in Deposits : \/ processed' = processed
                              \/ processed' = processed \cup {d}
    BY <1>1, <1>3, AddProcessedDoes
  <2>3. CASE processed' = processed \/ d \in processed
    <3>1. processed' = processed
      BY <2>2, <2>3
    <3> QED BY <1>1, <2>1, <3>1, Unseen
  <2>4. CASE processed' = processed \cup {d} /\ d \notin processed
    BY <1>1, <2>1, <2>4 DEF E!Record, E!Next
  <2> QED BY <2>2, <2>3, <2>4
<1>4. CASE QueueAdd(i)
  <2>1. UNCHANGED <<processed, events>>
    BY <1>4 DEF QueueAdd
  <2>2. PICK d \in listener[i].deposit : Enqueue(d) \/ queue' = queue
    BY <1>4, QueueAddDoes
  <2>3. CASE queue' = queue
    BY <1>1, <2>1, <2>3, Unseen
  <2>4. CASE d \notin Queued /\ queue' = Append(queue, d)
    BY <1>1, <2>1, <2>4 DEF Queued, ToSet, E!ToSet, E!Join, E!Next
  <2> QED BY <2>2, <2>3, <2>4 DEF Enqueue
<1>5. CASE TransactionReceived(i)
  <2>1. UNCHANGED <<processed, queue>>
    BY <1>5 DEF TransactionReceived, storeVars
  <2>2. PICK d \in listener[i].deposit :
          BroadcastEvent(dest[d], "transaction_received")
    BY <1>5, TransactionReceivedDoes
  <2>3. d \in Queued
    BY <1>5, TransactionReceivedDoes DEF QueueInv, Handling
  <2>4. E!IsSo(d, "transaction_received")
    BY <2>3 DEF Queued, ToSet, E!ToSet, E!IsSo
  <2> QED BY <1>1, <2>1, <2>2, <2>4, AnnouncementRefines DEF E!Events
<1> QED BY <1>2, <1>3, <1>4, <1>5 DEF Listen

(* A job that runs works for a deposit that was taken, and it sends its    *)
(* tokens for the first time.                                              *)
LEMMA JobRefines ==
  ASSUME Types, QueueInv, SentInv, ToldInv, NEW d \in Deposits, Configure(d)
  PROVE  [E!Next]_(E!vars)
<1>1. UNCHANGED <<dest, processed, queue, pooled>>
  BY DEF Configure, CheckAccount, CreateAccount, UpdateSignerSequence,
         AccountCreated, SignerFound, AutoSequence, SendTokens, RemoveSigner,
         Exchanged, chainVars, storeVars
<1>2. job[d].at # "none" => d \in pooled
  BY DEF QueueInv, JobsInv
<1>3. dest[d] \in Accounts
  BY DestType
<1>4. CASE \/ CheckAccount(d) \/ UpdateSignerSequence(d) \/ SignerFound(d)
           \/ AutoSequence(d, "build", "send") \/ AutoSequence(d, "unbuild", "remove")
  <2>1. UNCHANGED <<account, sent, events>>
    BY <1>4 DEF CheckAccount, UpdateSignerSequence, SignerFound, AutoSequence,
                ledgerVars
  <2> QED BY <1>1, <2>1, Unseen
<1>5. CASE CreateAccount(d)
  <2>1. UNCHANGED <<sent, events>> /\ d \in pooled
    BY <1>2, <1>5 DEF CreateAccount, JobAt
  <2>2. CASE UNCHANGED account
    BY <1>1, <2>1, <2>2, Unseen
  <2>3. CASE ApplyCreate(d)
    <3>1. \/ account' = [account EXCEPT ![dest[d]] = account[dest[d]]]
          \/ /\ account[dest[d]] = "absent"
             /\ account' = [account EXCEPT ![dest[d]] = "created"]
      BY <1>3, <2>3 DEF ApplyCreate, Types
    <3>2. CASE account' = [account EXCEPT ![dest[d]] = account[dest[d]]]
      <4>1. account' = account
        BY <1>3, <3>2 DEF Types
      <4> QED BY <1>1, <2>1, <4>1, Unseen
    <3>3. CASE /\ account[dest[d]] = "absent"
               /\ account' = [account EXCEPT ![dest[d]] = "created"]
      BY <1>1, <2>1, <3>3 DEF E!Create, E!Becomes, E!Next
    <3> QED BY <3>1, <3>2, <3>3
  <2> QED BY <1>5, <2>2, <2>3 DEF CreateAccount
<1>6. CASE SendTokens(d)
  <2>1. UNCHANGED <<account, events>> /\ d \in pooled /\ sent[d] = 0
    BY <1>2, <1>6 DEF SendTokens, JobAt, SentInv, Unsent
  <2>2. CASE UNCHANGED sent
    BY <1>1, <2>1, <2>2, Unseen
  <2>3. CASE ValidForAccount(d) /\ ApplySend(d)
    <3>1. sent' = [sent EXCEPT ![d] = 1]
      BY <2>1, <2>3 DEF ApplySend
    <3> QED BY <1>1, <2>1, <2>3, <3>1 DEF ValidForAccount, SignerExistsOnly, E!Honour, E!Next
  <2> QED BY <1>6, <2>2, <2>3 DEF SendTokens
<1>7. CASE RemoveSigner(d)
  <2>1. UNCHANGED <<sent, events>> /\ sent[d] = 1
    BY <1>7 DEF RemoveSigner, JobAt, SentInv, Sent
  <2>2. CASE UNCHANGED account
    BY <1>1, <2>1, <2>2, Unseen
  <2>3. CASE ValidForAccount(d) /\ ApplyRemove(d)
    BY <1>1, <2>1, <2>3
       DEF ValidForAccount, SignerExistsOnly, ApplyRemove, E!Release, E!Becomes, E!Next
  <2> QED BY <1>7, <2>2, <2>3 DEF RemoveSigner
<1>8. CASE AccountCreated(d)
  <2>1. UNCHANGED <<account, sent>> /\ job[d].at = "created"
    BY <1>8 DEF AccountCreated, JobAt, ledgerVars
  <2>2. E!IsSo(d, "account_created")
    BY <1>2, <2>1 DEF ToldInv, ReadyInv, E!IsSo
  <2> QED BY <1>1, <1>8, <2>1, <2>2, AnnouncementRefines DEF AccountCreated, E!Events
<1>9. CASE Exchanged(d)
  <2>1. UNCHANGED <<account, sent>> /\ job[d].at = "exchanged"
    BY <1>9 DEF Exchanged, JobAt, ledgerVars
  <2>2. E!IsSo(d, "exchanged")
    BY <2>1 DEF ToldInv, ReadyInv, SentInv, Sent, E!IsSo
  <2> QED BY <1>1, <1>9, <2>1, <2>2, AnnouncementRefines DEF Exchanged, E!Events
<1> QED BY <1>4, <1>5, <1>6, <1>7, <1>8, <1>9 DEF Configure

LEMMA OthersRefine ==
  ASSUME \/ MineBlock \/ \E a \in Accounts : AddSigner(a)
         \/ \E i \in Instances : StartInstance(i) \/ Crash(i) \/ QueuePool(i)
  PROVE  [E!Next]_(E!vars)
<1>1. CASE MineBlock \/ \E i \in Instances : StartInstance(i) \/ Crash(i)
  <2>1. UNCHANGED <<dest, processed, queue, pooled, account, sent, events>>
    BY <1>1 DEF MineBlock, StartInstance, Crash, chainVars, storeVars, ledgerVars
  <2> QED BY <2>1, Unseen
<1>2. CASE \E a \in Accounts : AddSigner(a)
  BY <1>2 DEF AddSigner, chainVars, storeVars, E!Sign, E!Becomes, E!Next
<1>3. CASE \E i \in Instances : QueuePool(i)
  BY <1>3 DEF QueuePool, chainVars, ledgerVars, E!Take, E!Next
<1> QED BY <1>1, <1>2, <1>3

-----------------------------------------------------------------------------
(* The theorems.                                                           *)

(* TypeOK: the rows of the queue are unique, those pooled included, a job  *)
(* runs in an instance that is up, and a listener holds one deposit while  *)
(* it queues it (rail, QueueAdd and QueuePool).                            *)
THEOREM BifrostTypeCorrect == Spec => []TypeOK
<1>1. Types /\ QueueInv /\ BlockInv => TypeOK
  <2> SUFFICES ASSUME Types, QueueInv, BlockInv PROVE TypeOK
    OBVIOUS
  <2>1. lastBlock \in 0 .. height /\ base \in 0 .. height
    BY DEF Types, BlockInv, SavedInv
  <2>2. IsInjective(queue) /\ ToSet(queue) \cap pooled = {}
    BY DEF QueueInv, RowsInv
  <2>3. ASSUME NEW i \in Instances
        PROVE  /\ listener[i].at \in ListenerPlaces
               /\ listener[i].block \in 0 .. MaxBlock + 1
               /\ listener[i].at = "off" <=> i \notin up
               /\ Cardinality(listener[i].deposit) =
                    IF listener[i].at \in {"queue", "received"} THEN 1 ELSE 0
               /\ signerNo[i] \in Nat /\ signerSeq[i] \in Nat
    <3>1. listener[i].block \in 0 .. MaxBlock + 1
      BY BlockType DEF Types, BlockInv, Walk, QueueInv, Handling
    <3>2. Cardinality(listener[i].deposit) =
            IF listener[i].at \in {"queue", "received"} THEN 1 ELSE 0
      BY FS_EmptySet, FS_Singleton DEF QueueInv, Handling
    <3>3. listener[i].at = "off" <=> i \notin up
      BY DEF QueueInv, Handling
    <3> QED BY <3>1, <3>2, <3>3, ListenerFields DEF Types
  <2>4. ASSUME NEW d \in Deposits
        PROVE  /\ job[d].at \in JobPlaces
               /\ job[d].at \notin Ended => job[d].by \in up
               /\ job[d].at # "none" <=> d \in pooled
    BY DEF Types, Job, QueueInv, JobsInv
  <2> QED BY <2>1, <2>2, <2>3, <2>4 DEF TypeOK, Types, AccountStates
<1> QED BY <1>1, TypesHold, QueueHolds, BlocksHold, PTL

(* HonouredOnce: the tokens of a deposit are sent at most once, and only   *)
(* for a deposit the rail recorded: AddProcessedTransaction and the unique *)
(* rows of the queue give it one job, and that job's configuring           *)
(* transaction is not sent again when its answer is lost.                  *)
THEOREM DepositsHonouredOnce == Spec => []HonouredOnce
<1>1. Types /\ QueueInv /\ SentInv => HonouredOnce
  <2> SUFFICES ASSUME Types, QueueInv, SentInv, NEW d \in Deposits
               PROVE  sent[d] <= 1 /\ (sent[d] = 1 => d \in processed)
    BY DEF HonouredOnce
  <2>1. sent[d] <= 1
    BY DEF SentInv
  <2>2. sent[d] = 1 => d \in pooled
    BY DEF SentInv, Unsent, QueueInv, JobsInv
  <2> QED BY <2>1, <2>2 DEF QueueInv, RowsInv, Queued
<1> QED BY <1>1, TypesHold, QueueHolds, SentHolds, PTL

(* NoDepositSkipped: from the block where an instance last began with none *)
(* saved, up to the last one saved, every deposit is recorded, whatever    *)
(* the crashes and the failed saves, and in whatever order the instances   *)
(* start and save (processBlocks, SaveLastProcessedBlock).                 *)
THEOREM RestartsSkipNothing == Spec => []NoDepositSkipped
BY BlocksHold, PTL DEF BlockInv

(* EventsAreTrue: an event of the stream says what is so: the deposit is   *)
(* queued, the account exists, or the signer is gone and the tokens of one *)
(* of the account's deposits were sent (onAccountCreated, onExchanged).    *)
THEOREM UsersAreToldTheTruth == Spec => []EventsAreTrue
BY ToldHolds, PTL DEF ToldInv

(* ExchangeSpec: any instances, crashes and failed calls together do no    *)
(* more than Exchange does: a deposit passes each stage once and in turn,  *)
(* an account gets tokens only between its creation for a deposit and its  *)
(* release, and each event is announced when it is so.                     *)
THEOREM BifrostIsExchange == Spec => ExchangeSpec
<1>1. Init => E!Init
  BY DEF Init, E!Init
<1>2. Types /\ QueueInv /\ SentInv /\ ToldInv /\ [Next]_vars => [E!Next]_(E!vars)
  <2> SUFFICES ASSUME Types, QueueInv, SentInv, ToldInv, [Next]_vars
               PROVE  [E!Next]_(E!vars)
    OBVIOUS
  <2>1. CASE Next
    BY <2>1, ListenRefines, JobRefines, OthersRefine DEF Next
  <2>2. CASE UNCHANGED vars
    BY <2>2, Unseen DEF vars, chainVars, storeVars, ledgerVars
  <2> QED BY <2>1, <2>2
<1> QED BY <1>1, <1>2, TypesHold, QueueHolds, SentHolds, ToldHolds, PTL
        DEF Spec, ExchangeSpec, E!Spec

-----------------------------------------------------------------------------
(* A deposit that is stranded.                                             *)

(* What decides whether its signer is the one on an account: a temporary   *)
(* signer stays until the account is released, and a released one stays so.*)
SettledAccounts ==
  \A a \in Accounts :
    /\ account[a] = "temporary" =>
         account'[a] \in {"temporary", "released"} /\ signer'[a] = signer[a]
    /\ account[a] = "released" => account'[a] = "released"

LEMMA JobKeepsSettled ==
  ASSUME Types, NEW d \in Deposits, Configure(d)
  PROVE  SettledAccounts
<1>1. signer' = signer
  BY ConfigureDoes DEF JobStep
<1>2. CASE UNCHANGED account
  BY <1>1, <1>2 DEF SettledAccounts
<1>3. CASE ApplyCreate(d)
  BY <1>1, <1>3 DEF ApplyCreate, SettledAccounts, Types
<1>4. CASE ApplyRemove(d)
  BY <1>1, <1>4 DEF ApplyRemove, SettledAccounts, Types
<1>5. UNCHANGED account \/ ApplyCreate(d) \/ ApplyRemove(d)
  BY DEF Configure, CheckAccount, CreateAccount, UpdateSignerSequence,
         AccountCreated, SignerFound, AutoSequence, SendTokens, RemoveSigner,
         Exchanged, ledgerVars
<1> QED BY <1>2, <1>3, <1>4, <1>5

LEMMA AccountsSettle ==
  ASSUME Types, Next
  PROVE  SettledAccounts
<1>1. ASSUME NEW a \in Accounts, AddSigner(a)
      PROVE  SettledAccounts
  BY <1>1 DEF AddSigner, SettledAccounts, Types
<1>2. CASE \/ MineBlock
           \/ \E i \in Instances :
                StartInstance(i) \/ Crash(i) \/ Listen(i) \/ QueuePool(i)
  <2>1. UNCHANGED <<account, signer>>
    BY <1>2 DEF MineBlock, StartInstance, Crash, Listen, GetBlock, AddProcessed,
       QueueAdd, TransactionReceived, SaveLastBlock, QueuePool, ledgerVars
  <2> QED BY <2>1 DEF SettledAccounts
<1> QED BY <1>1, <1>2, JobKeepsSettled DEF Next

(* The goroutine of a stranded deposit is left to wait, or is lost.        *)
LEMMA StrandedJobWaits ==
  ASSUME Types, QueueInv, Next, NEW d \in Deposits, Stranded(d)
  PROVE  job'[d] = job[d] \/ job'[d].at = "lost"
<1>1. job[d].at = "wait" /\ d \in pooled /\ ~SignerExistsOnly(d)
  BY DEF Stranded, JobAt, SignerExistsOnly, QueueInv, JobsInv
<1>2. CASE \/ MineBlock \/ \E a \in Accounts : AddSigner(a)
           \/ \E i \in Instances : StartInstance(i) \/ Listen(i)
  BY <1>2 DEF MineBlock, AddSigner, StartInstance, Listen, GetBlock, AddProcessed,
     QueueAdd, TransactionReceived, SaveLastBlock
<1>3. ASSUME NEW i \in Instances, Crash(i)
      PROVE  job'[d] = job[d] \/ job'[d].at = "lost"
  <2>1. job[d] \in Job
    BY DEF Types
  <2> QED BY <1>3, <2>1 DEF Crash, Job
<1>4. ASSUME NEW i \in Instances, QueuePool(i)
      PROVE  job'[d] = job[d]
  <2>1. Head(queue) # d
    BY <1>1, <1>4, PooledIsNew
  <2> QED BY <1>4, <2>1, QueuePoolDoes DEF OnlyJob
<1>5. ASSUME NEW e \in Deposits, Configure(e)
      PROVE  job'[d] = job[d]
  <2>1. CASE e = d
    BY <1>1, <1>5, <2>1 DEF Configure, CheckAccount, CreateAccount,
       UpdateSignerSequence, AccountCreated, SignerFound, AutoSequence,
       SendTokens, RemoveSigner, Exchanged, JobAt
  <2>2. CASE e # d
    BY <1>5, <2>2, ConfigureDoes DEF JobStep, JobTo, OnlyJob
  <2> QED BY <2>1, <2>2
<1> QED BY <1>2, <1>3, <1>4, <1>5 DEF Next

(* signerExistsOnly never becomes true for a stranded deposit: when the    *)
(* user has put on his account the signer of an instance other than the    *)
(* one that took the deposit off the queue, or the account was released,   *)
(* the goroutine of ConfigureAccount waits until its instance stops, and   *)
(* then is lost. No failure is needed to get there.                        *)
THEOREM StrandedForGood ==
  Spec => [][\A d \in Deposits :
               Stranded(d) => Stranded(d)' \/ job'[d].at = "lost"]_vars
<1>1. Types /\ QueueInv /\ [Next]_vars =>
        [\A d \in Deposits : Stranded(d) => Stranded(d)' \/ job'[d].at = "lost"]_vars
  <2> SUFFICES ASSUME Types, QueueInv, Next, NEW d \in Deposits, Stranded(d),
                      job'[d].at # "lost"
               PROVE  Stranded(d)'
    OBVIOUS
  <2>1. job'[d] = job[d]
    BY StrandedJobWaits
  <2>2. dest' = dest /\ dest[d] \in Accounts
    <3>1. dest' = dest
      BY ConfigureDoes DEF Next, MineBlock, AddSigner, StartInstance, Crash,
         Listen, GetBlock, AddProcessed, QueueAdd, TransactionReceived,
         SaveLastBlock, QueuePool, JobStep, chainVars
    <3> QED BY <3>1, DestType
  <2>3. SettledAccounts
    BY AccountsSettle
  <2> QED BY <2>1, <2>2, <2>3 DEF Stranded, JobAt, SettledAccounts
<1> QED BY <1>1, TypesHold, QueueHolds, PTL DEF Spec
=============================================================================
