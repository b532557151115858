# A verification development for dfc-api

dfc-api is a Go fork of Stellar's `go` monorepo: the Horizon API server, the
Bridge, Compliance, Federation and Bifrost servers, clients and libraries. This
directory holds TLA+ models of its concurrent core, TLC configurations that
check them, and TLAPS proofs. It models the code in `src/`, which is the
reference; where a doc or a comment disagrees with the code, the model follows
the code and a run with an expected violation records the disagreement.

## Inventory

| Part | State it keeps | Operations | What is hard |
|---|---|---|---|
| `horizon/internal/txsub/sequence` | per account: a heap of waiting submissions, the next sequence number, the time of the last change | `Push`, `Update`, `Addresses`, `Size` | stale numbers, deleted queues, a bound shared by all accounts, sends under a mutex |
| `horizon/internal/txsub` open list | hash -> listeners and date | `Add`, `Finish`, `Clean`, `Pending` | one send and close per channel, from several goroutines |
| `horizon/internal/txsub.System` | one goroutine per request, one ticker | `Submit`, `Tick` | nine steps of each request interleaved with other requests, the tick and the ledger; timeouts, lost answers, cancelled requests |
| `horizon/internal/ingest`, `cmd/db.go` | the current session, the history database, core's cursor | `Tick`, `Backfill`, `ReingestRange`, `ReingestOutdated`, `RebaseHistory`, `ClearAll` | a session that stops anywhere, two directions, concurrent commands, core that frees what was read |
| `horizon/internal/reap`, `ledger` | next run; a cached ledger state | `Tick`, `DeleteUnretainedHistory`, `SetState` | six deletes without a transaction, a stale cache |
| `horizon/internal/toid` | none | `New`, `ToInt64`, `Parse`, ranges | three fields in 64 bits, carries at their edges |
| `bifrost` rails, queue, listeners | processed transactions, queue, last block | a block, `QueueAdd`, `QueuePool` | several instances on one database, crashes between two tables |
| `bifrost` account configurator | statuses, the signer's sequence number | `ConfigureAccount` | a goroutine per deposit, a shared counter reset from Horizon |
| `bifrost` event server | events, last id | `BroadcastEvent`, `publishEvents` | events polled by id while they are being written |
| `bridge` submitter and payments | accounts with sequence numbers, sent transactions | `LoadAccount`, `SignAndSubmitRawTransaction`, payment by id | check and act, lost answers, resubmission |
| `bridge` payment listener | received payments, stream cursor | `onPayment`, `ReprocessPayment` | a crash between storing and telling, concurrent reprocessing |
| `compliance` | memos, authorized transactions | `send`, `auth`, `receive` | a protocol of two servers |
| friendbot, federation, builders, codecs, clients, XDR | little or none | encoders, lookups | data, not control |

The parts meet at dfc-core and at databases: core posts ledgers into its own
database; Horizon's ingester copies them to the history; `txsub` reads both and
posts transactions to core; Bridge and Bifrost are clients of Horizon. A request
to `POST /transactions` runs `System.Submit`, which shares the sequence manager
and the open list with other requests and with `System.Tick`, called every
second by `App.Tick`. The same `App.Tick` refreshes the cached ledger state,
which the reaper reads, and starts the ingester; the `horizon db` commands work
on the same history database from processes of their own. Bifrost's instances
share one database. Bridge's requests share the number cache of one process, and
its listener shares a table with the requests to `/reprocess`.

What makes each part correct, in one line each:

* sequence manager: one verdict per channel, only what is due is released,
  everything that is due is released, room is bounded and given back;
* open list: every listener is answered exactly once;
* submission system: a transaction is posted only after the one before it, the
  answer is the ledger's, every request is answered;
* ingester: the history is a window of core's ledgers, each whole, without gaps
  among the ledgers to keep, as long as operators do nothing that the documents do
  not describe, and core is told of ledgers only once they are committed; reaper:
  what is retained is kept and what is not goes away in the end;
* total order ids: a range of numbers is the ledgers, the transaction or the
  operation it is meant for;
* Bifrost: a deposit is honoured once, none is skipped, events tell the truth, and
  a deposit is settled by the instance whose signer its user was given;
* Bridge: a payment id is paid at most once; a received payment is a success only
  when the receiver has acknowledged it, and none that reaches the listener is
  skipped in silence.

The hazards of each part, with their lines, are listed in `PROJECT.json`.

## Plan

1. `txsub` (done): `SequenceManager`, `OpenSubmissionList`, `DfcCore`, composed by
   `TxSub`; `SubmissionService` is the abstract specification. Proved: the
   manager's properties, one answer, no lost channel, posting in order, the
   refinement.
2. Bridge (done): `BridgeSender`, `PaymentListener`. Proved: the safety of both.
3. Bifrost (done but for the event poller and lock times): `Bifrost`, with the
   abstract specification `Exchange`. Proved: its safety, the refinement.
4. Ingestion, reaper and core's cursor (done): `Ingestion`, with the abstract
   specification `HistoryWindow`; total order ids: `TotalOrderId`. Proved: its
   safety, the refinement, the ranges.

Every safety and action property and every refinement that a passing run checks
is also a theorem. Worth proving next: an abstract specification of the payment
listener (a table that only grows, in the order of the ledger), as
`SubmissionService`, `HistoryWindow` and `Exchange` are for their parts.

## The modules

| Module | Models |
|---|---|
| `SequenceManager` | `sequence.Manager` and `sequence.Queue`, with the clients any program could be |
| `OpenSubmissionList` | `submissionList`, the operations |
| `DfcCore` | the node and its database: an external environment, from how `src/` uses them |
| `TxSub` | `System.Submit` and `System.Tick` over the three modules above |
| `SubmissionService` | what `txsub` promises, without queues, channels, ticks or clocks |
| `Ingestion` | ingestion, reaper, ledger state cache and the `horizon db` commands on one history database |
| `HistoryWindow` | what ingestion promises of the history, without sessions, commands, tables and stale ledger states: a window of two numbers |
| `TotalOrderId` | the numbers of rows and the ranges of them that queries select, with theorems |
| `Bifrost` | chain listener, rail, queue, configurator and broadcast of several instances on one database |
| `Exchange` | what Bifrost promises, without instances, blocks, jobs, signers and failures: the stages of a deposit and of an account |
| `BridgeSender` | Bridge's payment handlers, transaction submitter and table of sent transactions |
| `PaymentListener` | Bridge's payment listener, its stream, callback, table and reprocessing |
| `MC*` | constants for TLC |
| `SequenceManager_proofs`, `TxSub_proofs`, `TxSubService_proofs`, `Ingestion_proofs`, `Bifrost_proofs`, `BridgeSender_proofs`, `PaymentListener_proofs` | theorems |

### SequenceManager

`queues[a]` is the map entry of account `a`. A Go entry exists exactly while it
has an item, so an account without an entry is one with `NewQueue`; this is the
last conjunct of `TypeOK`. `signal[ch]` is what the channel has been sent; the
Go channels have room for one value and are closed after it. Each method holds
the manager's mutex, so each is one action. `Queue.Update` pops from the heap's
head while the head is not above `nextSequence`: the items popped are a set
(`Unlocked`), their order is not observable. When nothing was popped and
`timeout` has passed since `lastActiveAt`, everything is popped with
`ErrBadSequence`. The clock is one bit per queue, `expired`, set by `Expire` at
any time and reset whenever the code moves `lastActiveAt`. The sequence numbers
are naturals: the wrap-around of `uint64` at its top is not modelled.

### OpenSubmissionList

`response[l]` is the sequence of what has been sent on a response channel, so
that a second send, a panic in Go, shows as a sequence of length two.
`old[h]` is the clock of an entry. A listener that joins an entry does not
change its date, as in the code.

### DfcCore

The node takes a transaction whose number follows those it has, applies it in a
ledger (with success or failure; both use up the number), may drop it, may get it
from a peer, and may remove an account. History and core databases are one
function `result`: `ResultByHash` reads both, and the window of 120 ledgers and
the cached latest ledger it starts from are left out.

### TxSub

A step of a request is one call that takes a mutex, reads a database or reaches
the node, with the local code up to the next one. `pc` names the call that is
next; `tick` the same for `Tick`. `curSeq` is read in `LoadSequence`, before
`PushSubmission`, and used after it in `UpdateQueue`, as in `system.go:91-110`.

| Code | Action |
|---|---|
| `system.go:57-67` | `Arrive`, `ArriveMalformed` |
| `:75-87` first `ResultByHash` | `Lookup` |
| `:91-102` | `LoadSequence` |
| `:106`, `:110` | `PushSubmission`, `UpdateQueue` |
| `:112-122`, `:158` | `Proceed`, `GiveUp`, `Cancel` |
| `:124-145`, `submitter.go` | `SubmitAccepted`, `SubmitBadSeq`, `SubmitRejected`, `SubmitUnknown` |
| `:147-156` second `ResultByHash` | `Recheck` |
| `:129`, `:131` | `AddPending`, `ReleaseNext` |
| `:206-262` | `TickStart`, `TickLoad`, `TickLoadFails`, `TickUpdate`, `TickPending`, `TickResolve`, `TickClean` |

`Faults` selects what the environment may do, so that a run can name the faults
it is about. `accepted` is a history variable: the transactions the node has
answered nil for.

### Ingestion

`rows[t]` is the set of ledgers with rows in a table (`Contents` says which
ledgers have any). The seven tables are four: those the code clears one after
the other under the same condition and key are taken together. A server process
has an ingestion session (`job`), a cached ledger state (`cached`) and the
ticker's goroutine with the reaper (`reaper`); a command is the process `"cli"`.
`Flush` commits each ledger by itself, with the clearing of that ledger, so
`FlushLedger` is one step and a session of many ledgers is many.

| Code | Action |
|---|---|
| `ingest/system.go:208-292` | `Tick`, `DecideRange` |
| `ingest/cursor.go:79-132` | `NextLedger`, `Incremented`, `IsComplete`; the cursor runs backwards when the first ledger is above the last |
| `ingest/session.go:41-90`, `:92-113` | `FlushLedger`, `Cleared`, `FinishRange` |
| `ingest/session.go:874-896` | `ReportCursor` (servers only: commands set `SkipCursorUpdate`) |
| `ingest/system.go:17-38`, `:98-204` | `StartBackfill`, `StartReingest`, `StartReingestOutdated`, `NextOutdated` |
| `ingest/system.go:42-95` | `StartRebase`, `RebaseElder`, `StartClear`, `ClearAll` |
| `app.go:172-198` | `RefreshLatest`, `RefreshElder` |
| `reap/system.go` | `SkipReap`, `DeleteUnretainedHistory`, `ClearBefore` |
| `cmd/db.go:175-185` | `StartReap` |

The program keeps no command apart from anything. A command starts whenever one of
the places it may run in (`Clis`) is free, beside servers, their reapers and other
commands: a backfill in the background of a server that reaps (`docs/admin.md:105`),
parallel `reingest range` (`CHANGELOG.md:38`), and a clear beside either. A
reingestion takes any of `Ranges`, what an operator may type: `cmd/db.go:206-251`
and `ingest/system.go:186` check nothing. What is true of all this is less than a
history without gaps:

* of the ledgers to keep (`InWindow`: the latest `retention` ones, or all when that
  is 0) none is missing between the elder and the latest ledger: `GapFree`. Below
  them there may be gaps: a reaper that deletes the ledgers which a backfill started
  from leaves what the backfill writes next by itself;
* and that only until operators *stray*. The history variable `strayed` records two
  things no document tells them to do, and no code prevents: `"apart"`, a
  reingestion has committed a ledger that is neither in the history nor next to it
  (`IsApart`, noted in `FlushLedger`), and `"beside"`, a `db clear` or `db rebase` has
  run beside a server or another command (`Beside`). The first opens a gap anywhere;
  the second one can let a reingestion that goes on after the clearing establish a
  history that core has moved away from. The properties say in their definitions
  from which of the two they are exempt; `KeepsRetained` and `WindowIsWhole` only
  from the second.

Orderly is everything else: a reingestion of ledgers of the history, of ledgers next
to it, forwards or backwards, any number of them at the same time, a backfill or a
`reingest outdated` beside a reaper, crashes anywhere.

One ingesting server is assumed, as `docs/admin.md:99` recommends; two on an empty
history can each establish a base and leave a gap between them, although that page
says that several "will not corrupt the Horizon database". Two consequences of the
code that the model shows and no document speaks of: the reaper never deletes trades
(`ReapCompletes` excepts them), so a later backfill of a reaped ledger with trades
stops at their unique index; and a backfill of more ledgers than there are ends with
the error of a gap at ledger 0.

`WindowSpec` is the abstract specification `HistoryWindow` with `closed` mapped to
core's latest ledger, `latest` to the largest ledger in `history_ledgers`, `elder` to
the first ledger from which on none is missing up to that (`UnbrokenFrom`), and
`astray` to `strayed # {}`. A `FlushLedger` is `Open` in an empty history, and else
`GoOn` (by the server, or a reingestion of the next ledger), `LookBack` (by a backfill
or a rebase, or by whoever fills a gap below and so joins what lies under it) or a
stutter (by a reingestion of what is there, or apart from the unbroken run); a
`ClearBefore` of the ledgers table is `Reap` or, below the run, a stutter, `ClearAll`
is `Clear`, and every other step but `CloseLedger` a stutter. All that a session, a
cursor or a cached ledger state remembers is gone in it, and so is every ledger in
between: that `latest` moves by one is that there is no gap above, and that only
`Reap` raises `elder`, never into the ledgers to keep, that none opens in the window.
`Stray` promises nothing more.

### TotalOrderId

`Ingestion` speaks of the rows of a ledger where the code speaks of a range of
64-bit numbers. `TotalOrderId` closes that step by proof, for all ids: `Parse`
inverts `ToInt64`, the order of the numbers is the order of ledgers, transactions
and operations, and `LedgerRange`, the reaper's range and the ranges of a
transaction and an operation select exactly what they are meant to. The
hypotheses are the edges: the transaction range needs a successor that fits its
20 bits (`ToInt64` panics otherwise), and the operation range is exact up to the
last operation number, where `IncOperationOrder` moves to the next ledger without
resetting the transaction. TLC's integers are too small for it; no run uses it.

### Bifrost

A step is one call to the database or to Horizon. `processed`, `queue` with
`pooled`, `lastBlock` and `events` are the shared tables; `listener[i]` is the
goroutine of `processBlocks`, `job[d]` the goroutine of `ConfigureAccount`,
`signerNo[i]` the counter under `signerSequenceMutex`. The bitcoin and the
ethereum side have the same shape, and one stands for both.

| Code | Action |
|---|---|
| `bitcoin/listener.go:55-90` | `GetBlock` |
| `server/bitcoin_rail.go:23-74` | `AddProcessed`, `QueueAdd`, `TransactionReceived` |
| `bitcoin/listener.go:92-102`, `database/postgres.go:309-345` | `SaveLastBlock` (goes on after a failure) |
| `database/postgres.go:363-398`, `server/queue.go` | `QueuePool` |
| `dfc/account_configurator.go:88-116` | `CheckAccount`, `CreateAccount`, `AccountCreated` |
| `:118-132` | `SignerFound` |
| `:141-159`, `dfc/transactions.go` | `AutoSequence`, `SendTokens`, `RemoveSigner`, `Exchanged` |
| `dfc/transactions.go:170-208` | `UpdateSignerSequence`, after any error of Horizon's, also one of the user's account (place `"leave"`) |

A call that fails may have had its effect (`Fault` with the effect).

Each instance has a signer of its own (`README.md:109`). A user puts on his account
the signer named in the answer to his request for an address, which is that of the
instance that answered (`server/server.go:231-236`): `AddSigner` chooses it among the
instances that serve users (`Serving`) and keeps it in `signer`. Any instance may take
the deposit off the queue (`database/postgres.go:363`), and its goroutine accepts no
other signer than its own (`signerExistsOnly`, `SignerExistsOnly`; the network accepts
no other signature, `ValidForAccount`). A deposit taken by an instance whose signer is
not the user's is `Stranded`: its goroutine waits for ever, without a fault. So is a
second deposit on an account that has been released. `QueuedIsSettled` says that
a queued deposit is settled, given up on or lost with its instance, or is stranded,
for these two reasons and no other.

Instances start in any order, and side by side. One that starts when no block has
been saved begins at its own latest block (`BlockToProcess`); `base` is the block
where one last did, and what lies between two of them may be passed over by the
saved block. `NoDepositSkipped` is about the blocks from `base` on.

`ExchangeSpec` is the abstract specification `Exchange` with `recorded`, `line` and
`taken` mapped to `processed`, `queue` and `pooled`. Of all the steps of a rail, a
poller and a job only eight kinds can be seen in it: `AddProcessed` is `Record`,
`QueueAdd` `Join`, `QueuePool` `Take`, `CreateAccount` `Create`, `AddSigner` `Sign`,
`SendTokens` `Honour`, `RemoveSigner` `Release`, the callbacks `Announce`, and only
when they have their effect; starts, crashes, retries and blocks are stutters.

### BridgeSender

`entry` is the source account's entry in `Accounts`, made before its number is
read; `rows` the table of sent transactions. `handler[r]` is a request's handler,
`at` the call that is next. Horizon and the network are external: Horizon answers
with the result of a transaction that is final, with a bad number, or with a
timeout while the network holds it; the network may drop it.

| Code | Action |
|---|---|
| `handlers/request_handler_payment.go:24-128` | `Payment`, `ComplianceSend` |
| `:130-155` | `GetSentTransactionByPaymentID`, `Resubmitted` |
| `submitter/transaction_submitter.go:64-105` | `LoadAccount`, `ReadNumber` |
| `:117-178` | `TakeNumber`, `InsertSentTransaction` |
| `:182-238` | `Submitted`, `UpdateSentTransaction`, `SyncSequence` |

### PaymentListener

Payments are numbered by their paging tokens; `rows` is in the order of the row
ids, so that the stored cursor is that of the last row. `cursor` and `listener.p`
are the stream's position in the client and what it has read of it. The callback
may answer 200 OK, anything else, or be lost (`Process`).

The client hands on only the events named `"mdfcge"` and passes over all others,
whose ids it does not keep either (`client.go:442-451`). Horizon gives the events of
payments no name (`render/sse/main.go:74-76`), and what the decoder, a library
outside the repository, calls such an event is the constant `EventType`. It calls
them `"message"`, the name that an event without one has by the standard of
server-sent events; so at this commit no payment is ever handled (run
`bridge_silent`, theorem `PassedOverIsLost`). The other properties are about the
rest of the listener: they are checked, and not vacuous, where the decoder says
`"mdfcge"`, and the safety ones are proved for both.

| Code | Action |
|---|---|
| `payment_listener.go:65-104` | `Listen`, `GetLastCursorValue` |
| `clients/horizon/client.go:351-466` | `Connect`, `Receive`, `Disconnect` |
| `payment_listener.go:146-194` | `LookupPayment`, `InsertReceivedPayment`, `ProcessPayment`, `UpdatePayment` |
| `:106-143` | `AskReprocess`, `MarkReprocessing`, `ReprocessPayment`, `UpdateReprocessed` |

## What is checked

| Run | Instance | Shows |
|---|---|---|
| `sequence_manager` | 2 accounts, 4 requests, room for 3, numbers to 3 | one verdict per channel, no blocked send, room bound, monotony, under any clients |
| `txsub_safety` | 2 requests, 2 consecutive transactions, room for 1, all seven faults | one answer, no lost channel, order, no lost wakeup, honest results, the refinements `ServiceSpec` and `ManagerSpec` |
| `txsub_live` | 2 requests, 2 transactions, failing reads, lost posts, drops | every request is answered, every item leaves its queue |
| `ingest` | 1 server, 3 ledgers, trades in one, retention 0 or 1, one command of six with any of the ranges, one fault, orderly operators | the window has no gap and its ledgers are whole; core keeps what is unread; what is retained is kept; the refinement `WindowSpec`; history catches up, the reaper finishes, commands end |
| `bifrost` | 2 instances, one of which serves users, 2 deposits in 2 blocks, to one account or two, one fault | a deposit is honoured once, none is skipped, events are true, the refinement `ExchangeSpec`, a queued deposit is settled or stranded |
| `bridge_send` | 3 requests, two with one id, both protocols, one fault | an id is paid once, what was sent is recorded, success is honest, a retried payment is settled |
| `bridge_receive` | 3 payments named as the client expects, one foreign, 2 operators, two faults | success was acknowledged, the cursor is never behind a row, nothing is skipped in silence, later payments are recorded |
| `txsub_inflight` | 2 requests, no fault | violated: `tx_bad_seq` for a transaction in flight |
| `txsub_merged` | 2 requests, merge and cancel | violated: room that is never given back |
| `ingest_reap` | as `ingest`, any operators | violated: `db reap` collects nothing |
| `bifrost_lost` | as `bifrost` | violated: a recorded deposit that is never queued |
| `bridge_silent` | 3 payments named `"message"`, no fault | violated: a payment that arrives is passed over |

The bounds. Requests choose any transaction, so two requests are also two
submissions of the same transaction, and a transaction whose predecessor nobody
submits is a gap. Two requests with room for one reach `ErrNoMoreRoom`, and a queue
that is deleted and made again with a stale number. The two refinements were also
checked with three requests in a chain, and are proved for any number. Four channels
over two accounts reach every verdict and the room bound. `MaxSequence` bounds the
numbers clients report in `SequenceManager` and the numbers of transactions in
`TxSub`. Deadlock checking is on: in `TxSub` the ticker can always move, in
`Ingestion` too.

In `Ingestion` three ledgers hold a history with an elder ledger before it and a new
one after it, which is every direction a session can take; one command meets every
state of the server, and one fault every place of both. The ranges are one ledger,
two in a row, and the history backwards: in it, next to it and apart from it.
`CONSTRAINT NotAstray` ends the exploration where an operator strays, since the
properties, by their definitions, claim nothing from there on (the two that are
exempt only from `"beside"` are proved without it). Two commands side by side are
beyond a run; the proofs are for any number of them, and their inductive invariant
was checked by TLC with two. In `Bifrost` two instances race for the same block,
save out of order and mix up two deposits of one account; a fault is a crash, a
failed call or a lost answer. One of the two serves the users, so that a deposit may
be taken by the instance whose signer is on the account and by the other. In
`BridgeSender` two requests with one id and one without race for the numbers; a
client may send again what is on record as often as it likes. Safety was also
checked with two faults. In `PaymentListener` three payments make a gap inside a
prefix, and two operators reprocess what the listener is processing. These three may
stop: there are no more deposits, requests or payments, and deadlock checking is
off.

The fairness of `FairSpec`. A request's goroutine runs (weak fairness of
`Submit`). Its context ends at the latest at the connection timeout that
`web.go:59` installs (`Cancel`, enabled in the runs that have that fault). Time
passes (`QueueExpires`, `SubmissionAges`). `App.run` calls `Tick` every second;
`TickLoadFails` needs no fairness, and strong fairness of `TickLoad` says that a
database that fails does not fail at every tick. Nothing is assumed of the node:
ledgers need not close, so answers may all be timeouts.

In `Ingestion`, goroutines and commands are scheduled, a server that stopped is
started again, and strong fairness of `DeleteUnretainedHistory` says that the
reaper's hour comes round although most ticks skip it. In `Bifrost`, goroutines are
scheduled, some instance is restarted, some poller runs, and users follow the
procedure; nothing is assumed of the listeners. In `BridgeSender`, ledgers close
while there is a transaction to apply, and a client whose payment is on record sends
it again until it is told of a success, as Bridge's README tells it to. In
`PaymentListener` the goroutine runs, the server is restarted, and an open
connection delivers what it has. Faults are bounded in number and need no fairness:
the liveness properties speak of what happens when they have ended.

### The disagreements

* `txsub_inflight`. A second request for a transaction that another request has
  just posted can be decided by the queue with `ErrBadSequence`, without the second
  look at the results that the node's own `tx_bad_seq` gets, while the
  transaction is in the node's hands. The docs tell clients that this answer is
  final.
* `txsub_merged`. Queues are cleared only by an update of their account, and an
  account without a row is never in `Tick`'s map. What waits in its queue is
  never cleared, and its room is lost.
* `ingest_reap`. `docs/admin.md:109` says that `horizon db reap` forces a
  collection. The command asks the ledger state of a process in which nothing has
  read it, and collects nothing.
* `bifrost_lost`. The listener says that it is safe to reprocess blocks. A deposit
  whose queueing failed is found processed and skipped.
* `bridge_silent`. Bridge's README (line 407) says that every payment that arrives is
  sent to the receiver. The client passes over all events that are not named
  `"mdfcge"`, and Horizon sends payments without a name, which decoders call
  `"message"`: no payment is recorded and no callback sent, without any error. What
  the decoder does is known from the library and not from `src/`.

Met while modelling, stated here and not in runs of their own:

* `docs/admin.md:113` speaks of a gap-free window, and `:105` of a backfill in the
  background. Beside a reaper the backfill leaves a gap below the ledgers to keep,
  and reingesting a range apart from the history, which nothing refuses, leaves one
  anywhere. `GapFree` and `HistoryWindow` state what holds.
* With several Bifrost servers, as its `README.md:109` describes them, a deposit is
  taken by any of them while its user has put on his account the signer of the one
  that answered him. If the two differ, `signerExistsOnly` is never true and the
  deposit waits until its instance stops, then is lost (`Stranded`,
  `StrandedForGood`). TLC finds `QueuedIsSettled` violated without that exception, with
  no fault.
* Bifrost's instances that start before a block has been saved may each begin at
  another block, and what lies between is recorded by nobody (`base`).
* Bridge's README (line 435) says that a payment request is sent again until the
  receiver answers 200 OK, and that no later payment is sent before; the listener
  calls the callback once, stores `"Error"` and goes on. `PaymentListener` models
  the code.
* `Listen`'s goroutine returns for good when the stored cursor cannot be read
  (place `"dead"`), and `onPayment` gives up on a payment whose lookup or insert
  fails: `missed` keeps them, and `NoSilentSkip` and `PaymentsAreRecorded` except
  them.
* A payment sent by the compliance protocol is not looked up by its id, so sending
  it again ends in an error at the unique index, where the README (line 282) says
  it is resubmitted. A row whose transaction met `tx_bad_seq` can never be paid
  under its id; a timeout is stored as a failure; and a number wasted by a failed
  insert leaves a gap that later transactions wait behind (`BehindGap`).

## What is proved

The theorems hold for any sets of requests, accounts, transactions, servers,
instances, deposits and operators, any numbers of ledgers and payments and any
faults. They rest on the named assumptions of the modules (`MaxSizeAssumption`,
`MaxSequenceAssumption`, `TxSubAssumption`, `IngestionAssumption`,
`BifrostAssumption`, `BridgeSenderAssumption`, `PaymentListenerAssumption`: the
types of the constants), which TLC evaluates on every run, and three theorems of
`Ingestion_proofs` on the hypothesis `OneServer`.

* `SequenceManager_proofs`: `TypeCorrect`, `DeliverySafe`, `VerdictIsFinal`,
  `QueueIsMonotonic`, `RoomIsBounded`. `Delivery` is inductive with `TypeOK`: a
  pop takes an item out in the step that sends its verdict. The room bound needs
  cardinalities: an update only removes items, a push adds one below the bound.
* `TxSub_proofs`: `TypeCorrect`, `OneAnswer`, `NoChannelIsLost`. `TypeOK` alone is
  not inductive, because the account of a request is only defined once it has a
  transaction: `TypeInv` adds `HasTx`. `AnsweredOnce` is proved with `NoOrphan`
  and `Listening` (a listener is a request past `AddPending`, listed under its own
  transaction): whoever is answered is then known to be unanswered.
* `TxSubService_proofs`: `PostedInOrder` and `SubmissionIsService`. The order
  needs an invariant over all the places a sequence number passes through:
  `Frontier` (what a queue would release next follows a known number),
  `Faithful` (an item carries the number of its request's transaction),
  `Cleared` (a nil verdict is given only when the predecessor is known),
  `RequestOK` and `TickRead` (what was read is not ahead of the ledger, however
  old) and `Applied` (a result has used up its number). Known numbers only grow
  (`KnownGrows`), so stale reads do no harm. The refinement uses it for `Clear`
  and `Learn`, and `AnswerInv` for `Answer`.
  `ResultsAreTheLedgers`: a result that an answer names is the one the ledger has
  for the request's transaction (`Honest`), which is stable because a result, once
  in the ledger, is final. `WakeupsAreKept`: `WaitInv` says that a queue holds
  nothing it could release, but for requests that have pushed and not yet updated
  (`AboveNext`), that who has pushed has a verdict or an item in its account's queue
  (`Queued`), and who has not has neither (`Fresh`). `ManagerIsUsedAsMeant`: every
  step of the system is a step of `SequenceManager` or leaves it alone, so what is
  proved of the manager under any clients holds of it inside the system.
* `Ingestion_proofs`, for any number of servers and commands: `IngestionTypeCorrect`,
  `WindowStaysWhole`, `RetainedIsKept`. The invariant is layered: `Types`;
  `ControlInv` (where each process can be, and that a clearing command is alone
  unless `strayed` says otherwise); `ReapInv` (no ledger state that is cached or
  being read is ahead of the history, so a reaper deletes only below the window) and `RowsInv` (a table has rows only
  of ledgers with content for it, and the window is whole).
* `Ingestion_proofs`, for one ingesting server (`OneServer`, what
  `docs/admin.md:99` recommends) and any number of commands beside it and each other:
  `HistoryHasNoGaps`, `UnreadIsKept`, `HistoryIsWindow`. Nothing is assumed of the
  commands: the three hold until the operators stray, which their formulas say.
  `OneServerInv` relates every session to the history. A ledger `Joins` when adding it
  leaves no gap in the window: next to the history or inside it, or anywhere below a
  window that is full (`WindowFull`), where a backfill may find itself after a reaper
  has run. It is `Covered` when both its neighbours join, which is what a session has
  behind it, and `Opens` an empty history. `SessionInv` says that a session is at such
  a ledger, whatever others do to the history meanwhile, except that a reingestion
  may be anywhere: it has strayed when it commits one that is apart. With it go where
  the server's own session ends (`ServerInv`) and that core's cursor is not ahead of
  the history (`CoreInv`). For the refinement, `IsStart` characterises `UnbrokenFrom`.
  The hypothesis is needed: TLC finds two servers on an empty history that establish
  two bases, at ledgers 1 and 3.
* `Bifrost_proofs`: `BifrostTypeCorrect`, `DepositsHonouredOnce`,
  `RestartsSkipNothing`, `UsersAreToldTheTruth`, `BifrostIsExchange`,
  `StrandedForGood`, in five layers: `Types`; `QueueInv` (what is queued is recorded and has one row, what is
  pooled has a job, and a listener past the rail holds one recorded deposit);
  `SentInv` (before its configuring transaction a job has sent nothing, after it
  once); `BlockInv` (`Walk`: from `base` to a listener's block every
  deposit is recorded, and of the block it is at, what it does not hold is);
  `ToldInv` (what a job is about to announce, and what was announced, is so and
  stays so). `BifrostIsExchange` needs them all but the blocks: that a job's
  deposit was taken and its tokens not sent before is what makes `SendTokens` an
  `Honour`. `StrandedForGood` is the negative half of `QueuedIsSettled`: a stranded job
  stays so or is lost, because a signer on an account changes no more
  (`AccountsSettle`) and nobody else takes up the job (`StrandedJobWaits`).
* `BridgeSender_proofs`: `SenderTypeCorrect`, `SenderRecords`, `SenderHonest` and
  `SenderPaysOnce`, from `BridgeSenderAssumption`. The inductive invariant is
  `TypeOK`, `SentIsRecorded`, `HonestSuccess` and `HandlerInv`: a handler past the
  insert has its transaction on record, and pays what its client asked for. A
  payment id has one row by the unique index, every applied transaction is on
  record, so two of one id are the same: that is `PaidOnce`.
* `PaymentListener_proofs`: `ListenerTypeCorrect`, `SuccessIsAcknowledged`,
  `RowsAreOrdered`, `NothingIsSkipped`, `ReceivedIsNew`, `PassedOverIsLost`.
  `PositionInv` relates the stream to the table: behind the connection's cursor, and behind what it has
  handed on, every payment has a row or met an error (`SeenTo`), and no row is
  ahead; a connection without a cursor is made only while there is no row.
  `OutcomeInv` says that a 200 OK in hand was given. It follows that the lookup at
  the head of `onPayment` never finds a row as long as one listener runs
  (`ReceivedIsNew`): the guard is for several, which the model does not have. It
  follows too that where events are not named as the client expects, there is never a
  row nor a callback (`PassedOverIsLost`): the other theorems then say nothing.
* `TotalOrderId`: `ParseInverts`, `OrderIsTotal`, `RangesAreLedgers`,
  `TransactionRangeIsExact`, `OperationRangeIsExact`, `NowIsAfterTheLatest`, without
  assumptions, from lemmas on packing and unpacking three numbers.

Only model-checked are the liveness properties, because fairness and liveness are
beyond the prover: `EveryRequestIsAnswered` and `RoomIsGivenBack` of `TxSub`,
`CatchesUp`, `ReapCompletes` and `CommandsEnd` of `Ingestion`, `QueuedIsSettled` of
`Bifrost`, `RetriedIsSettled` of `BridgeSender` and `PaymentsAreRecorded` of
`PaymentListener`. The abstract `HistoryWindow`, `Exchange` and `SubmissionService`
make no promise of progress for the same reason.

## Not modelled

The parts with status `not_modelled` in `PROJECT.json`, for the reasons given
there. By lines they are most of the repository: the generated XDR codec, the
generated schema bindings, the builders of transactions, the rendering of
resources, request parsing, SQL queries and the tables of operation details and
effects are data without control, and only a small part of the implementation's
lines is state that several actors change. The models cover that part.

* `txsub`: metrics, logging, the decoding of envelopes (a request is malformed or
  has a transaction), the panic of `Add` on unbuffered channels (`System` makes
  buffered ones), the split of results between two databases with its window of
  120 ledgers, and the wrap-around of sequence numbers.
* Ingestion: what the rows of a ledger contain, asset statistics and
  `db init-asset-stats`, and the statistics of operation fees.
* Bifrost: the branch with `LockUnixTimestamp`, in which a second deposit on an
  account finds a number consumed by the unlock transaction and its event dropped
  by the unique index; the publication of events, whose poller asks for ids above
  the last seen and can miss one that commits late (`database/postgres.go:419-435`);
  address generation and minimum values.
* Bridge: building of operations, path payments, several source accounts (they
  share nothing but the map), the admin interface.
* Compliance, federation, friendbot, path finding, server-sent events of Horizon.
