----------------------------- MODULE Ingestion -----------------------------
(***************************************************************************)
(* Horizon's history database: the ingestion system that fills it from     *)
(* dfc-core's database, the reaper that trims it, and the `horizon db`     *)
(* commands that rewrite it, in processes of their own, which nothing in   *)
(* the program keeps apart.                                                *)
(*                                                                         *)
(* A ledger is cleared, inserted and committed in one database transaction *)
(* (Ingestion.Flush), which is one step here; the reaper's deletes are     *)
(* committed one by one, and so are steps of their own.                    *)
(***************************************************************************)
EXTENDS Integers, Sequences, FiniteSets, FiniteSetsExt

CONSTANTS
  Servers,      \* horizon processes started with --ingest
  Clis,         \* where `horizon db` commands run, one at a time in each
  MaxLedger,    \* bound of the model: the last ledger dfc-core closes
  Contents,     \* table -> the ledgers that have rows in it
  Ranges,       \* the ranges <<first, last>> an operator may have reingested
  Retentions,   \* the values of --history-retention-count to consider
  MaxFaults,    \* bound of the model: crashes, stops and failed calls
  MaxCommands   \* bound of the model: `horizon db` commands run

Ledgers == 1 .. MaxLedger

\* "effects" stands for the three tables keyed by operation, "transactions"
\* for the two keyed by transaction.
Tables == {"effects", "transactions", "ledgers", "trades"}

\* A reaper that forgets a table.
ReapOrderForgets == <<"transactions", "ledgers">>

(* The tables clearBefore deletes from, in its order. *)
ReapOrder == <<"effects", "transactions", "ledgers">>

ASSUME IngestionAssumption ==
  /\ MaxLedger \in Nat \ {0}
  /\ Contents \in [Tables -> SUBSET Ledgers] /\ Contents["ledgers"] = Ledgers
  /\ Ranges \subseteq Ledgers \X Ledgers /\ Retentions \subseteq Nat
  /\ MaxFaults \in Nat /\ MaxCommands \in Nat
  /\ Servers \cap Clis = {}

VARIABLES
  coreElder, coreLatest,  \* the ledgers in dfc-core's database
  cursor,                 \* what SetCursor last told core; it keeps the rest
  rows,                   \* table -> ledgers with rows in it (Contents)
  outdated,               \* ledgers whose importer_version is an older one
  retention,              \* RetentionCount, 0 to keep all
  up,                     \* servers that run
  job,                    \* each process: its ingestion session
  cached,                 \* each process: ledger.CurrentState()
  reaper,                 \* each process: where Tick and the reaper are
  command,                \* the `horizon db` command that runs in each Cli
  strayed,                \* history: what operators did (see Notes)
  faults, commands        \* how many there have been

coreVars == <<coreElder, coreLatest, cursor>>
historyVars == <<rows, outdated>>
countVars == <<faults, commands>>
vars == <<coreVars, historyVars, retention, strayed, up, job, cached, reaper,
          command, countVars>>

Processes == Servers \cup Clis
CommandKinds == {"backfill", "reingest", "outdated", "rebase", "clear", "reap"}

CoreLedgers == coreElder .. coreLatest

\* LatestLedger and ElderLedger: COALESCE(MAX(sequence), 0), and MIN.
LatestLedger == IF rows["ledgers"] = {} THEN 0 ELSE Max(rows["ledgers"])
ElderLedger == IF rows["ledgers"] = {} THEN 0 ELSE Min(rows["ledgers"])

NewCursor(first, last) == [first |-> first, last |-> last, lg |-> 0]
NoCursor == NewCursor(0, 0)
Idle == [at |-> "idle", cursor |-> NoCursor, clear |-> FALSE, todo |-> {}]
NewSession(c, clear) == [Idle EXCEPT !.at = "next", !.cursor = c, !.clear = clear]

Resting == [at |-> "idle", target |-> 0, table |-> 0]
ZeroState == [latest |-> 0, elder |-> 0]

HistoryOf(ledgers) == [t \in Tables |-> Contents[t] \cap ledgers]

(* Any earlier run of one server has left a part of core's history, some   *)
(* of it, after an upgrade, of an older importer version.                  *)
Init ==
  /\ coreElder = 1
  /\ coreLatest \in {l \in Ledgers : 2 * l <= MaxLedger + 1}
  /\ \E e, h \in 1 .. coreLatest :
       /\ rows \in {HistoryOf({}), HistoryOf(e .. h)}
       /\ cursor = LatestLedger
  /\ outdated \in {{}, rows["ledgers"]}
  /\ retention \in Retentions
  /\ up = {}
  /\ job = [p \in Processes |-> Idle]
  /\ cached = [p \in Processes |-> ZeroState]
  /\ reaper = [p \in Processes |-> Resting]
  /\ command = [c \in Clis |-> "none"] /\ strayed = {}
  /\ faults = 0 /\ commands = 0

Fault == faults < MaxFaults /\ faults' = faults + 1

ExitCommand(p) ==
  command' = IF p \in Clis THEN [command EXCEPT ![p] = "none"] ELSE command

\* The deferred reset of System.current is missing.
EndJobKeepsSession(p) ==
  /\ job' = job
  /\ ExitCommand(p)

(* Run returns; runOnce resets System.current, a command exits.            *)
EndJob(p) ==
  /\ job' = [job EXCEPT ![p] = Idle]
  /\ ExitCommand(p)

-----------------------------------------------------------------------------
(* dfc-core and the operators.                                             *)

CloseLedger ==
  /\ coreLatest < MaxLedger
  /\ coreLatest' = coreLatest + 1
  /\ UNCHANGED <<coreElder, cursor, historyVars, retention, strayed, up, job, cached,
                 reaper, command, countVars>>

(* Core's maintenance frees what the cursor says has been read, and keeps  *)
(* its last ledger.                                                        *)
Maintain ==
  /\ coreElder <= cursor /\ coreElder < coreLatest
  /\ coreElder' = coreElder + 1
  /\ UNCHANGED <<coreLatest, cursor, historyVars, retention, strayed, up, job, cached,
                 reaper, command, countVars>>

(* Notes on the operators, whom the program does not stop: "apart", they   *)
(* had a ledger reingested that is not next to the history (FlushLedger),  *)
(* and "beside", a command that clears everything ran beside something     *)
(* else.                                                                   *)
Notes == {"apart", "beside"}

Running == up \cup {c \in Clis : command[c] # "none"}
Beside == \E c \in Clis : command[c] \in {"clear", "rebase"} /\ Running \ {c} # {}
NoteBeside == strayed' = IF Beside' THEN strayed \cup {"beside"} ELSE strayed

StartServer(s) ==
  /\ s \notin up
  /\ up' = up \cup {s}
  /\ UNCHANGED <<coreVars, historyVars, retention, job, cached, reaper,
                 command, countVars>>
  /\ NoteBeside

(* A server, or a command, is stopped or crashes: its open transaction is  *)
(* rolled back, and what it had in memory is lost.                         *)
Crash(p) ==
  /\ p \in Running
  /\ Fault
  /\ up' = up \ {p}
  /\ EndJob(p)
  /\ cached' = [cached EXCEPT ![p] = ZeroState]
  /\ reaper' = [reaper EXCEPT ![p] = Resting]
  /\ UNCHANGED <<coreVars, historyVars, retention, strayed, commands>>

-----------------------------------------------------------------------------
(* System.Tick and runOnce, in a goroutine of its own.                     *)

(* Tick finds no current session; runOnce reads core's latest ledger.      *)
Tick(s) ==
  /\ s \in up
  /\ job[s].at = "idle"
  /\ job' = [job EXCEPT ![s] = [Idle EXCEPT !.at = "history",
                                            !.cursor.last = coreLatest]]
  /\ UNCHANGED <<coreVars, historyVars, retention, strayed, up, cached, reaper,
                 command, countVars>>

\* Starts at core's latest ledger, whatever history has.
DecideRangeAtCore(s) ==
  /\ job[s].at = "history"
  /\ LET coreRead == job[s].cursor.last IN
     job' = [job EXCEPT ![s] = IF LatestLedger = coreRead THEN Idle
                               ELSE NewSession(NewCursor(coreRead, coreRead), FALSE)]
  /\ UNCHANGED <<coreVars, historyVars, retention, strayed, up, cached, reaper,
                 command, countVars>>

(* It then reads history's, and decides what to import.  A history ahead   *)
(* of what it read of core makes a cursor that runs backwards.             *)
DecideRange(s) ==
  /\ job[s].at = "history"
  /\ LET coreRead == job[s].cursor.last IN
     job' = [job EXCEPT ![s] =
       CASE LatestLedger = coreRead -> Idle
         [] LatestLedger = 0 -> NewSession(NewCursor(coreRead, coreRead), FALSE)
         [] OTHER -> NewSession(NewCursor(LatestLedger + 1, coreRead), FALSE)]
  /\ UNCHANGED <<coreVars, historyVars, retention, strayed, up, cached, reaper,
                 command, countVars>>

-----------------------------------------------------------------------------
(* Session.Run, for a server's session and for a command's.                *)

IsReverse(c) == c.first > c.last
Incremented(c) == CASE c.lg = 0 -> c.first
                    [] c.lg # 0 /\ IsReverse(c) -> c.lg - 1
                    [] OTHER -> c.lg + 1
IsComplete(c) == IF IsReverse(c) THEN Incremented(c) < c.last
                                 ELSE Incremented(c) > c.last

(* NextLedger loads the ledger's bundle from core before anything of it is *)
(* cleared; a ledger core does not have is a gap, and ends the session.    *)
NextLedger(p) ==
  /\ job[p].at = "next"
  /\ ~IsComplete(job[p].cursor)
  /\ LET lg == Incremented(job[p].cursor) IN
     \/ /\ lg \in CoreLedgers
        /\ job' = [job EXCEPT ![p].at = "flush", ![p].cursor.lg = lg]
        /\ UNCHANGED command
     \/ lg \notin CoreLedgers /\ EndJob(p)
  /\ UNCHANGED <<coreVars, historyVars, retention, strayed, up, cached, reaper,
                 countVars>>

\* The unique indexes refuse a second row of the same ledger.
Duplicate(history, lg) ==
  \E t \in Tables : lg \in history[t] \cap Contents[t]

(* What one transaction finds before it inserts: clearLedger is part of it. *)
Cleared(p) ==
  IF job[p].clear THEN [t \in Tables |-> rows[t] \ {job[p].cursor.lg}] ELSE rows

\* A reingested ledger that keeps its old importer_version.
AfterImportKeepsVersion(lg) == outdated

\* Flush writes CurrentVersion.
AfterImport(lg) == outdated \ {lg}

\* A reingestion of a ledger neither in the history nor next to it.
IsApart(p, lg) ==
  /\ p \in Clis /\ command[p] = "reingest"
  /\ {lg - 1, lg, lg + 1} \cap rows["ledgers"] = {}

(* clearLedger, ingestLedger and Flush: one transaction, committed.        *)
FlushLedger(p) ==
  /\ job[p].at = "flush"
  /\ LET lg == job[p].cursor.lg IN
     \/ /\ ~Duplicate(Cleared(p), lg)
        /\ rows' = [t \in Tables |-> Cleared(p)[t] \cup ({lg} \cap Contents[t])]
        /\ outdated' = AfterImport(lg)
        /\ job' = [job EXCEPT ![p].at = "next"]
        /\ strayed' = IF IsApart(p, lg) THEN strayed \cup {"apart"} ELSE strayed
        /\ UNCHANGED <<command, faults>>
     \/ /\ Duplicate(Cleared(p), lg)
        /\ EndJob(p)
        /\ UNCHANGED <<historyVars, strayed, faults>>
     \/ /\ Fault                                \* the database fails: Rollback
        /\ EndJob(p)
        /\ UNCHANGED <<historyVars, strayed>>
  /\ UNCHANGED <<coreVars, retention, up, cached, reaper, commands>>

(* The range is done; a command skips the cursor update, and goes on with  *)
(* what ReingestOutdated has left.                                         *)
FinishRange(p) ==
  /\ job[p].at = "next"
  /\ IsComplete(job[p].cursor)
  /\ \/ /\ p \in Servers
        /\ job' = [job EXCEPT ![p].at = "report"]
        /\ UNCHANGED command
     \/ /\ p \in Clis /\ command[p] = "outdated"
        /\ job' = [job EXCEPT ![p].at = "outdated"]
        /\ UNCHANGED command
     \/ p \in Clis /\ command[p] # "outdated" /\ EndJob(p)
  /\ UNCHANGED <<coreVars, historyVars, retention, strayed, up, cached, reaper,
                 countVars>>

\* Reports what core has, rather than what was ingested.
ReportCursorAhead(s) ==
  /\ job[s].at = "report"
  /\ EndJob(s)
  /\ cursor' = coreLatest
  /\ UNCHANGED <<coreElder, coreLatest, historyVars, retention, strayed, up, cached,
                 reaper, countVars>>

(* reportCursorState tells core what has been read.                        *)
ReportCursor(s) ==
  /\ job[s].at = "report"
  /\ EndJob(s)
  /\ \/ cursor' = job[s].cursor.last /\ UNCHANGED faults
     \/ Fault /\ UNCHANGED cursor
  /\ UNCHANGED <<coreElder, coreLatest, historyVars, retention, strayed, up, cached,
                 reaper, commands>>

-----------------------------------------------------------------------------
(* The `horizon db` commands.                                              *)

(* A command k starts, whatever else runs.                                 *)
StartCommand(c, k, newJob) ==
  /\ command[c] = "none"
  /\ commands < MaxCommands
  /\ command' = [command EXCEPT ![c] = k]
  /\ commands' = commands + 1
  /\ job' = [job EXCEPT ![c] = newJob]
  /\ UNCHANGED <<coreVars, historyVars, retention, up, cached, faults>>
  /\ NoteBeside

\* Starts one ledger too low.
StartBackfillTooLow(c) ==
  /\ \E n \in Ledgers :
       LET start == ElderLedger - 2 IN
       StartCommand(c, "backfill", NewSession(NewCursor(start, start - n + 1), FALSE))
  /\ UNCHANGED reaper

(* UpdateLedgerState, then Backfill: n ledgers before the elder one,       *)
(* downwards.                                                              *)
StartBackfill(c) ==
  /\ \E n \in Ledgers :
       LET start == ElderLedger - 1 IN
       StartCommand(c, "backfill", NewSession(NewCursor(start, start - n + 1), FALSE))
  /\ UNCHANGED reaper

(* ReingestSingle and ReingestRange, of whatever the operator names;       *)
(* ReingestAll is the range from the latest ledger to the elder one.       *)
StartReingest(c) ==
  /\ \E range \in Ranges \cup {<<LatestLedger, ElderLedger>>} :
       StartCommand(c, "reingest",
                    NewSession(NewCursor(range[1], range[2]), TRUE))
  /\ UNCHANGED reaper

StartReingestOutdated(c) ==
  /\ StartCommand(c, "outdated", [Idle EXCEPT !.at = "outdated"])
  /\ UNCHANGED reaper

(* ReingestOutdated: the batch's next run of consecutive ledgers, or, when *)
(* there is none left, another batch, until no ledger is outdated.         *)
NextOutdated(c) ==
  /\ job[c].at = "outdated"
  /\ LET batch == IF job[c].todo # {} THEN job[c].todo ELSE outdated
         run == {l \in batch : Min(batch) .. l \subseteq batch} IN
     \/ batch = {} /\ EndJob(c)
     \/ /\ batch # {}
        /\ job' = [job EXCEPT ![c] =
             [NewSession(NewCursor(Min(run), Max(run)), TRUE)
                EXCEPT !.todo = batch \ run]]
        /\ UNCHANGED command
  /\ UNCHANGED <<coreVars, historyVars, retention, strayed, up, cached, reaper,
                 countVars>>

(* RebaseHistory reads core's latest ledger, then its elder one.           *)
StartRebase(c) ==
  /\ StartCommand(c, "rebase", [Idle EXCEPT !.at = "coreElder",
                                            !.cursor.first = coreLatest])
  /\ UNCHANGED reaper

RebaseElder(c) ==
  /\ job[c].at = "coreElder"
  /\ job' = [job EXCEPT ![c].at = "clear",
                        ![c].cursor.last = coreElder]
  /\ UNCHANGED <<coreVars, historyVars, retention, strayed, up, cached, reaper,
                 command, countVars>>

StartClear(c) ==
  /\ StartCommand(c, "clear", [Idle EXCEPT !.at = "clear"])
  /\ UNCHANGED reaper

(* ClearAll, in a transaction of its own; a rebase then reingests all that *)
(* core has, from the latest ledger down.                                  *)
ClearAll(c) ==
  /\ job[c].at = "clear"
  /\ \/ /\ rows' = HistoryOf({})
        /\ outdated' = {}
        /\ \/ /\ command[c] = "rebase"
              /\ job' = [job EXCEPT ![c] = NewSession(@.cursor, TRUE)]
              /\ UNCHANGED command
           \/ command[c] = "clear" /\ EndJob(c)
        /\ UNCHANGED faults
     \/ Fault /\ EndJob(c) /\ UNCHANGED historyVars
  /\ UNCHANGED <<coreVars, retention, strayed, up, cached, reaper, commands>>

(* `db reap` makes a new App, whose ledger state nothing has refreshed.    *)
StartReap(c) ==
  /\ StartCommand(c, "reap", Idle)
  /\ reaper' = [reaper EXCEPT ![c].at = "tick"]

-----------------------------------------------------------------------------
(* App.Tick: UpdateLedgerState, then the reaper.                           *)

(* UpdateLedgerState reads history's latest ledger, then its elder one,    *)
(* and only then sets the state; a failed read leaves the old one.         *)
RefreshLatest(s) ==
  /\ s \in up
  /\ reaper[s].at = "idle"
  /\ reaper' = [reaper EXCEPT ![s] = [Resting EXCEPT !.at = "elder",
                                                     !.target = LatestLedger]]
  /\ UNCHANGED <<coreVars, historyVars, retention, strayed, up, job, cached, command,
                 countVars>>

RefreshElder(s) ==
  /\ reaper[s].at = "elder"
  /\ reaper' = [reaper EXCEPT ![s] = [Resting EXCEPT !.at = "tick"]]
  /\ \/ /\ cached' = [cached EXCEPT ![s] = [latest |-> reaper[s].target,
                                            elder |-> ElderLedger]]
        /\ UNCHANGED faults
     \/ Fault /\ UNCHANGED cached
  /\ UNCHANGED <<coreVars, historyVars, retention, strayed, up, job, command, commands>>

(* reap.System.Tick, before nextRun.                                       *)
SkipReap(s) ==
  /\ s \in Servers
  /\ reaper[s].at = "tick"
  /\ reaper' = [reaper EXCEPT ![s] = Resting]
  /\ UNCHANGED <<coreVars, historyVars, retention, strayed, up, job, cached, command,
                 countVars>>

(* The reaper returns, and a `db reap` with it.                            *)
EndReap(p) ==
  /\ reaper' = [reaper EXCEPT ![p] = Resting]
  /\ ExitCommand(p)

\* One too high.
TargetElderTooHigh(p) == cached[p].latest - retention + 2

TargetElder(p) == cached[p].latest - retention + 1

\* Forgets that a retention count of 0 keeps everything.
NothingToReapForgetsZero(p) == TargetElder(p) < cached[p].elder

\* DeleteUnretainedHistory returns before it deletes anything.
NothingToReap(p) == retention = 0 \/ TargetElder(p) < cached[p].elder

DeleteUnretainedHistory(p) ==
  /\ reaper[p].at = "tick"
  /\ \/ NothingToReap(p) /\ EndReap(p)
     \/ /\ ~NothingToReap(p)
        /\ reaper' = [reaper EXCEPT ![p] = [at |-> "clear", table |-> 1,
                                            target |-> TargetElder(p)]]
        /\ UNCHANGED command
  /\ UNCHANGED <<coreVars, historyVars, retention, strayed, up, job, cached, countVars>>

(* One DeleteRange of clearBefore; a failed one ends it.                   *)
ClearBefore(p) ==
  /\ reaper[p].at = "clear"
  /\ LET t == ReapOrder[reaper[p].table] IN
     \/ /\ rows' = [rows EXCEPT ![t] = {l \in @ : l >= reaper[p].target}]
        /\ outdated' = outdated \cap rows'["ledgers"]
        /\ \/ /\ reaper[p].table < Len(ReapOrder)
              /\ reaper' = [reaper EXCEPT ![p].table = @ + 1]
              /\ UNCHANGED command
           \/ reaper[p].table = Len(ReapOrder) /\ EndReap(p)
        /\ UNCHANGED faults
     \/ Fault /\ EndReap(p) /\ UNCHANGED historyVars
  /\ UNCHANGED <<coreVars, retention, strayed, up, job, cached, commands>>

-----------------------------------------------------------------------------
Ingest(p) ==
  \/ Tick(p) \/ DecideRange(p)
  \/ NextLedger(p) \/ FlushLedger(p) \/ FinishRange(p) \/ ReportCursor(p)

Refresh(p) == RefreshLatest(p) \/ RefreshElder(p)
Reap(p) == DeleteUnretainedHistory(p) \/ ClearBefore(p)

CommandStep(c) == NextOutdated(c) \/ RebaseElder(c) \/ ClearAll(c)

StartSomeCommand(c) ==
  \/ StartBackfill(c) \/ StartReingest(c) \/ StartReingestOutdated(c)
  \/ StartRebase(c) \/ StartClear(c) \/ StartReap(c)

Next ==
  \/ CloseLedger \/ Maintain
  \/ \E s \in Servers : StartServer(s) \/ Refresh(s) \/ SkipReap(s)
  \/ \E p \in Processes : Crash(p) \/ Ingest(p) \/ Reap(p)
  \/ \E c \in Clis : CommandStep(c) \/ StartSomeCommand(c)

Spec == Init /\ [][Next]_vars

(* Every goroutine and command is scheduled, the ticker ticks, a server    *)
(* that stopped is started again, and the reaper's hour comes round.       *)
Fairness ==
  /\ \A s \in Servers : WF_vars(StartServer(s)) /\ WF_vars(Refresh(s))
  /\ \A s \in Servers : SF_vars(DeleteUnretainedHistory(s))
  /\ \A p \in Processes : WF_vars(Ingest(p)) /\ WF_vars(ClearBefore(p))
  /\ \A c \in Clis : WF_vars(CommandStep(c)) /\ WF_vars(Reap(c))

FairSpec == Spec /\ Fairness

-----------------------------------------------------------------------------
(* Properties.                                                             *)

JobPlaces == {"idle", "history", "next", "flush", "report", "outdated",
              "coreElder", "clear"}
Sequence == 0 - MaxLedger .. MaxLedger + 1

(* Types, and what each place of a session implies.                        *)
TypeOK ==
  /\ coreElder \in Ledgers /\ coreLatest \in Ledgers /\ cursor \in 0 .. MaxLedger
  /\ rows \in [Tables -> SUBSET Ledgers] /\ outdated \subseteq rows["ledgers"]
  /\ retention \in Retentions /\ up \subseteq Servers
  /\ \A p \in Processes :
       /\ job[p].at \in JobPlaces
       /\ job[p].cursor \in [first : Sequence, last : Sequence, lg : Sequence]
       /\ job[p].clear \in BOOLEAN /\ job[p].todo \subseteq Ledgers
       /\ job[p].at = "flush" => job[p].cursor.lg \in 1 .. coreLatest
       /\ reaper[p].at \in {"idle", "elder", "tick", "clear"}
       /\ reaper[p].at = "clear" => reaper[p].table \in 1 .. Len(ReapOrder)
       /\ cached[p] \in [latest : 0 .. MaxLedger, elder : 0 .. MaxLedger]
  /\ \A s \in Servers \ up : job[s] = Idle /\ reaper[s] = Resting
  /\ command \in [Clis -> CommandKinds \cup {"none"}] /\ strayed \subseteq Notes
  /\ faults \in 0 .. MaxFaults /\ commands \in 0 .. MaxCommands

\* The ledgers to keep, all of them when the retention count is 0.
InWindow(l) == retention = 0 \/ l > LatestLedger - retention

(* "A gap-free window" (docs/admin.md:113): whatever stops anywhere and    *)
(* runs side by side, there is no hole between the elder and the latest    *)
(* ledger, of the ledgers to keep; a backfill or a reingestion beside a    *)
(* reaper may leave one below. That is so as long as the operators do not  *)
(* reingest ledgers apart from the history, nor clear it beside a server   *)
(* or another command; the program lets them.                              *)
GapFree ==
  strayed = {} =>
    \A l \in Ledgers : ElderLedger <= l /\ l <= LatestLedger /\ InWindow(l)
                        => l \in rows["ledgers"]

(* Whatever is half done, a ledger inside the retention window is there    *)
(* with the rows of all its tables, or not at all: flushes are atomic, and *)
(* the deletes of a reaper, half done or with a stale ledger state, stay   *)
(* below the window, unless the history was cleared beside it.             *)
WindowIsWhole ==
  "beside" \notin strayed =>
    \A l \in Ledgers : InWindow(l) =>
      \A t \in Tables : l \in rows[t] <=> l \in rows["ledgers"] \cap Contents[t]

(* Core still has the ledger after the latest one of the history: the      *)
(* cursor never runs ahead of what is committed, so ingestion can always   *)
(* go on, unless the operators strayed (a cleared history that is          *)
(* reingested from an early ledger on is one core has moved away from).    *)
CoreKeepsUnread ==
  strayed = {} /\ rows["ledgers"] # {} => coreElder <= LatestLedger + 1

Clearing == \E c \in Clis : command[c] \in {"clear", "rebase"}

(* Only `db clear` and `db rebase` take away a row inside the window: the  *)
(* reaper with its cached state does not, and a reingestion puts back what *)
(* it cleared in the same transaction, or leaves all as it was.            *)
KeepsRetained ==
  [][~Clearing /\ "beside" \notin strayed =>
       \A t \in Tables : \A l \in rows[t] \ rows'[t] : ~InWindow(l)]_rows

\* The first ledger from which on there is none missing.
UnbrokenFrom ==
  IF rows["ledgers"] = {} THEN 0
  ELSE Min({l \in rows["ledgers"] : l .. LatestLedger \subseteq rows["ledgers"]})

(* Sessions, commands and reapers together implement HistoryWindow: the    *)
(* unbroken run of ledgers that ends with the latest one grows by one      *)
(* ledger at its upper end, and is cut at its lower end only by a reaper,  *)
(* below the window, or ended by a clear; until the operators stray.       *)
Window == INSTANCE HistoryWindow WITH
            closed <- coreLatest, elder <- UnbrokenFrom, latest <- LatestLedger,
            astray <- strayed # {}

WindowSpec == Window!Spec

(* After the last crash or command, history reaches core's latest ledger   *)
(* and stays with it, unless the operators strayed.                        *)
CatchesUp == <>[](LatestLedger = coreLatest \/ strayed # {})

(* What a reaper that failed half-way has left goes away in the end: all   *)
(* but the trades, which no reaper deletes; unless the operators strayed.  *)
ReapCompletes ==
  \A t \in Tables \ {"trades"} :
    <>[](strayed # {} \/ \A l \in rows[t] : InWindow(l))

(* Every command ends; ReingestOutdated's loop too, which the note at      *)
(* system.go:126 worries about; unless the operators strayed.              *)
CommandsEnd == \A c \in Clis : []<>(command[c] = "none" \/ strayed # {})

(* docs/admin.md:109: `horizon db reap` forces a collection. A `db reap`   *)
(* that ends without a fault has left nothing outside the window.          *)
ForcedCollection ==
  [][\A c \in Clis :
       command[c] = "reap" /\ command'[c] = "none" /\ faults' = faults =>
         \A l \in rows'["ledgers"] : InWindow(l)']_vars
=============================================================================
