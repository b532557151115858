-------------------------- MODULE Ingestion_proofs --------------------------
(***************************************************************************)
(* Proofs about the history database and the processes that write it.      *)
(*                                                                         *)
(* For any number of servers: types (IngestionTypeCorrect), that a ledger  *)
(* of the retention window is there whole or not at all                    *)
(* (WindowStaysWhole), and that nothing inside the window is taken away    *)
(* but by the commands that clear everything (RetainedIsKept).  For one    *)
(* ingesting server, as docs/admin.md:99 recommends, and any number of     *)
(* commands side by side: that the history has no gap (HistoryHasNoGaps),  *)
(* that core keeps what ingestion needs next (UnreadIsKept), and that the  *)
(* system implements the abstract specification HistoryWindow              *)
(* (HistoryIsWindow).  All but the types hold until the operators stray    *)
(* (Notes in Ingestion), and each theorem says from what.                  *)
(*                                                                         *)
(* The invariant is layered, each layer inductive with those before it:    *)
(*                                                                         *)
(*   Types         the state's types;                                      *)
(*   ControlInv    where each process can be: a server that is down holds  *)
(*                 nothing, and a command that clears everything is alone  *)
(*                 as long as the operators are orderly;                   *)
(*   ReapInv and   no reaper counts from a ledger state that is ahead of   *)
(*   RowsInv       the history; a table never has a row of a ledger        *)
(*                 without content for it;                                 *)
(*   OneServerInv  every session is at a ledger that leaves no gap in the  *)
(*                 window (Joins, Opens), or at one both neighbours of     *)
(*                 which do (Covered), and the cursor is not ahead of any. *)
(***************************************************************************)
EXTENDS Ingestion, WellFoundedInduction, TLAPS

-----------------------------------------------------------------------------
(* The lowest and the highest ledger of a set.                             *)

LEMMA NaturalsHaveMin ==
  ASSUME NEW S \in SUBSET Nat, S # {}
  PROVE  \E m \in S : \A x \in S : m <= x
<1> DEFINE Less == OpToRel(<, Nat)
<1>1. IsWellFoundedOn(Less, Nat)
  BY NatLessThanWellFounded
<1>2. \A x, y \in Nat : x < y => <<x, y>> \in Less
  BY DEF OpToRel
<1> HIDE DEF Less
<1>3. PICK m \in S : \A x \in S : <<x, m>> \notin Less
  BY <1>1, WFMin
<1>4. \A x \in S : ~(x < m)
  BY <1>2, <1>3
<1> QED BY <1>4

LEMMA MinOfLedgers ==
  ASSUME NEW S \in SUBSET Ledgers, S # {}
  PROVE  Min(S) \in S /\ \A x \in S : Min(S) <= x
<1>1. S \in SUBSET Nat
  BY IngestionAssumption DEF Ledgers
<1>2. \E m \in S : \A x \in S : m <= x
  BY <1>1, NaturalsHaveMin
<1> QED BY <1>2 DEF Min

LEMMA MaxOfLedgers ==
  ASSUME NEW S \in SUBSET Ledgers, S # {}
  PROVE  Max(S) \in S /\ \A x \in S : x <= Max(S)
<1>1. /\ MaxLedger \in Nat
      /\ \A x \in S : x \in Nat /\ x <= MaxLedger
  BY IngestionAssumption DEF Ledgers
<1> DEFINE Gaps == {MaxLedger - x : x \in S}
<1>2. Gaps \in SUBSET Nat /\ Gaps # {}
  BY <1>1
<1>3. PICK g \in Gaps : \A h \in Gaps : g <= h
  BY <1>2, NaturalsHaveMin
<1>4. PICK m \in S : g = MaxLedger - m
  BY <1>3
<1>5. \A x \in S : x <= m
  <2> TAKE x \in S
  <2>1. MaxLedger - m <= MaxLedger - x
    BY <1>3, <1>4
  <2> QED BY <1>1, <2>1
<1>6. \E k \in S : \A x \in S : k >= x
  BY <1>1, <1>5
<1>7. Max(S) \in S /\ \A x \in S : Max(S) >= x
  BY <1>6 DEF Max
<1> QED BY <1>1, <1>7

-----------------------------------------------------------------------------
(* Types of the whole state.                                               *)

SessionCursor == [first : Sequence, last : Sequence, lg : Sequence]
Session == [at : JobPlaces, cursor : SessionCursor, clear : BOOLEAN,
            todo : SUBSET Ledgers]

ReaperPlaces == {"idle", "elder", "tick", "clear"}
Reaper == [at : ReaperPlaces, target : Int, table : 0 .. 3]

LedgerState == [latest : 0 .. MaxLedger, elder : 0 .. MaxLedger]

Types ==
  /\ coreElder \in Ledgers /\ coreLatest \in Ledgers /\ cursor \in 0 .. MaxLedger
  /\ rows \in [Tables -> SUBSET Ledgers] /\ outdated \in SUBSET rows["ledgers"]
  /\ retention \in Retentions /\ up \in SUBSET Servers
  /\ job \in [Processes -> Session]
  /\ \A p \in Processes :
       /\ p \in Servers /\ job[p].at # "idle" => job[p].cursor.last \in Ledgers
       /\ job[p].at \in {"history", "report"} => p \in Servers
       /\ job[p].at = "flush" => job[p].cursor.lg \in 1 .. coreLatest
  /\ reaper \in [Processes -> Reaper]
  /\ \A p \in Processes :
       /\ reaper[p].at = "elder" => reaper[p].target \in 0 .. MaxLedger
       /\ reaper[p].at = "clear" => reaper[p].table \in 1 .. 3
  /\ cached \in [Processes -> LedgerState]
  /\ command \in [Clis -> CommandKinds \cup {"none"}]
  /\ faults \in 0 .. MaxFaults /\ commands \in 0 .. MaxCommands

LEMMA Constants ==
  /\ MaxLedger \in Nat /\ MaxLedger >= 1
  /\ \A l : l \in Ledgers <=> l \in Nat /\ 1 <= l /\ l <= MaxLedger
  /\ \A n : n \in Sequence <=> n \in Int /\ 0 - MaxLedger <= n /\ n <= MaxLedger + 1
  /\ MaxFaults \in Nat /\ MaxCommands \in Nat
  /\ \A r \in Retentions : r \in Nat
  /\ \A c \in Clis : c \in Processes /\ c \notin Servers
  /\ \A s \in Servers : s \in Processes /\ s \notin Clis
  /\ \A p \in Processes : p \in Servers \/ p \in Clis
  /\ "ledgers" \in Tables /\ Contents["ledgers"] = Ledgers
  /\ \A t \in Tables : Contents[t] \in SUBSET Ledgers
BY IngestionAssumption DEF Ledgers, Sequence, Processes, Tables

(* The latest and the elder ledger of a history.                           *)
IsTop(n, S) == /\ n \in Nat /\ n <= MaxLedger
               /\ S = {} => n = 0
               /\ S # {} => n \in S
               /\ \A l \in S : l <= n

IsBottom(n, S) == /\ n \in Nat /\ n <= MaxLedger
                  /\ S = {} => n = 0
                  /\ S # {} => n \in S
                  /\ \A l \in S : n <= l

LEMMA TopOfLedgers ==
  ASSUME NEW S \in SUBSET Ledgers, NEW n, n = IF S = {} THEN 0 ELSE Max(S)
  PROVE  IsTop(n, S)
<1>1. CASE S = {}
  BY <1>1, Constants DEF IsTop
<1>2. CASE S # {}
  <2>1. n \in S /\ \A l \in S : l <= n
    BY <1>2, MaxOfLedgers
  <2>2. n \in Ledgers
    BY <2>1
  <2> QED BY <1>2, <2>1, <2>2, Constants DEF IsTop
<1> QED BY <1>1, <1>2

LEMMA BottomOfLedgers ==
  ASSUME NEW S \in SUBSET Ledgers, NEW n, n = IF S = {} THEN 0 ELSE Min(S)
  PROVE  IsBottom(n, S)
<1>1. CASE S = {}
  BY <1>1, Constants DEF IsBottom
<1>2. CASE S # {}
  <2>1. n \in S /\ \A l \in S : n <= l
    BY <1>2, MinOfLedgers
  <2>2. n \in Ledgers
    BY <2>1
  <2> QED BY <1>2, <2>1, <2>2, Constants DEF IsBottom
<1> QED BY <1>1, <1>2

LEMMA LatestIsTop ==
  ASSUME Types
  PROVE  /\ IsTop(LatestLedger, rows["ledgers"])
         /\ IsBottom(ElderLedger, rows["ledgers"])
         /\ rows["ledgers"] \in SUBSET Ledgers
<1>1. rows["ledgers"] \in SUBSET Ledgers
  BY Constants DEF Types
<1> QED BY <1>1, TopOfLedgers, BottomOfLedgers DEF LatestLedger, ElderLedger

LEMMA NextLatestIsTop ==
  ASSUME rows' \in [Tables -> SUBSET Ledgers]
  PROVE  /\ IsTop(LatestLedger', rows'["ledgers"])
         /\ IsBottom(ElderLedger', rows'["ledgers"])
<1>1. rows'["ledgers"] \in SUBSET Ledgers
  BY Constants
<1> QED BY <1>1, TopOfLedgers, BottomOfLedgers DEF LatestLedger, ElderLedger

LEMMA FaultType ==
  ASSUME Types, Fault \/ UNCHANGED faults
  PROVE  faults' \in 0 .. MaxFaults
BY Constants DEF Types, Fault

-----------------------------------------------------------------------------
(* Sessions, and what each action does to the one it moves.                *)

OnlyJob(p) == \A q \in Processes : q # p => job'[q] = job[q]

SetsJob(p, j) == /\ job' \in [Processes -> Session]
                 /\ OnlyJob(p)
                 /\ job'[p] = j

KeepsRange(p) == /\ job'[p].cursor.first = job[p].cursor.first
                 /\ job'[p].cursor.last = job[p].cursor.last
                 /\ job'[p].clear = job[p].clear
                 /\ job'[p].todo = job[p].todo

\* The session moves on, and its command with it, if it is one.
MovesTo(p, place) == /\ job' \in [Processes -> Session]
                     /\ OnlyJob(p)
                     /\ job'[p].at = place
                     /\ KeepsRange(p)
                     /\ command' = command

Ends(p) == /\ SetsJob(p, Idle)
           /\ ExitCommand(p)

LEMMA JobFields ==
  ASSUME Types, NEW p \in Processes
  PROVE  /\ job[p] \in Session /\ job[p].at \in JobPlaces
         /\ job[p].cursor \in SessionCursor
         /\ job[p].cursor.first \in Sequence /\ job[p].cursor.last \in Sequence
         /\ job[p].cursor.lg \in Sequence
         /\ job[p].cursor.first \in Int /\ job[p].cursor.last \in Int
         /\ job[p].cursor.lg \in Int
         /\ job[p].clear \in BOOLEAN /\ job[p].todo \in SUBSET Ledgers
<1>1. job[p] \in Session
  BY DEF Types
<1>2. /\ job[p].at \in JobPlaces /\ job[p].cursor \in SessionCursor
      /\ job[p].clear \in BOOLEAN /\ job[p].todo \in SUBSET Ledgers
  BY <1>1 DEF Session
<1>3. /\ job[p].cursor.first \in Sequence /\ job[p].cursor.last \in Sequence
      /\ job[p].cursor.lg \in Sequence
  BY <1>2 DEF SessionCursor
<1> QED BY <1>1, <1>2, <1>3, Constants

LEMMA NewCursorIs ==
  ASSUME NEW first \in Sequence, NEW last \in Sequence
  PROVE  /\ NewCursor(first, last) \in SessionCursor
         /\ NewCursor(first, last).first = first
         /\ NewCursor(first, last).last = last
         /\ NewCursor(first, last).lg = 0
<1>1. 0 \in Sequence
  BY Constants
<1> QED BY <1>1 DEF NewCursor, SessionCursor

LEMMA IdleIs ==
  /\ Idle \in Session /\ Idle.at = "idle" /\ Idle.cursor = NoCursor
  /\ NoCursor \in SessionCursor /\ NoCursor.lg = 0
  /\ Idle.clear = FALSE /\ Idle.todo = {}
<1>1. NoCursor \in SessionCursor /\ NoCursor.lg = 0
  <2>1. 0 \in Sequence
    BY Constants
  <2> QED BY <2>1, NewCursorIs DEF NoCursor
<1>2. "idle" \in JobPlaces
  BY DEF JobPlaces
<1> QED BY <1>1, <1>2 DEF Idle, Session

LEMMA NewSessionIs ==
  ASSUME NEW c \in SessionCursor, NEW clear \in BOOLEAN
  PROVE  /\ NewSession(c, clear) \in Session
         /\ NewSession(c, clear).at = "next"
         /\ NewSession(c, clear).cursor = c
         /\ NewSession(c, clear).clear = clear
         /\ NewSession(c, clear).todo = {}
<1>1. "next" \in JobPlaces
  BY DEF JobPlaces
<1> QED BY <1>1, IdleIs DEF NewSession, Session

\* A session that begins at a place other than a range's.
LEMMA IdleAtIs ==
  ASSUME NEW place \in JobPlaces
  PROVE  /\ [Idle EXCEPT !.at = place] \in Session
         /\ [Idle EXCEPT !.at = place].at = place
         /\ [Idle EXCEPT !.at = place].cursor = NoCursor
         /\ [Idle EXCEPT !.at = place].clear = FALSE
         /\ [Idle EXCEPT !.at = place].todo = {}
BY IdleIs DEF Session

LEMMA SetJob ==
  ASSUME Types, NEW p \in Processes, NEW j \in Session,
         job' = [job EXCEPT ![p] = j]
  PROVE  SetsJob(p, j)
BY DEF Types, SetsJob, OnlyJob

LEMMA EndJobDoes ==
  ASSUME Types, NEW p \in Processes, EndJob(p)
  PROVE  Ends(p)
BY IdleIs, SetJob DEF EndJob, Ends

LEMMA MoveJob ==
  ASSUME Types, NEW p \in Processes, NEW place \in JobPlaces,
         job' = [job EXCEPT ![p].at = place], command' = command
  PROVE  MovesTo(p, place) /\ job'[p].cursor.lg = job[p].cursor.lg
<1>1. /\ job' \in [Processes -> Session] /\ OnlyJob(p)
      /\ job'[p].at = place /\ job'[p].cursor = job[p].cursor
      /\ job'[p].clear = job[p].clear /\ job'[p].todo = job[p].todo
  BY DEF Types, Session, OnlyJob
<1> QED BY <1>1 DEF MovesTo, KeepsRange

LEMMA MoveJobWithLedger ==
  ASSUME Types, NEW p \in Processes, NEW place \in JobPlaces,
         NEW lg \in Sequence,
         job' = [job EXCEPT ![p].at = place, ![p].cursor.lg = lg],
         command' = command
  PROVE  MovesTo(p, place) /\ job'[p].cursor.lg = lg
<1>1. [job[p].cursor EXCEPT !.lg = lg] \in SessionCursor
  BY JobFields DEF SessionCursor
<1>2. /\ job' \in [Processes -> Session] /\ OnlyJob(p)
      /\ job'[p].at = place
      /\ job'[p].cursor = [job[p].cursor EXCEPT !.lg = lg]
      /\ job'[p].clear = job[p].clear /\ job'[p].todo = job[p].todo
  BY <1>1 DEF Types, Session, OnlyJob
<1>3. /\ job'[p].cursor.first = job[p].cursor.first
      /\ job'[p].cursor.last = job[p].cursor.last
      /\ job'[p].cursor.lg = lg
  BY <1>2, JobFields DEF SessionCursor
<1> QED BY <1>2, <1>3 DEF MovesTo, KeepsRange

(* The actions of a session.                                               *)

LEMMA TickDoes ==
  ASSUME Types, NEW s \in Processes, Tick(s)
  PROVE  /\ s \in up /\ job[s].at = "idle"
         /\ \E j \in Session :
              /\ SetsJob(s, j) /\ j.at = "history" /\ ~j.clear
              /\ j.cursor.last = coreLatest
<1>1. coreLatest \in Sequence
  BY Constants DEF Types
<1> DEFINE c == [NoCursor EXCEPT !.last = coreLatest]
           j == [Idle EXCEPT !.at = "history", !.cursor.last = coreLatest]
<1>2. c \in SessionCursor /\ c.last = coreLatest
  BY <1>1, IdleIs DEF SessionCursor
<1>3. j \in Session /\ j.at = "history" /\ ~j.clear /\ j.cursor = c
  <2>1. "history" \in JobPlaces
    BY DEF JobPlaces
  <2> QED BY <1>2, <2>1, IdleIs DEF Session
<1>4. job' = [job EXCEPT ![s] = j] /\ s \in up /\ job[s].at = "idle"
  BY DEF Tick
<1> HIDE DEF j, c
<1> QED BY <1>2, <1>3, <1>4, SetJob

LEMMA DecideRangeDoes ==
  ASSUME Types, NEW s \in Processes, DecideRange(s)
  PROVE  /\ job[s].at = "history"
         /\ \/ SetsJob(s, Idle)
            \/ \E j \in Session :
                 /\ LatestLedger # job[s].cursor.last
                 /\ SetsJob(s, j) /\ j.at = "next" /\ ~j.clear
                 /\ j.cursor.lg = 0 /\ j.cursor.last = job[s].cursor.last
                 /\ j.cursor.first = IF LatestLedger = 0 THEN job[s].cursor.last
                                                         ELSE LatestLedger + 1
<1>1. PICK c \in Sequence : c = job[s].cursor.last
  BY JobFields
<1>2. PICK n \in Sequence : n = LatestLedger + 1
  BY LatestIsTop, Constants DEF IsTop
<1>3. job[s].at = "history"
  BY DEF DecideRange
<1>4. CASE LatestLedger = c
  <2>1. LatestLedger # 0
    <3>1. s \in Servers
      BY <1>3 DEF Types
    <3>2. c \in Ledgers
      BY <1>1, <1>3, <3>1 DEF Types
    <3> QED BY <1>4, <3>2, Constants
  <2>2. job' = [job EXCEPT ![s] = Idle]
    BY <1>1, <1>4, <2>1 DEF DecideRange
  <2> QED BY <1>3, <2>2, SetJob, IdleIs
<1>5. CASE LatestLedger # c
  <2>1. PICK f \in Sequence : f = IF LatestLedger = 0 THEN c ELSE n
    OBVIOUS
  <2>2. job' = [job EXCEPT ![s] = NewSession(NewCursor(f, c), FALSE)]
    BY <1>1, <1>2, <1>5, <2>1 DEF DecideRange
  <2>3. PICK k \in SessionCursor : /\ k = NewCursor(f, c)
                                   /\ k.first = f /\ k.last = c /\ k.lg = 0
    BY NewCursorIs
  <2>4. PICK j \in Session : /\ j = NewSession(k, FALSE)
                             /\ j.at = "next" /\ j.cursor = k /\ j.clear = FALSE
    BY NewSessionIs
  <2>5. SetsJob(s, j)
    BY <2>2, <2>3, <2>4, SetJob
  <2> QED BY <1>1, <1>2, <1>3, <1>5, <2>1, <2>3, <2>4, <2>5
<1> QED BY <1>4, <1>5

LEMMA NextLedgerDoes ==
  ASSUME Types, NEW p \in Processes, NextLedger(p)
  PROVE  /\ job[p].at = "next" /\ ~IsComplete(job[p].cursor)
         /\ \/ /\ MovesTo(p, "flush")
               /\ job'[p].cursor.lg = Incremented(job[p].cursor)
               /\ job'[p].cursor.lg \in CoreLedgers
            \/ Ends(p)
<1>1. job[p].at = "next" /\ ~IsComplete(job[p].cursor)
  BY DEF NextLedger
<1>2. CASE EndJob(p)
  BY <1>1, <1>2, EndJobDoes
<1>3. CASE ~EndJob(p)
  <2>1. PICK lg \in CoreLedgers : lg = Incremented(job[p].cursor)
    BY <1>3 DEF NextLedger
  <2>2. lg \in Sequence
    BY <2>1, Constants DEF CoreLedgers, Types
  <2>3. job' = [job EXCEPT ![p].at = "flush", ![p].cursor.lg = lg]
        /\ command' = command
    BY <1>3, <2>1 DEF NextLedger
  <2>4. "flush" \in JobPlaces
    BY DEF JobPlaces
  <2> QED BY <1>1, <2>1, <2>2, <2>3, <2>4, MoveJobWithLedger
<1> QED BY <1>2, <1>3

(* A flush adds the ledger's rows, in place of those it clears first; or   *)
(* it changes nothing.                                                     *)
Adds(p) ==
  LET lg == job[p].cursor.lg IN
  /\ ~Duplicate(Cleared(p), lg)
  /\ rows' = [t \in Tables |-> Cleared(p)[t] \cup ({lg} \cap Contents[t])]
  /\ outdated' = AfterImport(lg)

LEMMA FlushLedgerDoes ==
  ASSUME Types, NEW p \in Processes, FlushLedger(p)
  PROVE  /\ job[p].at = "flush"
         /\ Fault \/ UNCHANGED faults
         /\ \/ /\ Adds(p) /\ MovesTo(p, "next")
               /\ job'[p].cursor.lg = job[p].cursor.lg
            \/ Ends(p) /\ UNCHANGED <<rows, outdated>>
<1>1. "next" \in JobPlaces
  BY DEF JobPlaces
<1>2. job[p].at = "flush"
  BY DEF FlushLedger
<1>3. \/ /\ Adds(p)
         /\ job' = [job EXCEPT ![p].at = "next"]
         /\ UNCHANGED <<command, faults>>
      \/ EndJob(p) /\ UNCHANGED <<rows, outdated, faults>>
      \/ Fault /\ EndJob(p) /\ UNCHANGED <<rows, outdated>>
  BY DEF FlushLedger, Adds, historyVars
<1> QED BY <1>1, <1>2, <1>3, MoveJob, EndJobDoes

LEMMA FinishRangeDoes ==
  ASSUME Types, NEW p \in Processes, FinishRange(p)
  PROVE  /\ job[p].at = "next" /\ IsComplete(job[p].cursor)
         /\ \/ p \in Servers /\ MovesTo(p, "report")
            \/ p \in Clis /\ command[p] = "outdated" /\ MovesTo(p, "outdated")
            \/ p \in Clis /\ command[p] # "outdated" /\ Ends(p)
<1>1. "report" \in JobPlaces /\ "outdated" \in JobPlaces
  BY DEF JobPlaces
<1> QED BY <1>1, MoveJob, EndJobDoes DEF FinishRange

LEMMA ReportCursorDoes ==
  ASSUME Types, NEW s \in Processes, ReportCursor(s)
  PROVE  /\ job[s].at = "report" /\ Ends(s)
         /\ cursor' \in {cursor, job[s].cursor.last}
         /\ Fault \/ UNCHANGED faults
BY EndJobDoes DEF ReportCursor

(* ReingestOutdated: the next run is of ledgers of the batch.              *)
LEMMA NextOutdatedDoes ==
  ASSUME Types, NEW c \in Clis, NextOutdated(c)
  PROVE  /\ job[c].at = "outdated"
         /\ \/ Ends(c)
            \/ \E j \in Session :
                 /\ SetsJob(c, j) /\ command' = command
                 /\ j.at = "next" /\ j.cursor.lg = 0
                 /\ \E batch \in {job[c].todo, outdated} :
                      /\ j.cursor.first \in batch /\ j.cursor.last \in batch
                      /\ j.todo \subseteq batch
<1> DEFINE batch == IF job[c].todo # {} THEN job[c].todo ELSE outdated
           run == {l \in batch : Min(batch) .. l \subseteq batch}
<1>0. c \in Processes
  BY Constants
<1>1. batch \in {job[c].todo, outdated} /\ batch \in SUBSET Ledgers
  <2>1. job[c].todo \in SUBSET Ledgers
    BY <1>0, JobFields
  <2>2. outdated \in SUBSET Ledgers
    BY LatestIsTop DEF Types
  <2> QED BY <2>1, <2>2
<1>2. CASE batch = {}
  <2>1. EndJob(c)
    BY <1>2 DEF NextOutdated
  <2> QED BY <1>0, <2>1, EndJobDoes DEF NextOutdated
<1>3. CASE batch # {}
  <2>1. Min(batch) \in batch
    BY <1>1, <1>3, MinOfLedgers
  <2>2. Min(batch) \in run
    <3>1. PICK m \in batch : m = Min(batch)
      BY <2>1
    <3>2. m \in Nat
      BY <1>1, <3>1, Constants
    <3>3. m .. m \subseteq batch
      BY <3>1, <3>2
    <3> QED BY <3>1, <3>3
  <2>3. Min(run) \in run /\ Max(run) \in run
    <3>1. run \in SUBSET Ledgers /\ run # {}
      BY <1>1, <2>2
    <3> HIDE DEF run
    <3> QED BY <3>1, MinOfLedgers, MaxOfLedgers
  <2>4. PICK first \in batch, last \in batch : first = Min(run) /\ last = Max(run)
    BY <2>3
  <2>5. first \in Sequence /\ last \in Sequence
    BY <1>1, <2>4, Constants
  <2>6. PICK k \in SessionCursor :
          /\ k = NewCursor(first, last)
          /\ k.first = first /\ k.last = last /\ k.lg = 0
    BY <2>5, NewCursorIs
  <2>7. PICK n \in Session : /\ n = NewSession(k, TRUE)
                             /\ n.at = "next" /\ n.cursor = k
    BY NewSessionIs
  <2>8. PICK left \in SUBSET Ledgers : left = batch \ run /\ left \subseteq batch
    BY <1>1
  <2>9. PICK j \in Session : /\ j = [n EXCEPT !.todo = left]
                             /\ j.at = "next" /\ j.cursor = k /\ j.todo = left
    <3> DEFINE j == [n EXCEPT !.todo = left]
    <3>1. j \in Session /\ j.at = "next" /\ j.cursor = k /\ j.todo = left
      BY <2>7, <2>8 DEF Session
    <3> HIDE DEF j
    <3>2. \E i \in Session : /\ i = j
                             /\ i.at = "next" /\ i.cursor = k /\ i.todo = left
      BY <3>1
    <3> QED BY <3>2 DEF j
  <2>10. job' = [job EXCEPT ![c] =
                   [NewSession(NewCursor(Min(run), Max(run)), TRUE)
                      EXCEPT !.todo = batch \ run]]
         /\ command' = command /\ job[c].at = "outdated"
    BY <1>3 DEF NextOutdated
  <2>11. job' = [job EXCEPT ![c] = j]
    <3> HIDE DEF run, batch
    <3> QED BY <2>4, <2>6, <2>7, <2>8, <2>9, <2>10
  <2>12. SetsJob(c, j)
    BY <1>0, <2>11, SetJob
  <2> HIDE DEF batch, run
  <2> QED BY <1>1, <2>4, <2>6, <2>8, <2>9, <2>10, <2>12
<1> QED BY <1>2, <1>3

LEMMA RebaseElderDoes ==
  ASSUME Types, NEW c \in Clis, RebaseElder(c)
  PROVE  /\ job[c].at = "coreElder"
         /\ job' \in [Processes -> Session] /\ OnlyJob(c)
         /\ job'[c].at = "clear" /\ command' = command
         /\ job'[c].cursor.first = job[c].cursor.first
         /\ job'[c].cursor.lg = job[c].cursor.lg
<1>1. coreElder \in Sequence /\ "clear" \in JobPlaces /\ c \in Processes
  BY Constants DEF Types, JobPlaces
<1>2. [job[c].cursor EXCEPT !.last = coreElder] \in SessionCursor
  BY <1>1, JobFields DEF SessionCursor
<1>3. /\ job' \in [Processes -> Session] /\ OnlyJob(c)
      /\ job'[c].at = "clear"
      /\ job'[c].cursor = [job[c].cursor EXCEPT !.last = coreElder]
  BY <1>1, <1>2 DEF RebaseElder, Types, Session, OnlyJob
<1>4. /\ job'[c].cursor.first = job[c].cursor.first
      /\ job'[c].cursor.lg = job[c].cursor.lg
  BY <1>1, <1>3, JobFields DEF SessionCursor
<1> QED BY <1>3, <1>4 DEF RebaseElder

(* ClearAll empties the history, or fails.                                 *)
LEMMA ClearAllDoes ==
  ASSUME Types, NEW c \in Clis, ClearAll(c)
  PROVE  /\ job[c].at = "clear"
         /\ Fault \/ UNCHANGED faults
         /\ \/ /\ rows' = HistoryOf({}) /\ outdated' = {}
               /\ \/ Ends(c)
                  \/ \E j \in Session :
                       /\ command[c] = "rebase" /\ command' = command
                       /\ SetsJob(c, j) /\ j.at = "next"
                       /\ j.cursor = job[c].cursor
            \/ Ends(c) /\ UNCHANGED <<rows, outdated>>
<1>1. c \in Processes /\ job[c].cursor \in SessionCursor
  BY Constants, JobFields
<1>2. job[c].at = "clear"
  BY DEF ClearAll
<1>3. CASE /\ rows' = HistoryOf({}) /\ outdated' = {}
           /\ \/ /\ command[c] = "rebase"
                 /\ job' = [job EXCEPT ![c] = NewSession(@.cursor, TRUE)]
                 /\ UNCHANGED command
              \/ command[c] = "clear" /\ EndJob(c)
           /\ UNCHANGED faults
  <2>0. PICK range \in SessionCursor : range = job[c].cursor
    BY <1>1
  <2>1. PICK j \in Session : /\ j = NewSession(range, TRUE)
                             /\ j.at = "next" /\ j.cursor = range
    BY NewSessionIs
  <2>2. CASE /\ command[c] = "rebase"
             /\ job' = [job EXCEPT ![c] = NewSession(@.cursor, TRUE)]
             /\ UNCHANGED command
    BY <1>1, <1>2, <1>3, <2>0, <2>1, <2>2, SetJob
  <2>3. CASE command[c] = "clear" /\ EndJob(c)
    BY <1>1, <1>2, <1>3, <2>3, EndJobDoes
  <2> QED BY <1>3, <2>2, <2>3
<1>4. CASE Fault /\ EndJob(c) /\ UNCHANGED historyVars
  BY <1>1, <1>2, <1>4, EndJobDoes DEF historyVars
<1> QED BY <1>3, <1>4 DEF ClearAll

(* How each command begins.                                                *)
Begins(k, j) ==
  /\ k = "backfill" => /\ j.at = "next" /\ j.cursor.lg = 0
                       /\ j.cursor.first = ElderLedger - 1
                       /\ j.cursor.last <= j.cursor.first
  /\ k = "reingest" => j.at = "next" /\ j.cursor.lg = 0
  /\ k = "outdated" => j.at = "outdated" /\ j.todo = {}
  /\ k = "rebase" => /\ j.at = "coreElder" /\ j.cursor.lg = 0
                     /\ j.cursor.first = coreLatest
  /\ k = "clear" => j.at = "clear"
  /\ k = "reap" => j = Idle

Starts(c, k, j) == /\ command[c] = "none" /\ commands < MaxCommands
                   /\ command' = [command EXCEPT ![c] = k]
                   /\ commands' = commands + 1
                   /\ SetsJob(c, j)
                   /\ Begins(k, j)
                   /\ NoteBeside

LEMMA StartCommandDoes ==
  ASSUME Types, NEW c \in Clis, NEW k \in CommandKinds, NEW j \in Session, Begins(k, j),
         StartCommand(c, k, j)
  PROVE  Starts(c, k, j)
BY SetJob, Constants DEF StartCommand, Starts

LEMMA RangeIs ==
  ASSUME NEW first \in Sequence, NEW last \in Sequence, NEW clear \in BOOLEAN
  PROVE  \E j \in Session :
           /\ j = NewSession(NewCursor(first, last), clear)
           /\ j.at = "next" /\ j.cursor.lg = 0
           /\ j.cursor.first = first /\ j.cursor.last = last
<1>1. PICK c \in SessionCursor :
        /\ c = NewCursor(first, last)
        /\ c.first = first /\ c.last = last /\ c.lg = 0
  BY NewCursorIs
<1>2. PICK j \in Session : j = NewSession(c, clear) /\ j.at = "next" /\ j.cursor = c
  BY NewSessionIs
<1> QED BY <1>1, <1>2

LEMMA StartBackfillDoes ==
  ASSUME Types, NEW c \in Clis, StartBackfill(c)
  PROVE  \E j \in Session : Starts(c, "backfill", j)
<1>1. PICK n \in Ledgers :
        StartCommand(c, "backfill",
          NewSession(NewCursor(ElderLedger - 1, ElderLedger - 1 - n + 1), FALSE))
  BY DEF StartBackfill
<1>2. ElderLedger \in Nat /\ ElderLedger <= MaxLedger
  BY LatestIsTop DEF IsBottom
<1>3. PICK first \in Sequence, last \in Sequence :
        first = ElderLedger - 1 /\ last = ElderLedger - 1 - n + 1 /\ last <= first
  <2>1. ElderLedger - 1 \in Sequence
    BY <1>2, Constants
  <2>2. ElderLedger - 1 - n + 1 \in Sequence
        /\ ElderLedger - 1 - n + 1 <= ElderLedger - 1
    BY <1>2, Constants
  <2> QED BY <2>1, <2>2
<1>4. PICK j \in Session :
        /\ j = NewSession(NewCursor(first, last), FALSE)
        /\ j.at = "next" /\ j.cursor.lg = 0
        /\ j.cursor.first = first /\ j.cursor.last = last
  BY RangeIs
<1>5. StartCommand(c, "backfill", j)
  BY <1>1, <1>3, <1>4
<1>6. Begins("backfill", j) /\ "backfill" \in CommandKinds
  BY <1>3, <1>4 DEF Begins, CommandKinds
<1> QED BY <1>5, <1>6, StartCommandDoes

LEMMA StartReingestDoes ==
  ASSUME Types, NEW c \in Clis, StartReingest(c)
  PROVE  \E j \in Session : Starts(c, "reingest", j)
<1>1. PICK range \in Ranges \cup {<<LatestLedger, ElderLedger>>} :
        StartCommand(c, "reingest",
                     NewSession(NewCursor(range[1], range[2]), TRUE))
  BY DEF StartReingest
<1>2. PICK first \in Sequence, last \in Sequence :
        first = range[1] /\ last = range[2]
  <2>1. CASE range \in Ranges
    <3>1. range \in Ledgers \X Ledgers
      BY <2>1, IngestionAssumption
    <3>2. range[1] \in Ledgers /\ range[2] \in Ledgers
      BY <3>1
    <3> QED BY <3>2, Constants
  <2>2. CASE range = <<LatestLedger, ElderLedger>>
    <3>1. LatestLedger \in Sequence /\ ElderLedger \in Sequence
      BY LatestIsTop, Constants DEF IsTop, IsBottom
    <3> QED BY <2>2, <3>1
  <2> QED BY <2>1, <2>2
<1>3. PICK j \in Session :
        /\ j = NewSession(NewCursor(first, last), TRUE)
        /\ j.at = "next" /\ j.cursor.lg = 0
        /\ j.cursor.first = first /\ j.cursor.last = last
  BY RangeIs
<1>4. StartCommand(c, "reingest", j)
  BY <1>1, <1>2, <1>3
<1>5. Begins("reingest", j) /\ "reingest" \in CommandKinds
  BY <1>3 DEF Begins, CommandKinds
<1> QED BY <1>4, <1>5, StartCommandDoes

LEMMA StartAtPlaceDoes ==
  ASSUME Types, NEW c \in Clis, StartReingestOutdated(c) \/ StartClear(c) \/ StartReap(c)
  PROVE  \E k \in {"outdated", "clear", "reap"} : \E j \in Session : Starts(c, k, j)
<1>1. CASE StartReingestOutdated(c)
  <2>1. PICK j \in Session : /\ j = [Idle EXCEPT !.at = "outdated"]
                             /\ j.at = "outdated" /\ j.todo = {}
    <3>1. "outdated" \in JobPlaces
      BY DEF JobPlaces
    <3> QED BY <3>1, IdleAtIs
  <2>2. StartCommand(c, "outdated", j)
    BY <1>1, <2>1 DEF StartReingestOutdated
  <2>3. Begins("outdated", j) /\ "outdated" \in CommandKinds
    BY <2>1 DEF Begins, CommandKinds
  <2> QED BY <2>2, <2>3, StartCommandDoes
<1>2. CASE StartClear(c)
  <2>1. PICK j \in Session : j = [Idle EXCEPT !.at = "clear"] /\ j.at = "clear"
    <3>1. "clear" \in JobPlaces
      BY DEF JobPlaces
    <3> QED BY <3>1, IdleAtIs
  <2>2. StartCommand(c, "clear", j)
    BY <1>2, <2>1 DEF StartClear
  <2>3. Begins("clear", j) /\ "clear" \in CommandKinds
    BY <2>1 DEF Begins, CommandKinds
  <2> QED BY <2>2, <2>3, StartCommandDoes
<1>3. CASE StartReap(c)
  <2>1. StartCommand(c, "reap", Idle) /\ Idle \in Session
    BY <1>3, IdleIs DEF StartReap
  <2>2. Begins("reap", Idle) /\ "reap" \in CommandKinds
    BY DEF Begins, CommandKinds
  <2> QED BY <2>1, <2>2, StartCommandDoes
<1> QED BY <1>1, <1>2, <1>3

LEMMA StartRebaseDoes ==
  ASSUME Types, NEW c \in Clis, StartRebase(c)
  PROVE  \E j \in Session : Starts(c, "rebase", j)
<1> DEFINE range == [NoCursor EXCEPT !.first = coreLatest]
           j == [Idle EXCEPT !.at = "coreElder", !.cursor.first = coreLatest]
<1>1. range \in SessionCursor /\ range.first = coreLatest /\ range.lg = 0
  <2>1. coreLatest \in Sequence
    BY Constants DEF Types
  <2> QED BY <2>1, IdleIs DEF SessionCursor
<1>2. j \in Session /\ j.at = "coreElder" /\ j.cursor = range
  <2>1. "coreElder" \in JobPlaces
    BY DEF JobPlaces
  <2> QED BY <1>1, <2>1, IdleIs DEF Session
<1>3. StartCommand(c, "rebase", j)
  BY DEF StartRebase
<1> HIDE DEF range, j
<1>4. Begins("rebase", j) /\ "rebase" \in CommandKinds
  BY <1>1, <1>2 DEF Begins, CommandKinds
<1> QED BY <1>2, <1>3, <1>4, StartCommandDoes

LEMMA StartSomeCommandDoes ==
  ASSUME Types, NEW c \in Clis, StartSomeCommand(c)
  PROVE  \E k \in CommandKinds : \E j \in Session : Starts(c, k, j)
BY StartBackfillDoes, StartReingestDoes, StartAtPlaceDoes, StartRebaseDoes
   DEF StartSomeCommand, CommandKinds

-----------------------------------------------------------------------------
(* The ledger state and the reaper.                                        *)

OnlyReaper(p) == \A q \in Processes : q # p => reaper'[q] = reaper[q]

LEMMA RestingIs ==
  /\ Resting \in Reaper /\ Resting.at = "idle"
  /\ ZeroState \in LedgerState /\ ZeroState.latest = 0
BY Constants DEF Resting, Reaper, ReaperPlaces, ZeroState, LedgerState

LEMMA ReaperFields ==
  ASSUME Types, NEW p \in Processes
  PROVE  /\ reaper[p].at \in ReaperPlaces /\ reaper[p].target \in Int
         /\ reaper[p].table \in 0 .. 3
         /\ cached[p].latest \in 0 .. MaxLedger
         /\ cached[p].elder \in 0 .. MaxLedger
BY DEF Types, Reaper, LedgerState

LEMMA RefreshLatestDoes ==
  ASSUME Types, NEW s \in Processes, RefreshLatest(s)
  PROVE  /\ s \in up /\ reaper[s].at = "idle"
         /\ reaper' \in [Processes -> Reaper] /\ OnlyReaper(s)
         /\ reaper'[s].at = "elder" /\ reaper'[s].target = LatestLedger
         /\ LatestLedger \in 0 .. MaxLedger
<1>1. LatestLedger \in Nat /\ LatestLedger <= MaxLedger
  BY LatestIsTop DEF IsTop
<1>0. PICK n \in Int : n = LatestLedger
  BY <1>1
<1> DEFINE r == [Resting EXCEPT !.at = "elder", !.target = n]
<1>2. r \in Reaper /\ r.at = "elder" /\ r.target = n
  <2>1. Resting \in Reaper
    BY RestingIs
  <2> QED BY <2>1 DEF Reaper, ReaperPlaces
<1>3. reaper' = [reaper EXCEPT ![s] = r] /\ s \in up /\ reaper[s].at = "idle"
  BY <1>0 DEF RefreshLatest
<1> HIDE DEF r
<1> QED BY <1>0, <1>1, <1>2, <1>3, Constants DEF Types, OnlyReaper

LEMMA RefreshElderDoes ==
  ASSUME Types, NEW s \in Processes, RefreshElder(s)
  PROVE  /\ reaper[s].at = "elder"
         /\ reaper' \in [Processes -> Reaper] /\ OnlyReaper(s)
         /\ reaper'[s].at = "tick"
         /\ Fault \/ UNCHANGED faults
         /\ \/ cached' = cached
            \/ /\ cached' \in [Processes -> LedgerState]
               /\ \A q \in Processes : q # s => cached'[q] = cached[q]
               /\ cached'[s].latest = reaper[s].target
<1>1. /\ reaper[s].at = "elder"
      /\ reaper' \in [Processes -> Reaper] /\ OnlyReaper(s)
      /\ reaper'[s].at = "tick"
  <2> DEFINE r == [Resting EXCEPT !.at = "tick"]
  <2>1. r \in Reaper /\ r.at = "tick"
    <3>1. Resting \in Reaper
      BY RestingIs
    <3> QED BY <3>1 DEF Reaper, ReaperPlaces
  <2>2. reaper' = [reaper EXCEPT ![s] = r] /\ reaper[s].at = "elder"
    BY DEF RefreshElder
  <2> HIDE DEF r
  <2> QED BY <2>1, <2>2 DEF Types, OnlyReaper
<1>2. CASE Fault /\ UNCHANGED cached
  BY <1>1, <1>2
<1>3. CASE /\ cached' = [cached EXCEPT ![s] = [latest |-> reaper[s].target,
                                               elder |-> ElderLedger]]
           /\ UNCHANGED faults
  <2>1. reaper[s].target \in 0 .. MaxLedger /\ ElderLedger \in 0 .. MaxLedger
    BY <1>1, LatestIsTop, Constants DEF IsBottom, Types
  <2>2. [latest |-> reaper[s].target, elder |-> ElderLedger] \in LedgerState
    BY <2>1 DEF LedgerState
  <2> QED BY <1>1, <1>3, <2>2 DEF Types
<1> QED BY <1>2, <1>3 DEF RefreshElder

LEMMA EndReapDoes ==
  ASSUME Types, NEW p \in Processes, EndReap(p)
  PROVE  /\ reaper' \in [Processes -> Reaper] /\ OnlyReaper(p)
         /\ reaper'[p] = Resting
         /\ ExitCommand(p)
BY RestingIs DEF EndReap, Types, OnlyReaper

LEMMA DeleteUnretainedHistoryDoes ==
  ASSUME Types, NEW p \in Processes, DeleteUnretainedHistory(p)
  PROVE  /\ reaper[p].at = "tick"
         /\ reaper' \in [Processes -> Reaper] /\ OnlyReaper(p)
         /\ \/ /\ reaper'[p] = Resting
               /\ ExitCommand(p)
            \/ /\ reaper'[p].at = "clear" /\ reaper'[p].table = 1
               /\ reaper'[p].target = cached[p].latest - retention + 1
               /\ retention # 0 /\ command' = command
<1>1. reaper[p].at = "tick"
  BY DEF DeleteUnretainedHistory
<1>2. CASE EndReap(p)
  BY <1>1, <1>2, EndReapDoes
<1>3. CASE ~EndReap(p)
  <2>1. retention \in Nat /\ cached[p].latest \in Nat
    BY ReaperFields, Constants DEF Types
  <2>2. PICK n \in Int : n = cached[p].latest - retention + 1
    BY <2>1
  <2> DEFINE r == [at |-> "clear", table |-> 1, target |-> n]
  <2>3. r \in Reaper /\ r.at = "clear" /\ r.table = 1 /\ r.target = n
    BY DEF Reaper, ReaperPlaces
  <2>4. reaper' = [reaper EXCEPT ![p] = r] /\ command' = command /\ retention # 0
    BY <1>3, <2>2 DEF DeleteUnretainedHistory, TargetElder, NothingToReap
  <2> HIDE DEF r
  <2> QED BY <1>1, <2>2, <2>3, <2>4 DEF Types, OnlyReaper
<1> QED BY <1>2, <1>3

(* One delete of the reaper: the rows below the target of one table.       *)
Deletes(p) ==
  \E t \in Tables :
    /\ rows' = [rows EXCEPT ![t] = {l \in @ : l >= reaper[p].target}]
    /\ outdated' = outdated \cap rows'["ledgers"]

LEMMA ClearBeforeDoes ==
  ASSUME Types, NEW p \in Processes, ClearBefore(p)
  PROVE  /\ reaper[p].at = "clear"
         /\ reaper' \in [Processes -> Reaper] /\ OnlyReaper(p)
         /\ Fault \/ UNCHANGED faults
         /\ \/ Deletes(p) \/ UNCHANGED <<rows, outdated>>
         /\ \/ /\ reaper'[p] = Resting
               /\ ExitCommand(p)
            \/ /\ reaper'[p].at = "clear" /\ reaper'[p].table \in 1 .. 3
               /\ reaper'[p].target = reaper[p].target
               /\ command' = command
<1>1. reaper[p].at = "clear"
  BY DEF ClearBefore
<1>2. PICK k \in 1 .. 3 : k = reaper[p].table
  BY <1>1 DEF Types
<1>3. Len(ReapOrder) = 3 /\ ReapOrder[k] \in Tables
  BY DEF ReapOrder, Tables
<1>4. /\ Fault \/ UNCHANGED faults
      /\ \/ Deletes(p) \/ UNCHANGED <<rows, outdated>>
  BY <1>2, <1>3 DEF ClearBefore, Deletes, historyVars
<1>5. CASE EndReap(p)
  BY <1>1, <1>4, <1>5, EndReapDoes
<1>6. CASE ~EndReap(p)
  <2>1. PICK n \in 1 .. 3 : n = k + 1
    BY <1>2, <1>3, <1>6 DEF ClearBefore
  <2>2. reaper' = [reaper EXCEPT ![p].table = n] /\ command' = command
    BY <1>2, <1>6, <2>1 DEF ClearBefore
  <2>3. /\ reaper' \in [Processes -> Reaper] /\ OnlyReaper(p)
        /\ reaper'[p].at = "clear" /\ reaper'[p].table = n
        /\ reaper'[p].target = reaper[p].target
    BY <1>1, <2>2 DEF Types, Reaper, OnlyReaper
  <2> QED BY <1>1, <1>4, <2>2, <2>3
<1> QED BY <1>5, <1>6

-----------------------------------------------------------------------------
(* What the actions that change the history do to its rows.                *)

LEMMA FlushRows ==
  ASSUME Types, NEW p \in Processes, job[p].at = "flush", Adds(p),
         NEW lg, lg = job[p].cursor.lg
  PROVE  /\ lg \in Ledgers /\ lg <= coreLatest
         /\ rows' \in [Tables -> SUBSET Ledgers]
         /\ rows'["ledgers"] = rows["ledgers"] \cup {lg}
         /\ outdated' \in SUBSET rows'["ledgers"]
         /\ \A t \in Tables :
              /\ rows'[t] \subseteq rows[t] \cup {lg}
              /\ \A l \in rows[t] : l # lg => l \in rows'[t]
              /\ lg \in Contents[t] => lg \in rows'[t]
              /\ lg \in rows'[t] => lg \in Contents[t] \cup rows[t]
<1>1. lg \in Ledgers /\ lg <= coreLatest
  BY Constants DEF Types
<1>2. \A t \in Tables :
        rows'[t] = (IF job[p].clear THEN rows[t] \ {lg} ELSE rows[t])
                     \cup ({lg} \cap Contents[t])
  BY DEF Adds, Cleared
<1>3. \A t \in Tables :
        /\ rows'[t] \subseteq rows[t] \cup {lg}
        /\ \A l \in rows[t] : l # lg => l \in rows'[t]
        /\ lg \in Contents[t] => lg \in rows'[t]
        /\ lg \in rows'[t] => lg \in Contents[t] \cup rows[t]
  BY <1>2
<1>4. \A t \in Tables : rows[t] \in SUBSET Ledgers
  BY DEF Types
<1>5. rows' \in [Tables -> SUBSET Ledgers]
  <2>1. \A t \in Tables : rows'[t] \in SUBSET Ledgers
    BY <1>1, <1>3, <1>4
  <2>2. rows' = [t \in Tables |-> Cleared(p)[t] \cup ({lg} \cap Contents[t])]
    BY DEF Adds
  <2>3. rows' = [t \in Tables |-> rows'[t]]
    BY <2>2
  <2> QED BY <2>1, <2>3
<1>6. rows'["ledgers"] = rows["ledgers"] \cup {lg}
  BY <1>1, <1>3, Constants
<1>7. outdated' \in SUBSET rows'["ledgers"]
  BY <1>6 DEF Types, Adds, AfterImport
<1> QED BY <1>1, <1>3, <1>5, <1>6, <1>7

LEMMA ReapRows ==
  ASSUME Types, NEW p \in Processes, Deletes(p)
  PROVE  /\ rows' \in [Tables -> SUBSET Ledgers]
         /\ outdated' \in SUBSET rows'["ledgers"]
         /\ \A t \in Tables :
              /\ rows'[t] \subseteq rows[t]
              /\ \A l \in rows[t] : l >= reaper[p].target => l \in rows'[t]
         /\ \/ rows'["ledgers"] = rows["ledgers"]
            \/ rows'["ledgers"] = {l \in rows["ledgers"] : l >= reaper[p].target}
<1>1. PICK t \in Tables :
        /\ rows' = [rows EXCEPT ![t] = {l \in @ : l >= reaper[p].target}]
        /\ outdated' = outdated \cap rows'["ledgers"]
  BY DEF Deletes
<1>2. \A u \in Tables : rows'[u] = IF u = t
                                   THEN {l \in rows[t] : l >= reaper[p].target}
                                   ELSE rows[u]
  BY <1>1 DEF Types
<1>3. rows' \in [Tables -> SUBSET Ledgers]
  BY <1>1 DEF Types
<1> QED BY <1>1, <1>2, <1>3, Constants

LEMMA ClearedRows ==
  ASSUME rows' = HistoryOf({})
  PROVE  /\ rows' \in [Tables -> SUBSET Ledgers]
         /\ \A t \in Tables : rows'[t] = {}
         /\ rows'["ledgers"] = {}
BY Constants DEF HistoryOf

-----------------------------------------------------------------------------
(* First layer: types.                                                     *)

LEMMA JobTypesKept ==
  ASSUME Types, NEW p \in Processes, OnlyJob(p), coreLatest' = coreLatest,
         p \in Servers /\ job'[p].at # "idle" => job'[p].cursor.last \in Ledgers,
         job'[p].at \in {"history", "report"} => p \in Servers,
         job'[p].at = "flush" => job'[p].cursor.lg \in 1 .. coreLatest
  PROVE  \A q \in Processes :
           /\ q \in Servers /\ job'[q].at # "idle" => job'[q].cursor.last \in Ledgers
           /\ job'[q].at \in {"history", "report"} => q \in Servers
           /\ job'[q].at = "flush" => job'[q].cursor.lg \in 1 .. coreLatest'
BY DEF Types, OnlyJob

\* A session that moves on keeps the end of its range.
LEMMA LastKept ==
  ASSUME Types, NEW p \in Processes, NEW place, MovesTo(p, place),
         job[p].at # "idle"
  PROVE  p \in Servers => job'[p].cursor.last \in Ledgers
BY DEF Types, MovesTo, KeepsRange

LEMMA ReaperTypesKept ==
  ASSUME Types, NEW p \in Processes, OnlyReaper(p),
         reaper'[p].at = "elder" => reaper'[p].target \in 0 .. MaxLedger,
         reaper'[p].at = "clear" => reaper'[p].table \in 1 .. 3
  PROVE  \A q \in Processes :
           /\ reaper'[q].at = "elder" => reaper'[q].target \in 0 .. MaxLedger
           /\ reaper'[q].at = "clear" => reaper'[q].table \in 1 .. 3
BY DEF Types, OnlyReaper

\* A process that ends leaves the command's type.
LEMMA CommandTypeKept ==
  ASSUME Types, NEW p, ExitCommand(p)
  PROVE  /\ command' \in [Clis -> CommandKinds \cup {"none"}]
         /\ \A c \in Clis : command'[c] = IF c = p THEN "none" ELSE command[c]
BY DEF Types, ExitCommand

LEMMA IngestKeepsTypes ==
  ASSUME Types, NEW p \in Processes, Ingest(p)
  PROVE  Types'
<1>1. /\ UNCHANGED <<coreElder, coreLatest, retention, up, cached, reaper>>
      /\ UNCHANGED commands
  BY DEF Ingest, Tick, DecideRange, NextLedger, FlushLedger, FinishRange,
         ReportCursor, coreVars, countVars
<1>2. CASE Tick(p) \/ DecideRange(p) \/ NextLedger(p) \/ FinishRange(p)
  <2>1. UNCHANGED <<cursor, rows, outdated, faults>>
    BY <1>2 DEF Tick, DecideRange, NextLedger, FinishRange, coreVars,
                historyVars, countVars
  <2>2. CASE Tick(p)
    <3>1. command' = command
      BY <2>2 DEF Tick
    <3>2. PICK j \in Session : /\ SetsJob(p, j) /\ j.at = "history"
                               /\ j.cursor.last = coreLatest
      BY <2>2, TickDoes
    <3>3. coreLatest \in Ledgers
      BY DEF Types
    <3>4. p \in Servers
      BY <2>2, TickDoes DEF Types
    <3> QED BY <1>1, <2>1, <3>1, <3>2, <3>3, <3>4, JobTypesKept DEF Types, SetsJob
  <2>3. CASE DecideRange(p)
    <3>1. command' = command
      BY <2>3 DEF DecideRange
    <3>2. /\ job[p].at = "history"
          /\ \E j \in Session :
               /\ SetsJob(p, j)
               /\ \/ j.at = "idle"
                  \/ j.at = "next" /\ j.cursor.last = job[p].cursor.last
      BY <2>3, DecideRangeDoes, IdleIs
    <3> QED BY <1>1, <2>1, <3>1, <3>2, JobTypesKept DEF Types, SetsJob
  <2>4. CASE NextLedger(p)
    <3>1. CASE Ends(p)
      BY <1>1, <2>1, <3>1, JobTypesKept, CommandTypeKept, IdleIs
         DEF Types, SetsJob, Ends
    <3>2. CASE /\ MovesTo(p, "flush")
               /\ job'[p].cursor.lg \in CoreLedgers
      <4>1. job'[p].cursor.lg \in 1 .. coreLatest
        BY <3>2, Constants DEF CoreLedgers, Types
      <4>2. p \in Servers => job'[p].cursor.last \in Ledgers
        BY <2>4, <3>2, NextLedgerDoes, LastKept
      <4> QED BY <1>1, <2>1, <3>2, <4>1, <4>2, JobTypesKept DEF Types, MovesTo
    <3> QED BY <2>4, <3>1, <3>2, NextLedgerDoes
  <2>5. CASE FinishRange(p)
    <3>1. CASE Ends(p)
      BY <1>1, <2>1, <3>1, JobTypesKept, CommandTypeKept, IdleIs
         DEF Types, SetsJob, Ends
    <3>2. CASE \/ p \in Servers /\ MovesTo(p, "report")
               \/ MovesTo(p, "outdated")
      <4>1. p \in Servers => job'[p].cursor.last \in Ledgers
        BY <2>5, <3>2, FinishRangeDoes, LastKept
      <4> QED BY <1>1, <2>1, <3>2, <4>1, JobTypesKept DEF Types, MovesTo
    <3> QED BY <2>5, <3>1, <3>2, FinishRangeDoes
  <2> QED BY <1>2, <2>2, <2>3, <2>4, <2>5
<1>3. CASE FlushLedger(p)
  <2>1. cursor' = cursor /\ faults' \in 0 .. MaxFaults
    BY <1>3, FlushLedgerDoes, FaultType DEF FlushLedger, coreVars
  <2>2. CASE Ends(p) /\ UNCHANGED <<rows, outdated>>
    BY <1>1, <2>1, <2>2, JobTypesKept, CommandTypeKept, IdleIs
       DEF Types, SetsJob, Ends
  <2>3. CASE Adds(p) /\ MovesTo(p, "next")
    <3>1. /\ rows' \in [Tables -> SUBSET Ledgers]
          /\ outdated' \in SUBSET rows'["ledgers"]
      BY <1>3, <2>3, FlushLedgerDoes, FlushRows
    <3>2. p \in Servers => job'[p].cursor.last \in Ledgers
      BY <1>3, <2>3, FlushLedgerDoes, LastKept
    <3> QED BY <1>1, <2>1, <2>3, <3>1, <3>2, JobTypesKept DEF Types, MovesTo
  <2> QED BY <1>3, <2>2, <2>3, FlushLedgerDoes
<1>4. CASE ReportCursor(p)
  <2>1. UNCHANGED <<rows, outdated>> /\ faults' \in 0 .. MaxFaults /\ Ends(p)
    BY <1>4, ReportCursorDoes, FaultType DEF ReportCursor, historyVars
  <2>2. cursor' \in 0 .. MaxLedger
    <3>1. job[p].cursor.last \in Ledgers
      BY <1>4, ReportCursorDoes DEF Types
    <3>2. job[p].cursor.last \in 0 .. MaxLedger
      BY <3>1, Constants
    <3> QED BY <1>4, <3>2, ReportCursorDoes DEF Types
  <2> QED BY <1>1, <2>1, <2>2, JobTypesKept, CommandTypeKept, IdleIs
          DEF Types, SetsJob, Ends
<1> QED BY <1>2, <1>3, <1>4 DEF Ingest

LEMMA CommandKeepsTypes ==
  ASSUME Types, NEW c \in Clis, CommandStep(c) \/ StartSomeCommand(c)
  PROVE  Types'
<1>0. c \in Processes /\ c \notin Servers
  BY Constants
<1>1. CASE NextOutdated(c)
  <2>1. /\ UNCHANGED <<coreElder, coreLatest, cursor, rows, outdated, retention>>
        /\ UNCHANGED <<up, cached, reaper, faults, commands>>
    BY <1>1 DEF NextOutdated, coreVars, historyVars, countVars
  <2>2. CASE Ends(c)
    BY <1>0, <2>1, <2>2, JobTypesKept, CommandTypeKept, IdleIs
       DEF Types, SetsJob, Ends
  <2>3. CASE \E j \in Session : /\ SetsJob(c, j) /\ command' = command
                                /\ j.at = "next"
    BY <1>0, <2>1, <2>3, JobTypesKept DEF Types, SetsJob
  <2> QED BY <1>1, <2>2, <2>3, NextOutdatedDoes
<1>2. CASE RebaseElder(c)
  <2>1. /\ UNCHANGED <<coreElder, coreLatest, cursor, rows, outdated, retention>>
        /\ UNCHANGED <<up, cached, reaper, faults, commands>>
    BY <1>2 DEF RebaseElder, coreVars, historyVars, countVars
  <2> QED BY <1>0, <1>2, <2>1, RebaseElderDoes, JobTypesKept DEF Types
<1>3. CASE ClearAll(c)
  <2>1. /\ UNCHANGED <<coreElder, coreLatest, cursor, retention>>
        /\ UNCHANGED <<up, cached, reaper, commands>>
    BY <1>3 DEF ClearAll, coreVars
  <2>2. /\ rows' \in [Tables -> SUBSET Ledgers]
        /\ outdated' \in SUBSET rows'["ledgers"]
        /\ faults' \in 0 .. MaxFaults
    <3>1. faults' \in 0 .. MaxFaults
      BY <1>3, ClearAllDoes, FaultType
    <3>2. CASE rows' = HistoryOf({}) /\ outdated' = {}
      BY <3>1, <3>2, ClearedRows
    <3>3. CASE UNCHANGED <<rows, outdated>>
      BY <3>1, <3>3 DEF Types
    <3> QED BY <1>3, <3>2, <3>3, ClearAllDoes
  <2>3. CASE Ends(c)
    BY <1>0, <2>1, <2>2, <2>3, JobTypesKept, CommandTypeKept, IdleIs
       DEF Types, SetsJob, Ends
  <2>4. CASE \E j \in Session : /\ SetsJob(c, j) /\ command' = command
                                /\ j.at = "next"
    BY <1>0, <2>1, <2>2, <2>4, JobTypesKept DEF Types, SetsJob
  <2> QED BY <1>3, <2>3, <2>4, ClearAllDoes
<1>4. CASE StartSomeCommand(c)
  <2>1. /\ UNCHANGED <<coreElder, coreLatest, cursor, rows, outdated, retention>>
        /\ UNCHANGED <<up, cached, faults>>
    BY <1>4 DEF StartSomeCommand, StartBackfill, StartReingest,
                StartReingestOutdated, StartRebase, StartClear, StartReap,
                StartCommand, coreVars, historyVars
  <2>2. PICK k \in CommandKinds : \E j \in Session : Starts(c, k, j)
    BY <1>4, StartSomeCommandDoes
  <2>3. PICK j \in Session : Starts(c, k, j)
    BY <2>2
  <2>4. /\ job' \in [Processes -> Session] /\ OnlyJob(c)
        /\ job'[c].at \notin {"history", "report", "flush"}
        /\ command' \in [Clis -> CommandKinds \cup {"none"}]
    BY <2>3, IdleIs DEF Types, Starts, SetsJob, Begins, CommandKinds
  <2>5. commands' \in 0 .. MaxCommands
    BY <2>3, Constants DEF Starts, Types
  <2>6. /\ reaper' \in [Processes -> Reaper] /\ OnlyReaper(c)
        /\ \/ reaper' = reaper
           \/ reaper'[c].at = "tick"
    <3>1. reaper' = reaper \/ reaper' = [reaper EXCEPT ![c].at = "tick"]
      BY <1>4 DEF StartSomeCommand, StartBackfill, StartReingest,
                  StartReingestOutdated, StartRebase, StartClear, StartReap
    <3> QED BY <1>0, <3>1 DEF Types, Reaper, ReaperPlaces, OnlyReaper
  <2>7. \A q \in Processes :
          /\ reaper'[q].at = "elder" => reaper'[q].target \in 0 .. MaxLedger
          /\ reaper'[q].at = "clear" => reaper'[q].table \in 1 .. 3
    BY <1>0, <2>6, ReaperTypesKept DEF Types
  <2>8. \A q \in Processes :
          /\ q \in Servers /\ job'[q].at # "idle" => job'[q].cursor.last \in Ledgers
          /\ job'[q].at \in {"history", "report"} => q \in Servers
          /\ job'[q].at = "flush" => job'[q].cursor.lg \in 1 .. coreLatest'
    BY <1>0, <2>1, <2>4, JobTypesKept
  <2> QED BY <2>1, <2>4, <2>5, <2>6, <2>7, <2>8 DEF Types
<1> QED BY <1>1, <1>2, <1>3, <1>4 DEF CommandStep

LEMMA ReaperKeepsTypes ==
  ASSUME Types, NEW p \in Processes, Refresh(p) \/ Reap(p) \/ SkipReap(p)
  PROVE  Types'
<1>1. /\ UNCHANGED <<coreElder, coreLatest, cursor, retention, up, job>>
      /\ UNCHANGED commands
  BY DEF Refresh, Reap, RefreshLatest, RefreshElder, SkipReap, ClearBefore,
         DeleteUnretainedHistory, coreVars, countVars
<1>2. CASE RefreshLatest(p)
  <2>1. UNCHANGED <<rows, outdated, cached, command, faults>>
    BY <1>2 DEF RefreshLatest, historyVars, countVars
  <2> QED BY <1>1, <1>2, <2>1, RefreshLatestDoes, ReaperTypesKept DEF Types
<1>3. CASE RefreshElder(p)
  <2>1. UNCHANGED <<rows, outdated, command>> /\ faults' \in 0 .. MaxFaults
    BY <1>3, RefreshElderDoes, FaultType DEF RefreshElder, historyVars
  <2> QED BY <1>1, <1>3, <2>1, RefreshElderDoes, ReaperTypesKept DEF Types
<1>4. CASE SkipReap(p)
  <2>1. UNCHANGED <<rows, outdated, cached, command, faults>>
    BY <1>4 DEF SkipReap, historyVars, countVars
  <2>2. /\ reaper' \in [Processes -> Reaper] /\ OnlyReaper(p)
        /\ reaper'[p].at = "idle"
    BY <1>4, RestingIs DEF SkipReap, Types, OnlyReaper
  <2> QED BY <1>1, <2>1, <2>2, ReaperTypesKept DEF Types
<1>5. CASE DeleteUnretainedHistory(p)
  <2>1. UNCHANGED <<rows, outdated, cached, faults>>
    BY <1>5 DEF DeleteUnretainedHistory, historyVars, countVars
  <2> QED BY <1>1, <1>5, <2>1, DeleteUnretainedHistoryDoes, ReaperTypesKept,
             CommandTypeKept, RestingIs DEF Types
<1>6. CASE ClearBefore(p)
  <2>1. cached' = cached /\ faults' \in 0 .. MaxFaults
    BY <1>6, ClearBeforeDoes, FaultType DEF ClearBefore
  <2>2. /\ rows' \in [Tables -> SUBSET Ledgers]
        /\ outdated' \in SUBSET rows'["ledgers"]
    BY <1>6, ClearBeforeDoes, ReapRows DEF Types
  <2>3. command' \in [Clis -> CommandKinds \cup {"none"}]
    BY <1>6, ClearBeforeDoes, CommandTypeKept DEF Types
  <2> QED BY <1>1, <1>6, <2>1, <2>2, <2>3, ClearBeforeDoes, ReaperTypesKept,
             RestingIs DEF Types
<1> QED BY <1>2, <1>3, <1>4, <1>5, <1>6 DEF Refresh, Reap

(* A stop or a crash.                                                      *)
LEMMA CrashDoes ==
  ASSUME Types, NEW p \in Processes, Crash(p)
  PROVE  /\ p \in Running
         /\ Fault /\ up' = up \ {p} /\ Ends(p)
         /\ cached' \in [Processes -> LedgerState]
         /\ \A q \in Processes : q # p => cached'[q] = cached[q]
         /\ cached'[p] = ZeroState
         /\ reaper' \in [Processes -> Reaper] /\ OnlyReaper(p)
         /\ reaper'[p] = Resting
         /\ UNCHANGED <<coreElder, coreLatest, cursor, rows, outdated, retention>>
         /\ UNCHANGED commands
<1>1. Ends(p)
  BY EndJobDoes DEF Crash
<1>2. /\ cached' \in [Processes -> LedgerState]
      /\ \A q \in Processes : q # p => cached'[q] = cached[q]
      /\ cached'[p] = ZeroState
  BY RestingIs DEF Crash, Types
<1>3. /\ reaper' \in [Processes -> Reaper] /\ OnlyReaper(p)
      /\ reaper'[p] = Resting
  BY RestingIs DEF Crash, Types, OnlyReaper
<1> QED BY <1>1, <1>2, <1>3 DEF Crash, coreVars, historyVars

LEMMA OthersKeepTypes ==
  ASSUME Types,
         \/ CloseLedger \/ Maintain
         \/ \E s \in Servers : StartServer(s)
         \/ \E p \in Processes : Crash(p)
  PROVE  Types'
<1>1. CASE CloseLedger
  <2>1. /\ UNCHANGED <<coreElder, cursor, rows, outdated, retention, up, job>>
        /\ UNCHANGED <<cached, reaper, command, faults, commands>>
    BY <1>1 DEF CloseLedger, historyVars, countVars
  <2>2. coreLatest' \in Ledgers /\ coreLatest' >= coreLatest /\ coreLatest \in Nat
    BY <1>1, Constants DEF CloseLedger, Types
  <2>3. ASSUME NEW p \in Processes, job[p].at = "flush"
        PROVE  job[p].cursor.lg \in 1 .. coreLatest'
    BY <2>2, <2>3, JobFields, Constants DEF Types
  <2> QED BY <2>1, <2>2, <2>3 DEF Types
<1>2. CASE Maintain
  <2>1. /\ UNCHANGED <<coreLatest, cursor, rows, outdated, retention, up, job>>
        /\ UNCHANGED <<cached, reaper, command, faults, commands>>
    BY <1>2 DEF Maintain, historyVars, countVars
  <2>2. coreElder' \in Ledgers
    BY <1>2, Constants DEF Maintain, Types
  <2> QED BY <2>1, <2>2 DEF Types
<1>3. CASE \E s \in Servers : StartServer(s)
  <2>1. /\ UNCHANGED <<coreElder, coreLatest, cursor, rows, outdated, retention>>
        /\ UNCHANGED <<job, cached, reaper, command, faults, commands>>
    BY <1>3 DEF StartServer, coreVars, historyVars, countVars
  <2>2. up' \in SUBSET Servers
    BY <1>3 DEF StartServer, Types
  <2> QED BY <2>1, <2>2 DEF Types
<1>4. ASSUME NEW p \in Processes, Crash(p)
      PROVE  Types'
  <2>1. up' \in SUBSET Servers /\ faults' \in 0 .. MaxFaults
    BY <1>4, CrashDoes, FaultType DEF Types
  <2>2. /\ job' \in [Processes -> Session]
        /\ \A q \in Processes :
             /\ q \in Servers /\ job'[q].at # "idle" => job'[q].cursor.last \in Ledgers
             /\ job'[q].at \in {"history", "report"} => q \in Servers
             /\ job'[q].at = "flush" => job'[q].cursor.lg \in 1 .. coreLatest'
    BY <1>4, CrashDoes, JobTypesKept, IdleIs DEF Ends, SetsJob
  <2>3. command' \in [Clis -> CommandKinds \cup {"none"}]
    BY <1>4, CrashDoes, CommandTypeKept DEF Ends
  <2>4. /\ reaper' \in [Processes -> Reaper]
        /\ \A q \in Processes :
             /\ reaper'[q].at = "elder" => reaper'[q].target \in 0 .. MaxLedger
             /\ reaper'[q].at = "clear" => reaper'[q].table \in 1 .. 3
    BY <1>4, CrashDoes, ReaperTypesKept, RestingIs
  <2>5. /\ cached' \in [Processes -> LedgerState]
        /\ UNCHANGED <<coreElder, coreLatest, cursor, rows, outdated, retention>>
        /\ UNCHANGED commands
    BY <1>4, CrashDoes
  <2> QED BY <2>1, <2>2, <2>3, <2>4, <2>5 DEF Types
<1> QED BY <1>1, <1>2, <1>3, <1>4

LEMMA InitTypes ==
  ASSUME Init
  PROVE  /\ Types
         /\ \E e, h \in Ledgers :
              /\ rows \in {HistoryOf({}), HistoryOf(e .. h)} /\ h <= coreLatest
              /\ cursor = LatestLedger
<1>1. coreElder \in Ledgers /\ coreLatest \in Ledgers
  BY Constants DEF Init
<1>2. PICK h \in 1 .. coreLatest :
        \E e \in 1 .. coreLatest :
          /\ rows \in {HistoryOf({}), HistoryOf(e .. h)}
          /\ cursor = LatestLedger
  BY DEF Init
<1>3. PICK e \in 1 .. coreLatest :
        /\ rows \in {HistoryOf({}), HistoryOf(e .. h)}
        /\ cursor = LatestLedger
  BY <1>2
<1>4. e \in Ledgers /\ h \in Ledgers /\ h <= coreLatest
  BY <1>1, Constants
<1>5. rows \in [Tables -> SUBSET Ledgers]
  BY <1>3, Constants DEF HistoryOf
<1>6. cursor \in 0 .. MaxLedger
  <2>1. rows["ledgers"] \in SUBSET Ledgers
    BY <1>5, Constants
  <2>2. IsTop(LatestLedger, rows["ledgers"])
    BY <2>1, TopOfLedgers DEF LatestLedger
  <2> QED BY <1>3, <2>2, Constants DEF IsTop
<1>7. outdated \in SUBSET rows["ledgers"]
  BY DEF Init
<1>8. faults \in 0 .. MaxFaults /\ commands \in 0 .. MaxCommands
  BY Constants DEF Init
<1>9. Types
  BY <1>1, <1>5, <1>6, <1>7, <1>8, IdleIs, RestingIs DEF Init, Types
<1> QED BY <1>3, <1>4, <1>9

LEMMA TypesHold == Spec => []Types
<1>1. Init => Types
  BY InitTypes
<1>2. Types /\ [Next]_vars => Types'
  <2> SUFFICES ASSUME Types, [Next]_vars PROVE Types'
    OBVIOUS
  <2>1. CASE Next
    BY <2>1, IngestKeepsTypes, CommandKeepsTypes, ReaperKeepsTypes,
       OthersKeepTypes, Constants DEF Next
  <2>2. CASE UNCHANGED vars
    <3>1. /\ UNCHANGED <<coreElder, coreLatest, cursor, rows, outdated>>
          /\ UNCHANGED <<retention, up, job, cached, reaper, command>>
          /\ UNCHANGED <<faults, commands>>
      BY <2>2 DEF vars, coreVars, historyVars, countVars
    <3> QED BY <3>1 DEF Types
  <2> QED BY <2>1, <2>2
<1> QED BY <1>1, <1>2, PTL DEF Spec

-----------------------------------------------------------------------------
(* Second layer: where each process can be.                                *)

ServerPlaces == {"idle", "history", "next", "flush", "report"}

(* A server that is down holds nothing in memory.                          *)
ServerControl(s) ==
  /\ job[s].at \in ServerPlaces
  /\ s \notin up => job[s] = Idle /\ reaper[s] = Resting /\ cached[s] = ZeroState

(* A command is at a place of its own, and only `db reap` reaps, from a    *)
(* ledger state that nothing has refreshed.                                *)
CommandControl(c) ==
  /\ job[c].at \in {"next", "flush"} =>
       command[c] \in {"backfill", "reingest", "outdated", "rebase"}
  /\ job[c].at = "outdated" => command[c] = "outdated"
  /\ job[c].at = "coreElder" => command[c] = "rebase"
  /\ job[c].at = "clear" => command[c] \in {"rebase", "clear"}
  /\ reaper[c].at # "elder"
  /\ reaper[c].at # "idle" => command[c] = "reap"
  /\ cached[c] = ZeroState

\* The operators have cleared nothing beside something else.
Orderly == "beside" \notin strayed

NotesInv == strayed \subseteq Notes

NoReapOfAll == retention = 0 => \A p \in Processes : reaper[p].at # "clear"

ControlInv == /\ \A s \in Servers : ServerControl(s)
              /\ \A c \in Clis : CommandControl(c)
              /\ Orderly => ~Beside
              /\ NoReapOfAll

LEMMA ControlKept ==
  ASSUME ControlInv, NEW p \in Processes,
         \A q \in Processes \ {p} :
           /\ job'[q] = job[q] /\ reaper'[q] = reaper[q] /\ cached'[q] = cached[q]
           /\ q \in up' <=> q \in up,
         \A c \in Clis \ {p} : command'[c] = command[c],
         p \in Servers => ServerControl(p)',
         p \in Clis => CommandControl(p)'
  PROVE  /\ \A s \in Servers : ServerControl(s)'
         /\ \A c \in Clis : CommandControl(c)'
<1>1. ASSUME NEW s \in Servers, s # p PROVE ServerControl(s)'
  <2>1. s \in Processes \ {p}
    BY <1>1, Constants
  <2> QED BY <2>1 DEF ControlInv, ServerControl
<1>2. ASSUME NEW c \in Clis, c # p PROVE CommandControl(c)'
  <2>1. c \in Processes \ {p} /\ c \in Clis \ {p}
    BY <1>2, Constants
  <2> QED BY <2>1 DEF ControlInv, CommandControl
<1> QED BY <1>1, <1>2

\* A step that starts nothing clears nothing beside something else.
LEMMA OrderKept ==
  ASSUME Orderly => ~Beside, up' \subseteq up, strayed \subseteq strayed',
         \A c \in Clis : command'[c] \in {command[c], "none"}
  PROVE  Orderly' => ~Beside'
BY DEF Orderly, Beside, Running

\* A process at work is up, or runs a command.
LEMMA AtWork ==
  ASSUME Types, ControlInv, NEW p \in Processes,
         job[p].at # "idle" \/ reaper[p].at # "idle"
  PROVE  /\ p \in Running
         /\ p \in Servers => p \in up
         /\ p \in Clis => command[p] # "none"
<1>1. CASE p \in Servers
  <2>1. p \in up /\ p \notin Clis
    BY <1>1, IdleIs, RestingIs, Constants DEF ControlInv, ServerControl
  <2> QED BY <2>1 DEF Running
<1>2. CASE p \in Clis
  <2>1. job[p].at \in {"idle", "next", "flush", "outdated", "coreElder", "clear"}
    BY <1>2, JobFields, Constants DEF Types, JobPlaces
  <2>2. command[p] # "none" /\ p \notin Servers
    BY <1>2, <2>1, Constants DEF ControlInv, CommandControl
  <2> QED BY <1>2, <2>2 DEF Running
<1> QED BY <1>1, <1>2, Constants

\* What the operators did stays noted.
LEMMA NotesKept ==
  ASSUME [Next]_vars
  PROVE  /\ strayed \subseteq strayed'
         /\ strayed \subseteq Notes => strayed' \subseteq Notes
<1>1. CASE UNCHANGED strayed
  BY <1>1
<1>2. CASE NoteBeside
  BY <1>2 DEF NoteBeside, Notes
<1>3. ASSUME NEW p \in Processes, Ingest(p)
      PROVE  strayed' \in {strayed, strayed \cup {"apart"}}
  BY <1>3 DEF Ingest, Tick, DecideRange, NextLedger, FlushLedger, FinishRange,
     ReportCursor
<1>4. CASE \E p \in Processes : Ingest(p)
  BY <1>3, <1>4 DEF Notes
<1>5. ASSUME NEW c \in Clis, StartSomeCommand(c) PROVE NoteBeside
  BY <1>5 DEF StartSomeCommand, StartBackfill, StartReingest,
     StartReingestOutdated, StartRebase, StartClear, StartReap, StartCommand
<1>6. ASSUME NEW c \in Clis, CommandStep(c) PROVE UNCHANGED strayed
  BY <1>6 DEF CommandStep, NextOutdated, RebaseElder, ClearAll
<1>7. ASSUME NEW p \in Processes,
             Refresh(p) \/ SkipReap(p) \/ Reap(p) \/ Crash(p)
      PROVE  UNCHANGED strayed
  BY <1>7 DEF Refresh, RefreshLatest, RefreshElder, SkipReap, Reap,
     DeleteUnretainedHistory, ClearBefore, Crash
<1>8. CloseLedger \/ Maintain \/ UNCHANGED vars => UNCHANGED strayed
  BY DEF CloseLedger, Maintain, vars
<1>9. ASSUME NEW s \in Servers, StartServer(s) PROVE NoteBeside
  BY <1>9 DEF StartServer
<1> QED BY <1>1, <1>2, <1>4, <1>5, <1>6, <1>7, <1>8, <1>9, Constants DEF Next

LEMMA IngestKeepsControl ==
  ASSUME Types, ControlInv, NEW p \in Processes, Ingest(p),
         strayed \subseteq strayed'
  PROVE  ControlInv'
<1>1. UNCHANGED <<retention, up, cached, reaper>>
  BY DEF Ingest, Tick, DecideRange, NextLedger, FlushLedger, FinishRange,
         ReportCursor
<1>2. /\ p \in Servers => p \in up
      /\ p \in Clis => command[p] # "none"
  <2>1. CASE Tick(p)
    BY <2>1, TickDoes, Constants DEF Types
  <2>2. CASE ~Tick(p)
    <3>1. job[p].at # "idle"
      BY <2>2 DEF Ingest, DecideRange, NextLedger, FlushLedger, FinishRange,
                  ReportCursor
    <3> QED BY <3>1, AtWork
  <2> QED BY <2>1, <2>2
<1>3. /\ OnlyJob(p)
      /\ p \in Servers => job'[p].at \in ServerPlaces
      /\ \/ command' = command
         \/ ExitCommand(p) /\ job'[p] = Idle /\ job[p].at # "idle"
      /\ p \in Clis =>
           /\ job'[p].at \in {"next", "flush"} => job[p].at \in {"next", "flush"}
           /\ job'[p].at = "outdated" => command[p] = "outdated"
           /\ job'[p].at \notin {"coreElder", "clear"}
  <2>1. CASE Tick(p)
    BY <1>2, <2>1, TickDoes, Constants DEF SetsJob, Tick, ServerPlaces, Types
  <2>2. CASE DecideRange(p)
    <3>1. p \in Servers /\ p \notin Clis
      BY <2>2, DecideRangeDoes, Constants DEF Types
    <3> QED BY <2>2, <3>1, DecideRangeDoes, IdleIs
            DEF SetsJob, DecideRange, ServerPlaces
  <2>3. CASE NextLedger(p)
    BY <2>3, NextLedgerDoes, IdleIs DEF MovesTo, Ends, SetsJob, ServerPlaces
  <2>4. CASE FlushLedger(p)
    BY <2>4, FlushLedgerDoes, IdleIs DEF MovesTo, Ends, SetsJob, ServerPlaces
  <2>5. CASE FinishRange(p)
    BY <2>5, FinishRangeDoes, IdleIs, Constants
       DEF MovesTo, Ends, SetsJob, ServerPlaces
  <2>6. CASE ReportCursor(p)
    BY <2>6, ReportCursorDoes, IdleIs DEF Ends, SetsJob, ServerPlaces
  <2> QED BY <2>1, <2>2, <2>3, <2>4, <2>5, <2>6 DEF Ingest
<1>4. \A c \in Clis : /\ command'[c] \in {command[c], "none"}
                      /\ c # p => command'[c] = command[c]
  BY <1>3, CommandTypeKept
<1>5. p \in Servers => ServerControl(p)'
  BY <1>1, <1>2, <1>3, Constants DEF ServerControl
<1>6. p \in Clis => CommandControl(p)'
  <2> SUFFICES ASSUME p \in Clis PROVE CommandControl(p)'
    OBVIOUS
  <2>1. command'[p] = "none" => reaper[p].at = "idle"
    <3>1. job[p].at # "idle" => command[p] # "reap"
      <4>1. job[p].at \in JobPlaces \ {"history", "report"}
        BY JobFields, Constants DEF Types
      <4> QED BY <4>1 DEF ControlInv, CommandControl, JobPlaces
    <3> QED BY <1>2, <1>3, <1>4, <3>1 DEF ControlInv, CommandControl
  <2>2. \/ command'[p] = command[p]
        \/ job'[p] = Idle /\ command'[p] = "none"
    BY <1>3, CommandTypeKept
  <2> QED BY <1>1, <1>3, <2>1, <2>2, IdleIs DEF ControlInv, CommandControl
<1>7. (Orderly' => ~Beside') /\ NoReapOfAll'
  BY <1>1, <1>4, OrderKept DEF ControlInv, NoReapOfAll
<1> QED BY <1>1, <1>3, <1>4, <1>5, <1>6, <1>7, ControlKept
        DEF ControlInv, OnlyJob

LEMMA CommandKeepsControl ==
  ASSUME Types, ControlInv, NEW c \in Clis, CommandStep(c),
         strayed \subseteq strayed'
  PROVE  ControlInv'
<1>0. c \in Processes /\ c \notin Servers
  BY Constants
<1>1. UNCHANGED <<retention, up, cached, reaper>>
  BY DEF CommandStep, NextOutdated, RebaseElder, ClearAll
<1>2. /\ OnlyJob(c)
      /\ \/ command' = command
         \/ ExitCommand(c) /\ job'[c] = Idle
      /\ job'[c].at \in {"next", "flush"} => command[c] \in {"outdated", "rebase"}
      /\ job'[c].at = "clear" => command[c] = "rebase"
      /\ job'[c].at \notin {"outdated", "coreElder"}
  <2>1. CASE NextOutdated(c)
    BY <2>1, NextOutdatedDoes, IdleIs
       DEF Ends, SetsJob, ControlInv, CommandControl
  <2>2. CASE RebaseElder(c)
    BY <2>2, RebaseElderDoes DEF ControlInv, CommandControl
  <2>3. CASE ClearAll(c)
    BY <2>3, ClearAllDoes, IdleIs DEF Ends, SetsJob
  <2> QED BY <2>1, <2>2, <2>3 DEF CommandStep
<1>3. /\ \A d \in Clis : /\ command'[d] \in {command[d], "none"}
                         /\ d # c => command'[d] = command[d]
      /\ \/ command'[c] = command[c]
         \/ job'[c] = Idle /\ command'[c] = "none"
  BY <1>2, CommandTypeKept
<1>4. CommandControl(c)'
  <2>1. reaper[c].at = "idle"
    <3>1. job[c].at \in {"outdated", "coreElder", "clear"}
      BY DEF CommandStep, NextOutdated, RebaseElder, ClearAll
    <3> QED BY <3>1 DEF ControlInv, CommandControl
  <2> QED BY <1>1, <1>2, <1>3, <2>1, IdleIs DEF ControlInv, CommandControl
<1>5. (Orderly' => ~Beside') /\ NoReapOfAll'
  BY <1>1, <1>3, OrderKept DEF ControlInv, NoReapOfAll
<1> QED BY <1>0, <1>1, <1>2, <1>3, <1>4, <1>5, ControlKept
        DEF ControlInv, OnlyJob

LEMMA StartKeepsControl ==
  ASSUME Types, ControlInv, NEW c \in Clis, StartSomeCommand(c)
  PROVE  ControlInv'
<1>0. c \in Processes /\ c \notin Servers
  BY Constants
<1>1. UNCHANGED <<retention, up, cached>>
  BY DEF StartSomeCommand, StartBackfill, StartReingest, StartReingestOutdated,
         StartRebase, StartClear, StartReap, StartCommand
<1>2. PICK k \in CommandKinds : \E j \in Session : Starts(c, k, j)
  BY StartSomeCommandDoes
<1>3. PICK j \in Session : Starts(c, k, j)
  BY <1>2
<1>4. command'[c] = k /\ \A d \in Clis : d # c => command'[d] = command[d]
  BY <1>3 DEF Starts, Types
<1>5. \/ reaper' = reaper
      \/ k = "reap" /\ reaper' = [reaper EXCEPT ![c].at = "tick"]
  <2>1. CASE StartReap(c)
    <3>1. command' = [command EXCEPT ![c] = "reap"]
      BY <2>1 DEF StartReap, StartCommand
    <3>2. command'[c] = "reap"
      BY <3>1 DEF Types
    <3> QED BY <1>4, <2>1, <3>2 DEF StartReap
  <2>2. CASE ~StartReap(c)
    BY <2>2 DEF StartSomeCommand, StartBackfill, StartReingest,
                StartReingestOutdated, StartRebase, StartClear
  <2> QED BY <2>1, <2>2
<1>6. /\ OnlyReaper(c)
      /\ \/ reaper'[c] = reaper[c]
         \/ k = "reap" /\ reaper'[c].at = "tick"
  BY <1>0, <1>5 DEF Types, Reaper, OnlyReaper
<1>7. CommandControl(c)'
  <2>1. job'[c] = j /\ Begins(k, j) /\ command[c] = "none"
    BY <1>3 DEF Starts, SetsJob
  <2> QED BY <1>1, <1>4, <1>6, <2>1, IdleIs
          DEF ControlInv, CommandControl, Begins, CommandKinds
<1>8. Orderly' => ~Beside'
  BY <1>3 DEF Starts, NoteBeside, Orderly
<1>9. NoReapOfAll'
  BY <1>1, <1>6 DEF ControlInv, NoReapOfAll, OnlyReaper
<1> QED BY <1>0, <1>1, <1>3, <1>4, <1>6, <1>7, <1>8, <1>9, ControlKept
        DEF ControlInv, Starts, SetsJob, OnlyJob, OnlyReaper

LEMMA ReaperKeepsControl ==
  ASSUME Types, ControlInv, NEW p \in Processes, strayed \subseteq strayed',
         \/ Reap(p)
         \/ p \in Servers /\ (Refresh(p) \/ SkipReap(p))
  PROVE  ControlInv'
<1>1. UNCHANGED <<retention, up, job>>
  BY DEF Refresh, Reap, RefreshLatest, RefreshElder, SkipReap, ClearBefore,
         DeleteUnretainedHistory
<1>2. /\ OnlyReaper(p)
      /\ \A q \in Processes : q # p => cached'[q] = cached[q]
      /\ p \in Clis => cached' = cached /\ reaper'[p].at \in {"idle", "clear"}
      /\ reaper'[p].at = "clear" => retention # 0 /\ command' = command
      /\ \/ command' = command
         \/ ExitCommand(p) /\ reaper'[p].at = "idle"
      /\ p \in up \/ reaper[p].at # "idle"
  <2>1. CASE RefreshLatest(p)
    BY <2>1, RefreshLatestDoes, Constants DEF RefreshLatest, Reap,
       DeleteUnretainedHistory, ClearBefore
  <2>2. CASE RefreshElder(p)
    BY <2>2, RefreshElderDoes, Constants DEF RefreshElder, Reap,
       DeleteUnretainedHistory, ClearBefore
  <2>3. CASE SkipReap(p)
    <3>1. OnlyReaper(p) /\ reaper'[p] = Resting /\ reaper[p].at = "tick"
      BY <2>3 DEF SkipReap, Types, OnlyReaper
    <3> QED BY <2>3, <3>1, RestingIs, Constants DEF SkipReap
  <2>4. CASE DeleteUnretainedHistory(p)
    BY <2>4, DeleteUnretainedHistoryDoes, RestingIs DEF DeleteUnretainedHistory
  <2>5. CASE ClearBefore(p)
    <3>1. retention # 0
      BY <2>5, ClearBeforeDoes DEF ControlInv, NoReapOfAll
    <3> QED BY <2>5, <3>1, ClearBeforeDoes, RestingIs DEF ClearBefore
  <2> QED BY <2>1, <2>2, <2>3, <2>4, <2>5 DEF Refresh, Reap
<1>3. /\ p \in Servers => p \in up
      /\ p \in Clis => command[p] # "none"
  BY <1>2, AtWork, Constants DEF Types
<1>4. \A c \in Clis : /\ command'[c] \in {command[c], "none"}
                      /\ c # p => command'[c] = command[c]
  BY <1>2, CommandTypeKept
<1>5. p \in Servers => ServerControl(p)'
  BY <1>1, <1>3, Constants DEF ControlInv, ServerControl
<1>6. p \in Clis => CommandControl(p)'
  <2> SUFFICES ASSUME p \in Clis PROVE CommandControl(p)'
    OBVIOUS
  <2>1. reaper[p].at # "idle"
    BY <1>2, Constants DEF Types
  <2>2. command[p] = "reap"
    BY <2>1 DEF ControlInv, CommandControl
  <2>3. job[p].at \notin {"next", "flush", "outdated", "coreElder", "clear"}
    BY <2>2 DEF ControlInv, CommandControl
  <2>4. command'[p] = command[p] \/ reaper'[p].at = "idle"
    BY <1>2
  <2> QED BY <1>1, <1>2, <2>2, <2>3, <2>4 DEF ControlInv, CommandControl
<1>7. (Orderly' => ~Beside') /\ NoReapOfAll'
  BY <1>1, <1>2, <1>4, OrderKept DEF ControlInv, NoReapOfAll, OnlyReaper
<1> QED BY <1>1, <1>2, <1>4, <1>5, <1>6, <1>7, ControlKept
        DEF ControlInv, OnlyReaper

LEMMA CrashKeepsControl ==
  ASSUME Types, ControlInv, NEW p \in Processes, Crash(p),
         strayed \subseteq strayed'
  PROVE  ControlInv'
<1>1. \A c \in Clis : command'[c] = IF c = p THEN "none" ELSE command[c]
  BY CrashDoes, CommandTypeKept DEF Ends
<1>2. p \in Servers => ServerControl(p)'
  BY CrashDoes, IdleIs DEF ServerControl, Ends, SetsJob, ServerPlaces
<1>3. p \in Clis => CommandControl(p)'
  BY CrashDoes, IdleIs, RestingIs DEF CommandControl, Ends, SetsJob
<1>4. up' \subseteq up /\ retention' = retention
  BY CrashDoes
<1>5. Orderly' => ~Beside'
  BY <1>1, <1>4, OrderKept DEF ControlInv
<1>6. NoReapOfAll'
  BY CrashDoes, RestingIs DEF ControlInv, NoReapOfAll, OnlyReaper
<1> QED BY <1>1, <1>2, <1>3, <1>5, <1>6, CrashDoes, ControlKept
        DEF ControlInv, Ends, SetsJob, OnlyJob, OnlyReaper

LEMMA OthersKeepControl ==
  ASSUME Types, ControlInv, strayed \subseteq strayed',
         CloseLedger \/ Maintain \/ \E s \in Servers : StartServer(s)
  PROVE  ControlInv'
<1>1. UNCHANGED <<retention, job, cached, reaper, command>>
  BY DEF CloseLedger, Maintain, StartServer
<1>2. up \subseteq up' /\ (up' = up \/ NoteBeside)
  BY DEF CloseLedger, Maintain, StartServer
<1>3. \A s \in Servers : ServerControl(s)'
  BY <1>1, <1>2 DEF ControlInv, ServerControl
<1>4. \A c \in Clis : CommandControl(c)'
  BY <1>1 DEF ControlInv, CommandControl
<1>5. Orderly' => ~Beside'
  <2>1. CASE up' = up
    BY <1>1, <2>1, OrderKept DEF ControlInv
  <2>2. CASE NoteBeside
    BY <2>2 DEF NoteBeside, Orderly
  <2> QED BY <1>2, <2>1, <2>2
<1> QED BY <1>1, <1>3, <1>4, <1>5 DEF ControlInv, NoReapOfAll

LEMMA ControlHolds == Spec => [](ControlInv /\ NotesInv)
<1>1. Init => ControlInv /\ NotesInv
  BY IdleIs, RestingIs, Constants
     DEF Init, ControlInv, ServerControl, ServerPlaces, CommandControl, Beside,
         NoReapOfAll, NotesInv
<1>2. Types /\ ControlInv /\ NotesInv /\ [Next]_vars
        => ControlInv' /\ NotesInv'
  <2> SUFFICES ASSUME Types, ControlInv, NotesInv, [Next]_vars
               PROVE  ControlInv' /\ NotesInv'
    OBVIOUS
  <2>0. strayed \subseteq strayed' /\ NotesInv'
    BY NotesKept DEF NotesInv
  <2>1. CASE Next
    BY <2>0, <2>1, IngestKeepsControl, CommandKeepsControl, StartKeepsControl,
       ReaperKeepsControl, CrashKeepsControl, OthersKeepControl, Constants
       DEF Next
  <2>2. CASE UNCHANGED vars
    <3>1. UNCHANGED <<retention, up, job, cached, reaper, command, strayed>>
      BY <2>2 DEF vars
    <3>2. /\ \A s \in Servers : ServerControl(s)'
          /\ \A c \in Clis : CommandControl(c)'
      BY <3>1 DEF ControlInv, ServerControl, CommandControl
    <3> QED BY <2>0, <3>1, <3>2
            DEF ControlInv, NoReapOfAll, Orderly, Beside, Running
  <2> QED BY <2>0, <2>1, <2>2
<1> QED BY <1>1, <1>2, TypesHold, PTL DEF Spec

-----------------------------------------------------------------------------
(* Third layer: the rows of the history, and how far the reapers reach,    *)
(* as long as nothing is cleared beside something else.                    *)

\* The reapers' stale ledger states are never ahead of the history.
Behind(p) ==
  /\ cached[p].latest <= LatestLedger
  /\ reaper[p].at = "elder" => reaper[p].target <= LatestLedger
  /\ reaper[p].at = "clear" => reaper[p].target <= LatestLedger - retention + 1

ReapInv == Orderly => \A p \in Processes : Behind(p)

RowsInv == /\ \A t \in Tables : rows[t] \subseteq Contents[t]
           /\ WindowIsWhole

\* What a step takes away, it takes from outside the window.
TakesUnretained ==
  \A t \in Tables : \A l \in rows[t] \ rows'[t] : ~InWindow(l)

LEMMA Latest ==
  ASSUME Types
  PROVE  LatestLedger \in Nat /\ LatestLedger <= MaxLedger /\ retention \in Nat
BY LatestIsTop, Constants DEF IsTop, Types

LEMMA LatestGrows ==
  ASSUME Types, rows' \in [Tables -> SUBSET Ledgers],
         rows["ledgers"] \subseteq rows'["ledgers"]
  PROVE  LatestLedger' \in Nat /\ LatestLedger <= LatestLedger'
BY LatestIsTop, NextLatestIsTop DEF IsTop

LEMMA FlushKeepsRows ==
  ASSUME Types, RowsInv, retention' = retention, strayed \subseteq strayed',
         NEW p \in Processes, job[p].at = "flush", Adds(p)
  PROVE  RowsInv' /\ TakesUnretained /\ LatestLedger <= LatestLedger'
<1> DEFINE lg == job[p].cursor.lg
<1>1. /\ lg \in Ledgers /\ rows' \in [Tables -> SUBSET Ledgers]
      /\ rows'["ledgers"] = rows["ledgers"] \cup {lg}
      /\ \A t \in Tables :
           /\ rows'[t] \subseteq rows[t] \cup {lg}
           /\ \A l \in rows[t] : l # lg => l \in rows'[t]
           /\ lg \in Contents[t] => lg \in rows'[t]
           /\ lg \in rows'[t] => lg \in Contents[t] \cup rows[t]
  BY FlushRows
<1> HIDE DEF lg
<1>2. \A t \in Tables : rows'[t] \subseteq Contents[t] /\ rows[t] \subseteq rows'[t]
  BY <1>1 DEF RowsInv
<1>3. LatestLedger' \in Nat /\ LatestLedger <= LatestLedger'
  BY <1>1, LatestGrows
<1>4. WindowIsWhole'
  <2> SUFFICES ASSUME Orderly, NEW l \in Ledgers, InWindow(l)', NEW t \in Tables
               PROVE  l \in rows'[t] <=> l \in rows'["ledgers"] \cap Contents[t]
    BY DEF WindowIsWhole, Orderly
  <2>1. CASE l = lg
    BY <1>1, <1>2, <2>1
  <2>2. CASE l # lg
    <3>1. InWindow(l)
      BY <1>3, Latest, Constants DEF InWindow
    <3>2. l \in rows[t] <=> l \in rows["ledgers"] \cap Contents[t]
      BY <3>1 DEF RowsInv, WindowIsWhole, Orderly
    <3> QED BY <1>1, <2>2, <3>2
  <2> QED BY <2>1, <2>2
<1>5. TakesUnretained
  BY <1>2 DEF TakesUnretained
<1> QED BY <1>2, <1>3, <1>4, <1>5 DEF RowsInv

LEMMA DeleteKeepsRows ==
  ASSUME Types, ControlInv, RowsInv, ReapInv, retention' = retention, Orderly,
         NEW p \in Processes, reaper[p].at = "clear", Deletes(p)
  PROVE  RowsInv' /\ TakesUnretained /\ LatestLedger' = LatestLedger
<1>1. PICK n \in Int : n = reaper[p].target
  BY ReaperFields
<1>2. /\ rows' \in [Tables -> SUBSET Ledgers]
      /\ \A t \in Tables :
           /\ rows'[t] \subseteq rows[t]
           /\ \A l \in rows[t] : l >= n => l \in rows'[t]
  BY <1>1, ReapRows
<1>3. retention \in Nat /\ retention >= 1 /\ n <= LatestLedger - retention + 1
  BY <1>1, Latest DEF ControlInv, NoReapOfAll, ReapInv, Behind
<1>4. LatestLedger' = LatestLedger
  BY <1>2, <1>3, Latest, LatestIsTop, NextLatestIsTop, Constants DEF IsTop
<1>5. ASSUME NEW l \in Ledgers, InWindow(l), NEW t \in Tables
      PROVE  l \in rows'[t] <=> l \in rows[t]
  <2>1. l >= n
    BY <1>3, <1>5, Latest, Constants DEF InWindow
  <2> QED BY <1>2, <2>1
<1>6. WindowIsWhole'
  <2> SUFFICES ASSUME Orderly, NEW l \in Ledgers, InWindow(l)', NEW t \in Tables
               PROVE  l \in rows'[t] <=> l \in rows'["ledgers"] \cap Contents[t]
    BY DEF WindowIsWhole, Orderly
  <2>1. InWindow(l)
    BY <1>4 DEF InWindow
  <2>2. l \in rows[t] <=> l \in rows["ledgers"] \cap Contents[t]
    BY <2>1 DEF RowsInv, WindowIsWhole, Orderly
  <2> QED BY <1>5, <2>1, <2>2, Constants
<1>7. TakesUnretained
  <2> SUFFICES ASSUME NEW t \in Tables, NEW l \in rows[t] \ rows'[t], InWindow(l)
               PROVE  FALSE
    BY DEF TakesUnretained
  <2>1. l \in Ledgers
    BY DEF Types
  <2> QED BY <1>5, <2>1
<1>8. \A t \in Tables : rows'[t] \subseteq Contents[t]
  BY <1>2 DEF RowsInv
<1> QED BY <1>4, <1>6, <1>7, <1>8 DEF RowsInv

\* Nothing but the command runs when everything is cleared.
LEMMA ClearingAlone ==
  ASSUME Types, ControlInv, Orderly, NEW c \in Clis,
         command[c] \in {"clear", "rebase"}
  PROVE  /\ up = {} /\ \A d \in Clis : d # c => command[d] = "none"
         /\ \A p \in Processes : cached[p] = ZeroState /\ reaper[p].at = "idle"
         /\ \A p \in Processes \ {c} : job[p].at = "idle"
<1>1. Running \ {c} = {}
  BY DEF ControlInv, Beside
<1>2. up = {} /\ \A d \in Clis : d # c => command[d] = "none"
  BY <1>1, Constants DEF Running, Types
<1>3. \A s \in Servers : /\ job[s] = Idle
                         /\ cached[s] = ZeroState /\ reaper[s] = Resting
  BY <1>2 DEF ControlInv, ServerControl
<1>4. ASSUME NEW d \in Clis
      PROVE  /\ cached[d] = ZeroState /\ reaper[d].at = "idle"
             /\ d # c => job[d].at = "idle"
  <2>1. command[d] # "reap"
    BY <1>2
  <2>2. d # c => job[d].at = "idle"
    <3>1. job[d].at \in JobPlaces \ {"history", "report"}
      BY JobFields, Constants DEF Types
    <3> QED BY <1>2, <3>1 DEF ControlInv, CommandControl, JobPlaces
  <2> QED BY <2>1, <2>2 DEF ControlInv, CommandControl
<1> QED BY <1>2, <1>3, <1>4, IdleIs, RestingIs, Constants

LEMMA ClearAllKeepsRows ==
  ASSUME Types, ControlInv, NEW c \in Clis, job[c].at = "clear",
         rows' = HistoryOf({}), strayed \subseteq strayed',
         UNCHANGED <<retention, cached, reaper>>
  PROVE  RowsInv' /\ ReapInv'
<1>1. /\ rows' \in [Tables -> SUBSET Ledgers]
      /\ \A t \in Tables : rows'[t] = {}
  BY ClearedRows
<1>2. RowsInv'
  BY <1>1, Constants DEF RowsInv, WindowIsWhole
<1>3. LatestLedger' \in Nat
  BY <1>1, NextLatestIsTop DEF IsTop
<1>4. command[c] \in {"clear", "rebase"}
  BY DEF ControlInv, CommandControl
<1>5. ReapInv'
  BY <1>3, <1>4, ClearingAlone, RestingIs DEF ReapInv, Behind, Orderly
<1> QED BY <1>2, <1>5

\* A step that leaves the rows alone, or adds to them.
LEMMA BehindKept ==
  ASSUME Types, ReapInv, Orderly, LatestLedger <= LatestLedger',
         LatestLedger' \in Nat, retention' = retention,
         NEW p \in Processes, reaper'[p] = reaper[p], cached'[p] = cached[p]
  PROVE  Behind(p)'
BY Latest, ReaperFields DEF ReapInv, Behind

LEMMA UnchangedRows ==
  ASSUME Types, RowsInv, UNCHANGED <<rows, retention>>,
         strayed \subseteq strayed'
  PROVE  /\ RowsInv' /\ TakesUnretained
         /\ LatestLedger' = LatestLedger /\ LatestLedger' \in Nat
BY Latest DEF RowsInv, WindowIsWhole, InWindow, LatestLedger, TakesUnretained

LEMMA IngestKeepsRows ==
  ASSUME Types, RowsInv, ReapInv, NEW p \in Processes, Ingest(p),
         strayed \subseteq strayed'
  PROVE  RowsInv' /\ ReapInv' /\ TakesUnretained
<1>1. UNCHANGED <<retention, cached, reaper>>
  BY DEF Ingest, Tick, DecideRange, NextLedger, FlushLedger, FinishRange,
         ReportCursor
<1>2. \/ rows' = rows
      \/ job[p].at = "flush" /\ Adds(p)
  BY FlushLedgerDoes DEF Ingest, Tick, DecideRange, NextLedger, FinishRange,
     ReportCursor, historyVars
<1>3. /\ RowsInv' /\ TakesUnretained
      /\ LatestLedger <= LatestLedger' /\ LatestLedger' \in Nat
  <2>1. CASE rows' = rows
    BY <1>1, <2>1, UnchangedRows
  <2>2. CASE job[p].at = "flush" /\ Adds(p)
    <3>1. rows' \in [Tables -> SUBSET Ledgers]
      BY <2>2, FlushRows
    <3> QED BY <1>1, <2>2, <3>1, FlushKeepsRows, NextLatestIsTop DEF IsTop
  <2> QED BY <1>2, <2>1, <2>2
<1>4. ReapInv'
  BY <1>1, <1>3, BehindKept DEF ReapInv, Orderly
<1> QED BY <1>3, <1>4

LEMMA ReaperKeepsRows ==
  ASSUME Types, ControlInv, RowsInv, ReapInv, NEW p \in Processes,
         Refresh(p) \/ Reap(p) \/ SkipReap(p), Orderly, strayed \subseteq strayed'
  PROVE  RowsInv' /\ ReapInv' /\ TakesUnretained
<1>1. retention' = retention
  BY DEF Refresh, Reap, RefreshLatest, RefreshElder, SkipReap, ClearBefore,
         DeleteUnretainedHistory
<1>2. /\ RowsInv' /\ TakesUnretained
      /\ LatestLedger' = LatestLedger /\ LatestLedger' \in Nat
  <2>1. \/ rows' = rows
        \/ reaper[p].at = "clear" /\ Deletes(p)
    BY ClearBeforeDoes DEF Refresh, Reap, RefreshLatest, RefreshElder, SkipReap,
       DeleteUnretainedHistory, historyVars
  <2> QED BY <1>1, <2>1, UnchangedRows, DeleteKeepsRows, Latest
<1>3. /\ \A q \in Processes : q # p => reaper'[q] = reaper[q]
      /\ \A q \in Processes : q # p => cached'[q] = cached[q]
      /\ Behind(p)'
  <2>1. CASE RefreshLatest(p)
    <3>1. cached' = cached
      BY <2>1 DEF RefreshLatest
    <3> QED BY <1>2, <2>1, <3>1, RefreshLatestDoes
            DEF OnlyReaper, ReapInv, Behind
  <2>2. CASE RefreshElder(p)
    BY <1>2, <2>2, RefreshElderDoes DEF OnlyReaper, ReapInv, Behind
  <2>3. CASE SkipReap(p)
    <3>1. /\ OnlyReaper(p) /\ reaper'[p] = Resting /\ cached' = cached
      BY <2>3 DEF SkipReap, Types, OnlyReaper
    <3> QED BY <1>2, <3>1, RestingIs DEF OnlyReaper, ReapInv, Behind
  <2>4. CASE DeleteUnretainedHistory(p)
    <3>1. cached' = cached
      BY <2>4 DEF DeleteUnretainedHistory
    <3>2. cached[p].latest \in Int
      BY ReaperFields
    <3>3. cached[p].latest <= LatestLedger
      BY DEF ReapInv, Behind
    <3> QED BY <1>1, <1>2, <2>4, <3>1, <3>2, <3>3, Latest, RestingIs,
               DeleteUnretainedHistoryDoes DEF OnlyReaper, Behind
  <2>5. CASE ClearBefore(p)
    <3>1. cached' = cached
      BY <2>5 DEF ClearBefore
    <3> QED BY <1>1, <1>2, <2>5, <3>1, ClearBeforeDoes, RestingIs
            DEF OnlyReaper, ReapInv, Behind
  <2> QED BY <2>1, <2>2, <2>3, <2>4, <2>5 DEF Refresh, Reap
<1>4. ReapInv'
  <2> SUFFICES ASSUME NEW q \in Processes, q # p PROVE Behind(q)'
    BY <1>3 DEF ReapInv
  <2>1. LatestLedger <= LatestLedger'
    BY <1>2
  <2> QED BY <1>1, <1>2, <1>3, <2>1, BehindKept
<1> QED BY <1>2, <1>4

LEMMA OthersKeepRows ==
  ASSUME Types, ControlInv, RowsInv, ReapInv, strayed \subseteq strayed',
         \/ \E c \in Clis : CommandStep(c) \/ StartSomeCommand(c)
         \/ CloseLedger \/ Maintain
         \/ \E s \in Servers : StartServer(s)
         \/ \E p \in Processes : Crash(p)
         \/ UNCHANGED vars
  PROVE  /\ RowsInv' /\ ReapInv'
         /\ ~Clearing => TakesUnretained
<1>1. retention' = retention
  BY DEF CommandStep, NextOutdated, RebaseElder, ClearAll, StartSomeCommand,
         StartBackfill, StartReingest, StartReingestOutdated, StartRebase,
         StartClear, StartReap, StartCommand, CloseLedger, Maintain,
         StartServer, Crash, vars
<1>2. CASE \E c \in Clis : ClearAll(c) /\ rows' = HistoryOf({})
  <2>1. PICK c \in Clis : ClearAll(c) /\ rows' = HistoryOf({})
    BY <1>2
  <2>2. job[c].at = "clear" /\ UNCHANGED <<retention, cached, reaper>>
    BY <2>1 DEF ClearAll
  <2>3. Clearing
    BY <2>2 DEF Clearing, ControlInv, CommandControl
  <2> QED BY <2>1, <2>2, <2>3, ClearAllKeepsRows
<1>3. CASE ~\E c \in Clis : ClearAll(c) /\ rows' = HistoryOf({})
  <2>1. rows' = rows
    <3>1. ASSUME NEW c \in Clis, CommandStep(c) \/ StartSomeCommand(c)
          PROVE  rows' = rows
      BY <1>3, <3>1, ClearAllDoes
         DEF CommandStep, NextOutdated, RebaseElder, StartSomeCommand,
             StartBackfill, StartReingest, StartReingestOutdated, StartRebase,
             StartClear, StartReap, StartCommand, historyVars
    <3> QED BY <3>1 DEF CloseLedger, Maintain, StartServer, Crash, vars,
                        historyVars
  <2>2. /\ RowsInv' /\ TakesUnretained
        /\ LatestLedger <= LatestLedger' /\ LatestLedger' \in Nat
    BY <1>1, <2>1, UnchangedRows, Latest
  <2>3. ASSUME Orderly, NEW q \in Processes PROVE Behind(q)'
    <3>1. CASE reaper'[q] = reaper[q] /\ cached'[q] = cached[q]
      BY <1>1, <2>2, <2>3, <3>1, BehindKept
    <3>2. CASE /\ reaper'[q].at \in {"idle", "tick"}
               /\ cached'[q] \in {ZeroState, cached[q]}
      BY <2>2, <2>3, <3>2, RestingIs, Latest, ReaperFields DEF ReapInv, Behind
    <3>3. CASE \E p \in Processes : Crash(p)
      BY <3>1, <3>2, <3>3, CrashDoes, RestingIs DEF OnlyReaper
    <3>4. ASSUME NEW c \in Clis, StartReap(c) PROVE Behind(q)'
      <4>1. /\ reaper' = [reaper EXCEPT ![c].at = "tick"] /\ cached' = cached
        BY <3>4 DEF StartReap, StartCommand
      <4>2. /\ OnlyReaper(c) /\ reaper'[c].at = "tick"
        BY <4>1, Constants DEF Types, Reaper, OnlyReaper
      <4> QED BY <3>1, <3>2, <4>1, <4>2 DEF OnlyReaper
    <3>5. CASE UNCHANGED <<reaper, cached>>
      BY <3>1, <3>5
    <3> QED BY <3>3, <3>4, <3>5
            DEF CommandStep, NextOutdated, RebaseElder, ClearAll, StartSomeCommand,
                StartBackfill, StartReingest, StartReingestOutdated, StartRebase,
                StartClear, StartCommand, CloseLedger, Maintain, StartServer, vars
  <2> QED BY <2>2, <2>3 DEF ReapInv, Orderly
<1> QED BY <1>2, <1>3

\* The rows themselves, however the operators cleared.
LEMMA ContentsKept ==
  ASSUME Types, RowsInv, NEW p \in Processes, Reap(p)
  PROVE  \A t \in Tables : rows'[t] \subseteq Contents[t]
<1>1. rows' = rows \/ Deletes(p)
  BY ClearBeforeDoes DEF Reap, DeleteUnretainedHistory, historyVars
<1> QED BY <1>1, ReapRows DEF RowsInv

LEMMA StepKeepsRows ==
  ASSUME Types, ControlInv, RowsInv, ReapInv, [Next]_vars
  PROVE  /\ RowsInv' /\ ReapInv'
         /\ Orderly /\ ~Clearing => TakesUnretained
<1>1. strayed \subseteq strayed'
  BY NotesKept
<1>2. ASSUME NEW p \in Processes, Refresh(p) \/ Reap(p) \/ SkipReap(p)
      PROVE  /\ RowsInv' /\ ReapInv'
             /\ Orderly => TakesUnretained
  <2>1. CASE Orderly
    BY <1>1, <1>2, <2>1, ReaperKeepsRows
  <2>2. CASE ~Orderly
    <3>1. ~Orderly'
      BY <1>1, <2>2 DEF Orderly
    <3>2. \A t \in Tables : rows'[t] \subseteq Contents[t]
      <4>1. CASE Reap(p)
        BY <4>1, ContentsKept
      <4>2. CASE Refresh(p) \/ SkipReap(p)
        BY <4>2 DEF Refresh, RefreshLatest, RefreshElder, SkipReap, historyVars,
                    RowsInv
      <4> QED BY <1>2, <4>1, <4>2
    <3> QED BY <2>2, <3>1, <3>2 DEF RowsInv, WindowIsWhole, ReapInv, Orderly
  <2> QED BY <2>1, <2>2
<1> QED BY <1>1, <1>2, IngestKeepsRows, OthersKeepRows, Constants DEF Next

LEMMA RowsHold == Spec => [](RowsInv /\ ReapInv)
<1>1. Init => RowsInv /\ ReapInv
  <2> SUFFICES ASSUME Init PROVE RowsInv /\ ReapInv
    OBVIOUS
  <2>1. Types
    BY InitTypes
  <2>2. \E S : rows = HistoryOf(S)
    BY InitTypes
  <2>3. \A t \in Tables : \E S : rows[t] = Contents[t] \cap S
                                 /\ rows["ledgers"] = Ledgers \cap S
    BY <2>2, Constants DEF HistoryOf
  <2>4. RowsInv
    BY <2>3 DEF RowsInv, WindowIsWhole
  <2>5. ReapInv
    BY <2>1, Latest, RestingIs DEF Init, ReapInv, Behind
  <2> QED BY <2>4, <2>5
<1>2. Types /\ ControlInv /\ RowsInv /\ ReapInv /\ [Next]_vars
        => RowsInv' /\ ReapInv'
  BY StepKeepsRows
<1> QED BY <1>1, <1>2, TypesHold, ControlHolds, PTL DEF Spec

-----------------------------------------------------------------------------
(* What holds for any number of servers.                                   *)

(* Types, and what each place of a session or of a reaper implies: a       *)
(* session that flushes holds a ledger that core has closed, and a server  *)
(* that stopped has no session and no reaper at work.                      *)
THEOREM IngestionTypeCorrect == Spec => []TypeOK
<1>1. Types /\ ControlInv /\ NotesInv => TypeOK
  <2> SUFFICES ASSUME Types, ControlInv, NotesInv PROVE TypeOK
    OBVIOUS
  <2>1. ASSUME NEW p \in Processes
        PROVE  /\ job[p].at \in JobPlaces
               /\ job[p].cursor \in SessionCursor
               /\ job[p].clear \in BOOLEAN /\ job[p].todo \subseteq Ledgers
               /\ job[p].at = "flush" => job[p].cursor.lg \in 1 .. coreLatest
               /\ reaper[p].at \in {"idle", "elder", "tick", "clear"}
               /\ reaper[p].at = "clear" => reaper[p].table \in 1 .. Len(ReapOrder)
               /\ cached[p] \in [latest : 0 .. MaxLedger, elder : 0 .. MaxLedger]
    <3>1. Len(ReapOrder) = 3
      BY DEF ReapOrder
    <3> QED BY <3>1, JobFields, ReaperFields
            DEF Types, ReaperPlaces, LedgerState
  <2>2. \A s \in Servers \ up : job[s] = Idle /\ reaper[s] = Resting
    BY DEF ControlInv, ServerControl
  <2>3. /\ coreElder \in Ledgers /\ coreLatest \in Ledgers
        /\ cursor \in 0 .. MaxLedger
        /\ rows \in [Tables -> SUBSET Ledgers] /\ outdated \subseteq rows["ledgers"]
        /\ retention \in Retentions /\ up \subseteq Servers
        /\ command \in [Clis -> CommandKinds \cup {"none"}]
        /\ strayed \subseteq Notes
        /\ faults \in 0 .. MaxFaults /\ commands \in 0 .. MaxCommands
    BY DEF Types, NotesInv
  <2> QED BY <2>1, <2>2, <2>3 DEF TypeOK, SessionCursor
<1> QED BY <1>1, TypesHold, ControlHolds, PTL

(* Whatever servers, reapers and commands have half done, a ledger inside  *)
(* the retention window has the rows of all its tables or of none: a flush *)
(* is one transaction, and a reaper's target is counted from a ledger      *)
(* state that was never ahead of the history (reap/system.go:13-28), until *)
(* the history is cleared beside a server or another command.              *)
THEOREM WindowStaysWhole == Spec => []WindowIsWhole
<1>1. RowsInv => WindowIsWhole
  BY DEF RowsInv
<1> QED BY <1>1, RowsHold, PTL

(* Only `db clear` and `db rebase` take away a row inside the window: no   *)
(* reaper does, however old its ledger state, whatever is reingested or    *)
(* backfilled beside it, and no reingestion, although it clears the ledger *)
(* first (ingest/session.go:38-52).                                        *)
THEOREM RetainedIsKept == Spec => KeepsRetained
<1>1. Types /\ ControlInv /\ RowsInv /\ ReapInv /\ [Next]_vars =>
        [~Clearing /\ "beside" \notin strayed =>
           \A t \in Tables : \A l \in rows[t] \ rows'[t] : ~InWindow(l)]_rows
  BY StepKeepsRows DEF TakesUnretained, Orderly
<1> QED BY <1>1, TypesHold, ControlHolds, RowsHold, PTL DEF Spec, KeepsRetained

-----------------------------------------------------------------------------
(* Fourth layer, for one server, until the operators stray: what a session *)
(* knows of the history and of core.  docs/admin.md:99 recommends one      *)
(* ingesting process.                                                      *)

OneServer == \A s, t \in Servers : s = t

NoGap == \A l \in Ledgers : ElderLedger <= l /\ l <= LatestLedger /\ InWindow(l)
                             => l \in rows["ledgers"]

(* Core has not freed what follows the cursor, and the cursor is not ahead *)
(* of the history.                                                         *)
CoreInv == /\ coreElder <= cursor + 1 /\ cursor <= coreLatest
           /\ LatestLedger <= coreLatest
           /\ LatestLedger # 0 => cursor <= LatestLedger

\* The history has all the ledgers to keep; a reaper may be at work.
WindowFull == retention # 0 /\ ElderLedger <= LatestLedger - retention + 1

(* A ledger that leaves no gap in the window when it is added: next to the *)
(* history or within it, or anywhere below a window that is full.          *)
Joins(l) == /\ LatestLedger # 0 /\ l <= LatestLedger + 1
            /\ ElderLedger - 1 <= l \/ WindowFull

\* A ledger both neighbours of which join.
Covered(l) == /\ LatestLedger # 0 /\ l <= LatestLedger
              /\ ElderLedger <= l \/ WindowFull

\* The first ledger of a history, which is not below the cursor.
Opens(p, l) == /\ LatestLedger = 0 /\ cursor <= l
               /\ p \in Servers \/ command[p] = "rebase"

(* Where a session is; a reingestion may be anywhere.                      *)
SessionInv(p) ==
  LET at == job[p].at
      c == job[p].cursor IN
  p \in Servers \/ command[p] # "reingest" =>
    /\ at = "next" /\ c.lg = 0 =>
         c.first < 1 \/ Opens(p, c.first) \/ Joins(c.first)
    /\ at = "next" /\ c.lg # 0 => Covered(c.lg)
    /\ at = "flush" => Opens(p, c.lg) \/ Joins(c.lg)
    /\ p \in Clis /\ command[p] = "outdated" => \A l \in job[p].todo : Joins(l)
    /\ p \in Clis /\ command[p] = "rebase" /\ at \in {"coreElder", "clear"} =>
         cursor <= c.first /\ c.lg = 0

(* A server's session ends at a ledger that core had when it began.        *)
ServerInv(s) ==
  LET at == job[s].at
      c == job[s].cursor IN
  /\ at # "idle" => cursor <= c.last /\ c.last <= coreLatest
  /\ at \in {"next", "flush"} /\ c.first > c.last =>
       LatestLedger # 0 /\ c.last <= LatestLedger
  /\ at = "report" => LatestLedger # 0 /\ c.last <= LatestLedger

WindowInv == /\ CoreInv /\ NoGap
             /\ \A p \in Processes : SessionInv(p)
             /\ \A s \in Servers : ServerInv(s)

OneServerInv == strayed = {} => WindowInv

(* The history's ends, and what a new ledger does to them.                 *)

LEMMA HistoryEnds ==
  ASSUME Types
  PROVE  /\ LatestLedger \in Nat /\ ElderLedger \in Nat /\ retention \in Nat
         /\ LatestLedger = 0 <=> rows["ledgers"] = {}
         /\ \A l \in rows["ledgers"] : /\ l \in Nat /\ l >= 1
                                       /\ ElderLedger <= l /\ l <= LatestLedger
         /\ LatestLedger # 0 => /\ LatestLedger \in rows["ledgers"]
                                /\ ElderLedger \in rows["ledgers"]
         /\ LatestLedger = 0 => ElderLedger = 0
BY LatestIsTop, Latest, Constants DEF IsTop, IsBottom

LEMMA NumbersAre ==
  ASSUME Types
  PROVE  coreElder \in Int /\ coreLatest \in Int /\ cursor \in Int
BY Constants DEF Types

LEMMA AddLedger ==
  ASSUME Types, rows' \in [Tables -> SUBSET Ledgers], NEW lg \in Ledgers,
         rows'["ledgers"] = rows["ledgers"] \cup {lg}
  PROVE  /\ LatestLedger' = IF lg > LatestLedger THEN lg ELSE LatestLedger
         /\ ElderLedger' \in Nat /\ ElderLedger' <= lg /\ LatestLedger' # 0
         /\ LatestLedger # 0 =>
              ElderLedger' = IF lg < ElderLedger THEN lg ELSE ElderLedger
<1>1. /\ IsTop(LatestLedger, rows["ledgers"])
      /\ IsBottom(ElderLedger, rows["ledgers"])
      /\ IsTop(LatestLedger', rows'["ledgers"])
      /\ IsBottom(ElderLedger', rows'["ledgers"])
      /\ rows["ledgers"] \in SUBSET Ledgers
  BY LatestIsTop, NextLatestIsTop
<1> QED BY <1>1, HistoryEnds, Constants DEF IsTop, IsBottom

LEMMA SameRows ==
  ASSUME rows' = rows
  PROVE  LatestLedger' = LatestLedger /\ ElderLedger' = ElderLedger
BY DEF LatestLedger, ElderLedger

LEMMA IncrementedIs ==
  ASSUME NEW c \in SessionCursor
  PROVE  /\ c.first \in Int /\ c.last \in Int /\ c.lg \in Int
         /\ c.lg = 0 => Incremented(c) = c.first
         /\ c.lg # 0 /\ c.first > c.last => Incremented(c) = c.lg - 1
         /\ c.lg # 0 /\ c.first <= c.last => Incremented(c) = c.lg + 1
         /\ c.first > c.last => (IsComplete(c) <=> Incremented(c) < c.last)
         /\ c.first <= c.last => (IsComplete(c) <=> Incremented(c) > c.last)
<1>1. c.first \in Int /\ c.last \in Int /\ c.lg \in Int
  BY Constants DEF SessionCursor
<1>2. IsReverse(c) <=> c.first > c.last
  BY DEF IsReverse
<1>3. /\ c.lg = 0 => Incremented(c) = c.first
      /\ c.lg # 0 /\ c.first > c.last => Incremented(c) = c.lg - 1
      /\ c.lg # 0 /\ c.first <= c.last => Incremented(c) = c.lg + 1
  BY <1>1, <1>2 DEF Incremented
<1> QED BY <1>1, <1>2, <1>3 DEF IsComplete

(* What a change of the history leaves true of everybody's ledgers.        *)
PositionsKept == \A l \in Int : /\ Joins(l) => Joins(l)'
                                /\ Covered(l) => Covered(l)'

LEMMA Later ==
  ASSUME NEW l \in Int, NEW m \in Nat, NEW n \in Nat, m <= n
  PROVE  /\ l <= m + 1 => l <= n + 1
         /\ l <= m => l <= n
OBVIOUS

LEMMA Lower ==
  ASSUME NEW l \in Int, NEW m \in Nat, NEW n \in Nat, n <= m
  PROVE  /\ m - 1 <= l => n - 1 <= l
         /\ m <= l => n <= l
OBVIOUS

LEMMA GrowthKeepsPositions ==
  ASSUME LatestLedger \in Nat, LatestLedger' \in Nat, LatestLedger <= LatestLedger',
         ElderLedger \in Nat, ElderLedger' \in Nat, LatestLedger # 0,
         LatestLedger' # 0,
         ElderLedger' <= ElderLedger \/ WindowFull',
         WindowFull => WindowFull'
  PROVE  PositionsKept
<1> SUFFICES ASSUME NEW l \in Int
             PROVE  /\ Joins(l) => Joins(l)'
                    /\ Covered(l) => Covered(l)'
  BY DEF PositionsKept
<1>1. /\ l <= LatestLedger + 1 => l <= LatestLedger' + 1
      /\ l <= LatestLedger => l <= LatestLedger'
  BY Later
<1>2. ElderLedger' <= ElderLedger =>
        /\ ElderLedger - 1 <= l => ElderLedger' - 1 <= l
        /\ ElderLedger <= l => ElderLedger' <= l
  BY Lower
<1> QED BY <1>1, <1>2 DEF Joins, Covered

LEMMA AddKeepsWindow ==
  ASSUME Types, NoGap, retention' = retention,
         rows' \in [Tables -> SUBSET Ledgers], NEW lg \in Ledgers,
         rows'["ledgers"] = rows["ledgers"] \cup {lg},
         LatestLedger # 0 => Joins(lg)
  PROVE  /\ NoGap' /\ PositionsKept /\ Covered(lg)'
         /\ LatestLedger' \in Nat /\ LatestLedger <= LatestLedger'
<1>1. lg \in Nat /\ lg >= 1
  BY Constants
<1>2. LatestLedger' \in Nat /\ LatestLedger <= LatestLedger' /\ lg <= LatestLedger'
  BY <1>1, AddLedger, HistoryEnds
<1>3. Covered(lg)'
  BY <1>2, AddLedger DEF Covered
<1>4. LatestLedger # 0 =>
        /\ ElderLedger' \in Nat /\ ElderLedger' <= ElderLedger
        /\ WindowFull => WindowFull'
  BY <1>1, <1>2, AddLedger, HistoryEnds DEF WindowFull
<1>5. PositionsKept
  <2>1. CASE LatestLedger = 0
    BY <2>1 DEF PositionsKept, Joins, Covered
  <2>2. CASE LatestLedger # 0
    BY <1>2, <1>4, <2>2, HistoryEnds, GrowthKeepsPositions
  <2> QED BY <2>1, <2>2
<1>6. NoGap'
  <2> SUFFICES ASSUME NEW l \in Ledgers, ElderLedger' <= l, l <= LatestLedger',
                      InWindow(l)', l # lg
               PROVE  l \in rows["ledgers"]
    BY DEF NoGap
  <2>1. l \in Nat /\ l >= 1
    BY Constants
  <2>2. CASE LatestLedger = 0
    <3>1. rows'["ledgers"] = {lg}
      BY <2>2, HistoryEnds
    <3>2. ElderLedger' = lg /\ LatestLedger' = lg
      BY <3>1, NextLatestIsTop DEF IsTop, IsBottom
    <3> QED BY <1>1, <2>1, <3>2
  <2>3. CASE LatestLedger # 0
    <3>1. l <= LatestLedger
      BY <1>1, <2>1, <2>3, AddLedger, HistoryEnds DEF Joins
    <3>2. InWindow(l)
      BY <1>2, <2>1, HistoryEnds DEF InWindow
    <3>3. ElderLedger <= l
      <4>1. CASE WindowFull
        BY <2>1, <3>2, <4>1, HistoryEnds DEF WindowFull, InWindow
      <4>2. CASE ElderLedger - 1 <= lg
        BY <1>1, <2>1, <2>3, <4>2, AddLedger, HistoryEnds
      <4> QED BY <2>3, <4>1, <4>2 DEF Joins
    <3> QED BY <3>1, <3>2, <3>3 DEF NoGap
  <2> QED BY <2>2, <2>3
<1> QED BY <1>2, <1>3, <1>5, <1>6

LEMMA DeleteKeepsWindow ==
  ASSUME Types, ControlInv, RowsInv, ReapInv, NoGap, Orderly,
         retention' = retention,
         NEW p \in Processes, reaper[p].at = "clear", Deletes(p)
  PROVE  NoGap' /\ PositionsKept /\ LatestLedger' = LatestLedger
<1>1. PICK n \in Int : n = reaper[p].target
  BY ReaperFields
<1>2. /\ rows' \in [Tables -> SUBSET Ledgers]
      /\ \/ rows'["ledgers"] = rows["ledgers"]
         \/ rows'["ledgers"] = {l \in rows["ledgers"] : l >= n}
  BY <1>1, ReapRows
<1>3. LatestLedger' = LatestLedger
  BY DeleteKeepsRows
<1>4. retention \in Nat /\ retention >= 1 /\ n <= LatestLedger - retention + 1
  BY <1>1, Latest DEF ControlInv, NoReapOfAll, ReapInv, Behind
<1>5. /\ IsBottom(ElderLedger, rows["ledgers"])
      /\ IsBottom(ElderLedger', rows'["ledgers"])
  BY <1>2, LatestIsTop, NextLatestIsTop
<1>6. ASSUME NEW l \in rows["ledgers"], InWindow(l) PROVE l \in rows'["ledgers"]
  <2>1. l >= n
    BY <1>4, <1>6, HistoryEnds DEF InWindow
  <2> QED BY <1>2, <2>1
<1>7. ElderLedger' \in Nat /\ ElderLedger <= ElderLedger'
  BY <1>2, <1>3, <1>5, NextLatestIsTop, HistoryEnds DEF IsBottom, IsTop
<1>8. ElderLedger' = ElderLedger \/ WindowFull'
  <2> SUFFICES ASSUME ElderLedger' # ElderLedger PROVE WindowFull'
    OBVIOUS
  <2>1. LatestLedger # 0
    BY <1>2, <1>5, HistoryEnds DEF IsBottom
  <2>2. ElderLedger < n
    <3> SUFFICES ASSUME n <= ElderLedger PROVE FALSE
      BY HistoryEnds
    <3>1. rows'["ledgers"] = rows["ledgers"]
      BY <1>2, HistoryEnds
    <3> QED BY <1>5, <2>1, <3>1, HistoryEnds DEF IsBottom
  <2>3. PICK w \in Nat : w = LatestLedger - retention + 1 /\ w >= 1
    BY <1>4, <2>2, HistoryEnds
  <2>4. w \in rows["ledgers"] /\ InWindow(w)
    <3>1. w \in Ledgers
      BY <1>4, <2>3, Latest, Constants
    <3>2. InWindow(w)
      BY <1>4, <2>3, HistoryEnds DEF InWindow
    <3> QED BY <1>4, <2>2, <2>3, <3>1, <3>2, HistoryEnds DEF NoGap
  <2>5. ElderLedger' <= w
    BY <1>5, <1>6, <2>4 DEF IsBottom
  <2> QED BY <1>3, <1>4, <2>3, <2>5 DEF WindowFull
<1>9. PositionsKept
  BY <1>3, <1>8 DEF PositionsKept, Joins, Covered, WindowFull
<1>10. NoGap'
  <2> SUFFICES ASSUME NEW l \in Ledgers, ElderLedger' <= l, l <= LatestLedger',
                      InWindow(l)'
               PROVE  l \in rows'["ledgers"]
    BY DEF NoGap
  <2>1. InWindow(l) /\ ElderLedger <= l /\ l <= LatestLedger
    BY <1>3, <1>7, HistoryEnds, Constants DEF InWindow
  <2> QED BY <1>6, <2>1 DEF NoGap
<1> QED BY <1>3, <1>9, <1>10


(* What everybody knows after a step of one of them.                       *)

Same(q) == job'[q] = job[q] /\ (q \in Clis => command'[q] = command[q])

OthersSame(p) == \A q \in Processes \ {p} : Same(q)

\* A step that takes nothing away from where q is, or may open.
Undisturbed(q) ==
  /\ Same(q) /\ PositionsKept
  /\ \/ LatestLedger' = LatestLedger /\ cursor' = cursor
     \/ /\ q \in Servers => LatestLedger # 0
        /\ q \in Clis => command[q] # "rebase"

LEMMA SessionKept ==
  ASSUME Types, NEW q \in Processes, SessionInv(q), Undisturbed(q)
  PROVE  SessionInv(q)'
<1>1. /\ job'[q] = job[q]
      /\ q \in Servers \/ q \in Clis
      /\ q \in Clis => command'[q] = command[q]
  BY Constants DEF Undisturbed, Same
<1>2. /\ job[q].cursor.first \in Int /\ job[q].cursor.lg \in Int
      /\ \A l \in job[q].todo : l \in Int
  BY JobFields, Constants
<1>3. \A l \in Int : /\ Joins(l) => Joins(l)'
                     /\ Covered(l) => Covered(l)'
                     /\ Opens(q, l) => Opens(q, l)'
  BY <1>1, Constants DEF Undisturbed, PositionsKept, Opens
<1>4. ASSUME q \in Clis, command[q] = "rebase" PROVE cursor' = cursor
  BY <1>4 DEF Undisturbed
<1>5. CASE q \in Servers
  BY <1>1, <1>2, <1>3, <1>5, Constants DEF SessionInv
<1>6. CASE q \in Clis
  BY <1>1, <1>2, <1>3, <1>4, <1>6, Constants DEF SessionInv
<1> QED BY <1>1, <1>5, <1>6

\* A session that is at no ledger.
LEMMA SessionAway ==
  ASSUME NEW q \in Processes, job'[q].at \notin {"next", "flush"},
         q \in Clis => command'[q] \notin {"outdated", "rebase"}
  PROVE  SessionInv(q)'
BY DEF SessionInv

LEMMA ServerKept ==
  ASSUME Types, NEW s \in Servers, ServerInv(s), job'[s] = job[s],
         cursor' = cursor, coreLatest' \in Int, coreLatest <= coreLatest',
         LatestLedger' \in Nat, LatestLedger <= LatestLedger'
  PROVE  ServerInv(s)'
<1>1. PICK last \in Int : last = job[s].cursor.last
  BY JobFields, Constants
<1>2. last <= coreLatest => last <= coreLatest'
  BY NumbersAre
<1>3. LatestLedger # 0 /\ last <= LatestLedger
        => LatestLedger' # 0 /\ last <= LatestLedger'
  BY HistoryEnds, Later
<1> QED BY <1>1, <1>2, <1>3 DEF ServerInv

LEMMA ServerIdle ==
  ASSUME NEW s \in Servers, job'[s].at = "idle"
  PROVE  ServerInv(s)'
BY DEF ServerInv

LEMMA SessionEnds ==
  ASSUME Types, NEW p \in Processes, Ends(p)
  PROVE  /\ SessionInv(p)'
         /\ p \in Servers => ServerInv(p)'
         /\ OthersSame(p)
<1>1. job'[p].at = "idle" /\ OnlyJob(p)
  BY IdleIs DEF Ends, SetsJob
<1>2. \A c \in Clis : command'[c] = IF c = p THEN "none" ELSE command[c]
  BY CommandTypeKept DEF Ends
<1>3. SessionInv(p)'
  BY <1>1, <1>2, SessionAway
<1>4. p \in Servers => ServerInv(p)'
  BY <1>1, ServerIdle
<1> QED BY <1>1, <1>2, <1>3, <1>4 DEF OthersSame, Same, OnlyJob

LEMMA SessionMoves ==
  ASSUME NEW p \in Processes, OnlyJob(p), command' = command
  PROVE  OthersSame(p)
BY DEF OthersSame, Same, OnlyJob

(* A step keeps the invariant when those it disturbs keep theirs.          *)
LEMMA HistoryStep ==
  ASSUME Types, WindowInv, CoreInv', NoGap',
         \A q \in Processes : SessionInv(q)' \/ Undisturbed(q),
         \A s \in Servers :
           \/ ServerInv(s)'
           \/ /\ job'[s] = job[s] /\ cursor' = cursor
              /\ coreLatest' \in Int /\ coreLatest <= coreLatest'
              /\ LatestLedger' \in Nat /\ LatestLedger <= LatestLedger'
  PROVE  WindowInv'
<1>1. \A q \in Processes : SessionInv(q)'
  BY SessionKept DEF WindowInv
<1>2. \A s \in Servers : ServerInv(s)'
  BY ServerKept DEF WindowInv
<1> QED BY <1>1, <1>2 DEF WindowInv

\* One that leaves the history as it is.
LEMMA QuietStep ==
  ASSUME Types, WindowInv, CoreInv', UNCHANGED <<rows, retention, cursor>>,
         coreLatest' \in Int, coreLatest <= coreLatest',
         \A q \in Processes : SessionInv(q)' \/ Same(q),
         \A s \in Servers : ServerInv(s)' \/ job'[s] = job[s]
  PROVE  WindowInv'
<1>1. LatestLedger' = LatestLedger /\ ElderLedger' = ElderLedger
  BY SameRows
<1>2. PositionsKept
  BY <1>1 DEF PositionsKept, Joins, Covered, WindowFull
<1>3. NoGap'
  BY <1>1 DEF WindowInv, NoGap, InWindow
<1>4. LatestLedger' \in Nat /\ LatestLedger <= LatestLedger'
  BY <1>1, HistoryEnds
<1> QED BY <1>1, <1>2, <1>3, <1>4, HistoryStep DEF Undisturbed

LEMMA CoreKept ==
  ASSUME CoreInv, LatestLedger' = LatestLedger,
         UNCHANGED <<coreElder, coreLatest, cursor>>
  PROVE  CoreInv'
BY DEF CoreInv

\* One of a single session, which is told what that session does.
LEMMA OneMoves ==
  ASSUME Types, WindowInv, NEW p \in Processes, OthersSame(p),
         UNCHANGED <<coreElder, coreLatest, cursor, rows, retention>>,
         SessionInv(p)', p \in Servers => ServerInv(p)'
  PROVE  WindowInv'
<1>1. CoreInv'
  BY SameRows, CoreKept DEF WindowInv
<1>2. coreLatest' \in Int /\ coreLatest <= coreLatest'
  BY NumbersAre
<1>3. \A s \in Servers : ServerInv(s)' \/ job'[s] = job[s]
  BY Constants DEF OthersSame, Same
<1> QED BY <1>1, <1>2, <1>3, QuietStep DEF OthersSame

(* The history's own ledgers join it, and the one after it.                *)
LEMMA LedgersJoin ==
  ASSUME Types
  PROVE  /\ \A l \in rows["ledgers"] : Joins(l) /\ Joins(l - 1) /\ Joins(l + 1)
         /\ LatestLedger # 0 => Joins(LatestLedger + 1) /\ Joins(ElderLedger - 1)
<1>1. PICK a \in Nat, b \in Nat : a = ElderLedger /\ b = LatestLedger
  BY HistoryEnds
<1>2. ASSUME NEW l \in rows["ledgers"]
      PROVE  /\ l \in Nat /\ a <= l /\ l <= b /\ LatestLedger # 0
  BY <1>1, <1>2, HistoryEnds
<1>3. ASSUME NEW l \in rows["ledgers"]
      PROVE  /\ a - 1 <= l /\ a - 1 <= l - 1 /\ a - 1 <= l + 1
             /\ l <= b + 1 /\ l - 1 <= b + 1 /\ l + 1 <= b + 1
  BY <1>2
<1>4. b # 0 => a - 1 <= b + 1 /\ b + 1 <= b + 1
  BY <1>1, <1>2, HistoryEnds
<1> QED BY <1>1, <1>2, <1>3, <1>4 DEF Joins

(* The sessions' steps that write nothing.                                 *)

LEMMA QuietIngestKeepsWindow ==
  ASSUME Types, WindowInv, NEW p \in Processes,
         \/ Tick(p) \/ DecideRange(p)
         \/ NextLedger(p) \/ FinishRange(p)
  PROVE  WindowInv'
<1> DEFINE c == job[p].cursor
<1>1. /\ UNCHANGED <<coreElder, coreLatest, cursor, rows, retention>>
      /\ LatestLedger' = LatestLedger /\ ElderLedger' = ElderLedger
  BY SameRows DEF Tick, DecideRange, NextLedger, FinishRange, coreVars, historyVars
<1>2. /\ c \in SessionCursor /\ c.first \in Int /\ c.last \in Int /\ c.lg \in Int
      /\ job[p].todo \in SUBSET Ledgers
  BY JobFields
<1>3. /\ SessionInv(p)
      /\ p \in Servers => ServerInv(p)
      /\ CoreInv
  BY DEF WindowInv
<1>4. \A l \in Int : /\ Joins(l)' <=> Joins(l)
                     /\ Covered(l)' <=> Covered(l)
                     /\ command' = command => (Opens(p, l)' <=> Opens(p, l))
  BY <1>1 DEF Joins, Covered, Opens, WindowFull
<1>5. CASE Ends(p)
  BY <1>1, <1>5, SessionEnds, OneMoves
<1>6. CASE Tick(p)
  <2>1. /\ p \in Servers
        /\ OnlyJob(p) /\ job'[p].at = "history" /\ job'[p].cursor.last = coreLatest
    BY <1>6, TickDoes DEF SetsJob, Types
  <2>2. command' = command
    BY <1>6 DEF Tick
  <2>3. SessionInv(p)'
    BY <2>1, Constants, SessionAway
  <2>4. ServerInv(p)'
    BY <1>1, <1>3, <2>1, NumbersAre DEF ServerInv, CoreInv
  <2> QED BY <1>1, <2>1, <2>2, <2>3, <2>4, SessionMoves, OneMoves
<1>7. CASE DecideRange(p)
  <2>1. p \in Servers /\ job[p].at = "history"
    BY <1>7, DecideRangeDoes DEF Types
  <2>2. command' = command
    BY <1>7 DEF DecideRange
  <2>3. cursor <= c.last /\ c.last <= coreLatest
    BY <1>3, <2>1 DEF ServerInv
  <2>4. CASE SetsJob(p, Idle)
    <3>1. OnlyJob(p) /\ job'[p].at = "idle"
      BY <2>4, IdleIs DEF SetsJob
    <3>2. SessionInv(p)' /\ ServerInv(p)'
      BY <2>1, <3>1, Constants, SessionAway, ServerIdle
    <3> QED BY <1>1, <2>2, <3>1, <3>2, SessionMoves, OneMoves
  <2>5. CASE ~SetsJob(p, Idle)
    <3>1. /\ OnlyJob(p) /\ job'[p].at = "next" /\ job'[p].cursor.lg = 0
          /\ job'[p].cursor.last = c.last
          /\ job'[p].cursor.first = IF LatestLedger = 0 THEN c.last
                                                        ELSE LatestLedger + 1
      BY <1>7, <2>5, DecideRangeDoes DEF SetsJob
    <3>2. PICK first \in Int : first = job'[p].cursor.first
      BY <1>2, <3>1, HistoryEnds
    <3>3. Opens(p, first) \/ Joins(first)
      <4>1. LatestLedger = 0 => Opens(p, first)
        BY <2>1, <2>3, <3>1, <3>2 DEF Opens
      <4>2. LatestLedger # 0 => Joins(first)
        BY <3>1, <3>2, LedgersJoin
      <4> QED BY <4>1, <4>2
    <3>4. Opens(p, first)' \/ Joins(first)'
      BY <1>4, <2>2, <3>3
    <3>5. SessionInv(p)'
      BY <2>1, <3>1, <3>2, <3>4, Constants DEF SessionInv
    <3>6. first > c.last => LatestLedger # 0 /\ c.last <= LatestLedger
      BY <1>2, <3>1, <3>2, HistoryEnds
    <3>7. ServerInv(p)'
      BY <1>1, <2>3, <3>1, <3>2, <3>6 DEF ServerInv
    <3> QED BY <1>1, <2>2, <3>1, <3>5, <3>7, SessionMoves, OneMoves
  <2> QED BY <2>4, <2>5
<1>8. CASE NextLedger(p) /\ ~Ends(p)
  <2>1. /\ job[p].at = "next" /\ MovesTo(p, "flush")
        /\ job'[p].cursor.lg = Incremented(c)
        /\ job'[p].cursor.lg \in CoreLedgers
    BY <1>8, NextLedgerDoes
  <2>2. /\ OnlyJob(p) /\ command' = command /\ job'[p].at = "flush"
        /\ job'[p].cursor.first = c.first /\ job'[p].cursor.last = c.last
        /\ job'[p].todo = job[p].todo
    BY <2>1 DEF MovesTo, KeepsRange
  <2>3. PICK n \in Int : n = job'[p].cursor.lg /\ n = Incremented(c) /\ n >= 1
    BY <2>1, Constants DEF CoreLedgers, Types
  <2>4. ASSUME p \in Servers \/ command[p] # "reingest"
        PROVE  Opens(p, n) \/ Joins(n)
    <3>1. /\ c.lg = 0 => c.first < 1 \/ Opens(p, c.first) \/ Joins(c.first)
          /\ c.lg # 0 => Covered(c.lg)
      BY <1>3, <2>1, <2>4 DEF SessionInv
    <3> HIDE DEF c
    <3>2. CASE c.lg = 0
      <4>1. n = c.first
        BY <1>2, <2>3, <3>2, IncrementedIs
      <4> QED BY <1>2, <2>3, <3>1, <3>2, <4>1
    <3>3. CASE c.lg # 0
      <4>1. PICK lg \in Int : lg = c.lg
        BY <1>2
      <4>2. n = lg - 1 \/ n = lg + 1
        BY <1>2, <2>3, <3>3, <4>1, IncrementedIs
      <4>3. PICK a \in Nat, b \in Nat : a = ElderLedger /\ b = LatestLedger
        BY HistoryEnds
      <4>4. /\ b # 0 /\ lg <= b
            /\ a <= lg \/ WindowFull
        BY <3>1, <3>3, <4>1, <4>3 DEF Covered
      <4>5. n <= b + 1
        BY <4>2, <4>4
      <4>6. a <= lg => a - 1 <= n
        BY <4>2
      <4> QED BY <4>3, <4>4, <4>5, <4>6 DEF Joins
    <3> QED BY <3>2, <3>3
  <2>5. p \in Servers \/ command[p] # "reingest" => Opens(p, n)' \/ Joins(n)'
    BY <1>4, <2>2, <2>4
  <2>6. p \in Clis /\ command[p] = "outdated" => \A l \in job[p].todo : Joins(l)'
    BY <1>2, <1>3, <1>4, Constants DEF SessionInv
  <2>7. SessionInv(p)'
    BY <2>2, <2>3, <2>5, <2>6, Constants DEF SessionInv
  <2>8. p \in Servers => ServerInv(p)'
    BY <1>1, <1>3, <2>1, <2>2 DEF ServerInv
  <2> QED BY <1>1, <2>2, <2>7, <2>8, SessionMoves, OneMoves
<1>9. CASE FinishRange(p) /\ ~Ends(p)
  <2>1. PICK place \in {"report", "outdated"} :
          /\ job[p].at = "next" /\ IsComplete(c) /\ MovesTo(p, place)
          /\ IF place = "report" THEN p \in Servers
             ELSE p \in Clis /\ command[p] = "outdated"
    BY <1>9, FinishRangeDoes, Constants
  <2>2. /\ OnlyJob(p) /\ command' = command /\ job'[p].at = place
        /\ job'[p].cursor.last = c.last
        /\ job'[p].todo = job[p].todo
    BY <2>1 DEF MovesTo, KeepsRange
  <2>3. CASE place = "report"
    <3>1. p \in Servers /\ p \notin Clis
      BY <2>1, <2>3, Constants
    <3>2. /\ cursor <= c.last /\ c.last <= coreLatest
          /\ c.first > c.last => LatestLedger # 0 /\ c.last <= LatestLedger
          /\ c.lg # 0 => Covered(c.lg)
      BY <1>3, <2>1, <3>1 DEF ServerInv, SessionInv
    <3> HIDE DEF c
    <3>3. LatestLedger # 0 /\ c.last <= LatestLedger
      <4>1. CASE c.first > c.last
        BY <3>2, <4>1
      <4>2. CASE c.first <= c.last
        <5>1. c.lg # 0 /\ c.lg + 1 > c.last
          BY <1>2, <2>1, <4>2, IncrementedIs
        <5> QED BY <1>2, <3>2, <5>1, HistoryEnds DEF Covered
      <4> QED BY <1>2, <4>1, <4>2
    <3>4. ServerInv(p)'
      BY <1>1, <2>2, <2>3, <3>2, <3>3 DEF ServerInv
    <3>5. SessionInv(p)'
      BY <2>2, <2>3, <3>1, SessionAway
    <3> QED BY <1>1, <2>2, <3>4, <3>5, SessionMoves, OneMoves
  <2>4. CASE place = "outdated"
    <3>1. p \in Clis /\ p \notin Servers /\ command[p] = "outdated"
      BY <2>1, <2>4, Constants
    <3>2. \A l \in job[p].todo : Joins(l)'
      BY <1>2, <1>3, <1>4, <3>1, Constants DEF SessionInv
    <3>3. SessionInv(p)'
      BY <2>2, <2>4, <3>1, <3>2 DEF SessionInv
    <3> QED BY <1>1, <2>2, <3>1, <3>3, SessionMoves, OneMoves
  <2> QED BY <2>3, <2>4
<1> QED BY <1>5, <1>6, <1>7, <1>8, <1>9

(* The two that do: a flush, and what core is told.                        *)

\* Nothing is rebased or cleared beside a process at work.
LEMMA NobodyClears ==
  ASSUME Types, ControlInv, Orderly, NEW p \in Processes, p \notin Servers \/ p \in up,
         job[p].at # "idle",
         NEW c \in Clis, c # p
  PROVE  command[c] \notin {"clear", "rebase"}
<1> SUFFICES ASSUME command[c] \in {"clear", "rebase"} PROVE FALSE
  OBVIOUS
<1>1. job[p].at = "idle"
  BY ClearingAlone
<1> QED BY <1>1

LEMMA FlushKeepsWindow ==
  ASSUME Types, ControlInv, OneServer, WindowInv, strayed = {}, strayed' = {},
         NEW p \in Processes, FlushLedger(p)
  PROVE  WindowInv'
<1> DEFINE c == job[p].cursor
<1>1. UNCHANGED <<coreElder, coreLatest, cursor, retention>>
  BY DEF FlushLedger, coreVars
<1>2. /\ SessionInv(p)
      /\ p \in Servers => ServerInv(p)
      /\ CoreInv /\ NoGap
  BY DEF WindowInv
<1>3. Orderly
  BY DEF Orderly
<1>4. CASE Ends(p) /\ rows' = rows
  BY <1>1, <1>4, SessionEnds, OneMoves
<1>5. CASE Adds(p) /\ MovesTo(p, "next") /\ job'[p].cursor.lg = c.lg
  <2>1. job[p].at = "flush"
    BY FlushLedgerDoes
  <2>2. PICK lg \in Ledgers :
          /\ lg = c.lg /\ lg <= coreLatest
          /\ rows' \in [Tables -> SUBSET Ledgers]
          /\ rows'["ledgers"] = rows["ledgers"] \cup {lg}
    BY <1>5, <2>1, FlushRows
  <2>3. lg \in Nat /\ lg >= 1
    BY Constants
  <2>4. /\ OnlyJob(p) /\ command' = command
        /\ job'[p].at = "next" /\ job'[p].cursor.lg = lg
        /\ job'[p].cursor.first = c.first /\ job'[p].cursor.last = c.last
        /\ job'[p].todo = job[p].todo
    BY <1>5, <2>2 DEF MovesTo, KeepsRange
  <2>5. OthersSame(p)
    BY <2>4, SessionMoves
  <2>6. Opens(p, lg) \/ Joins(lg)
    <3>1. CASE p \in Clis /\ command[p] = "reingest"
      <4>1. ~IsApart(p, lg)
        <5>1. ~Ends(p)
          BY <2>4, IdleIs DEF Ends, SetsJob
        <5>2. \/ strayed' = IF IsApart(p, lg) THEN strayed \cup {"apart"} ELSE strayed
              \/ EndJob(p)
          BY <2>2 DEF FlushLedger
        <5> QED BY <5>1, <5>2, EndJobDoes
      <4>2. PICK l \in rows["ledgers"] : lg \in {l, l - 1, l + 1}
        <5>1. \E l \in rows["ledgers"] : l \in {lg - 1, lg, lg + 1}
          BY <3>1, <4>1 DEF IsApart
        <5>2. PICK l \in rows["ledgers"] : l \in {lg - 1, lg, lg + 1}
          BY <5>1
        <5>3. l \in Nat
          BY HistoryEnds
        <5> QED BY <2>3, <5>2, <5>3
      <4> QED BY <4>2, LedgersJoin
    <3>2. CASE ~(p \in Clis /\ command[p] = "reingest")
      BY <1>2, <2>1, <2>2, <3>2, Constants DEF SessionInv
    <3> QED BY <3>1, <3>2
  <2>7. /\ NoGap' /\ PositionsKept /\ Covered(lg)'
        /\ LatestLedger' \in Nat /\ LatestLedger <= LatestLedger'
    <3>1. LatestLedger # 0 => Joins(lg)
      BY <2>6 DEF Opens
    <3> QED BY <1>1, <1>2, <2>2, <3>1, AddKeepsWindow
  <2>8. CoreInv'
    <3>1. PICK b \in Nat, n \in Nat : b = LatestLedger /\ n = LatestLedger'
      BY <2>7, HistoryEnds
    <3>2. /\ n = IF lg > b THEN lg ELSE b
          /\ n # 0
      BY <2>2, <3>1, AddLedger
    <3>3. b = 0 => cursor <= lg
      BY <2>6, <3>1 DEF Opens, Joins
    <3>4. n <= coreLatest /\ cursor <= n
      BY <1>2, <2>2, <2>3, <3>1, <3>2, <3>3, NumbersAre DEF CoreInv
    <3> QED BY <1>1, <1>2, <3>1, <3>4 DEF CoreInv
  <2>9. SessionInv(p)'
    <3>1. p \in Clis /\ command[p] = "outdated" => \A l \in job[p].todo : Joins(l)'
      BY <1>2, <2>7, JobFields, Constants DEF SessionInv, PositionsKept
    <3> QED BY <2>3, <2>4, <2>7, <3>1 DEF SessionInv
  <2>10. ASSUME p \in Servers PROVE ServerInv(p)'
    <3>1. PICK last \in Int, first \in Int : last = c.last /\ first = c.first
      BY JobFields
    <3>2. /\ cursor <= last /\ last <= coreLatest
          /\ first > last => LatestLedger # 0 /\ last <= LatestLedger
      BY <1>2, <2>1, <2>10, <3>1 DEF ServerInv
    <3>3. first > last => LatestLedger' # 0 /\ last <= LatestLedger'
      BY <2>7, <3>1, <3>2, HistoryEnds, Later
    <3> QED BY <1>1, <2>4, <3>1, <3>2, <3>3 DEF ServerInv
  <2>11. ASSUME NEW q \in Processes, q # p
         PROVE  SessionInv(q)' \/ Undisturbed(q)
    <3>1. Same(q)
      BY <2>5, <2>11 DEF OthersSame
    <3>2. q \in Clis => command[q] # "rebase"
      BY <1>3, <2>1, <2>11, AtWork, NobodyClears
    <3>3. CASE q \in Servers => LatestLedger # 0
      BY <2>7, <3>1, <3>2, <3>3 DEF Undisturbed
    <3>4. CASE q \in Servers /\ LatestLedger = 0
      <4>1. p \in Clis /\ command[p] = "rebase"
        <5>1. p \notin Servers
          BY <2>11, <3>4 DEF OneServer
        <5> QED BY <2>6, <3>4, <5>1, Constants DEF Opens, Joins
      <4>2. job[q].at = "idle"
        BY <1>3, <2>11, <4>1, ClearingAlone
      <4>3. job'[q].at = "idle" /\ q \notin Clis
        BY <3>1, <3>4, <4>2, Constants DEF Same
      <4> QED BY <4>3, SessionAway
    <3> QED BY <3>3, <3>4
  <2>12. \A s \in Servers : s # p => job'[s] = job[s]
    BY <2>5, Constants DEF OthersSame, Same
  <2>13. coreLatest' \in Int /\ coreLatest <= coreLatest'
    BY <1>1, NumbersAre
  <2> QED BY <1>1, <2>7, <2>8, <2>9, <2>10, <2>11, <2>12, <2>13, HistoryStep
<1> QED BY <1>4, <1>5, FlushLedgerDoes

LEMMA ReportKeepsWindow ==
  ASSUME Types, ControlInv, OneServer, WindowInv, strayed = {},
         NEW s \in Processes, ReportCursor(s)
  PROVE  WindowInv'
<1>1. /\ UNCHANGED <<coreElder, coreLatest, rows, retention>>
      /\ LatestLedger' = LatestLedger /\ ElderLedger' = ElderLedger
  BY SameRows DEF ReportCursor, historyVars
<1>2. PICK last \in Int : last = job[s].cursor.last
  BY JobFields
<1>3. /\ s \in Servers /\ job[s].at = "report" /\ Ends(s)
      /\ cursor' \in {cursor, last}
  BY <1>2, ReportCursorDoes DEF Types
<1>4. /\ CoreInv /\ NoGap
      /\ cursor <= last /\ last <= coreLatest
      /\ LatestLedger # 0 /\ last <= LatestLedger
  BY <1>2, <1>3 DEF WindowInv, ServerInv
<1>5. CoreInv'
  BY <1>1, <1>3, <1>4, NumbersAre DEF CoreInv
<1>6. NoGap' /\ PositionsKept
  BY <1>1, <1>4 DEF NoGap, InWindow, PositionsKept, Joins, Covered, WindowFull
<1>7. SessionInv(s)' /\ ServerInv(s)' /\ OthersSame(s)
  BY <1>3, SessionEnds
<1>8. ASSUME NEW q \in Processes, q # s PROVE Undisturbed(q)
  <2>1. q \in Clis => command[q] # "rebase"
    BY <1>3, <1>8, AtWork, NobodyClears DEF Orderly
  <2> QED BY <1>4, <1>6, <1>7, <1>8, <2>1 DEF Undisturbed, OthersSame
<1>9. \A t \in Servers : ServerInv(t)'
  BY <1>3, <1>7 DEF OneServer
<1> QED BY <1>5, <1>6, <1>7, <1>8, <1>9, HistoryStep

(* The commands.                                                           *)

LEMMA CommandKeepsWindow ==
  ASSUME Types, ControlInv, WindowInv, strayed = {}, NEW c \in Clis, CommandStep(c)
  PROVE  WindowInv'
<1>0. c \in Processes /\ c \notin Servers
  BY Constants
<1>1. /\ SessionInv(c) /\ CoreInv /\ NoGap /\ CommandControl(c) /\ Orderly
      /\ job[c].cursor.first \in Int /\ job[c].todo \in SUBSET Ledgers
  BY <1>0, JobFields DEF WindowInv, ControlInv, Orderly
<1>2. UNCHANGED <<coreElder, coreLatest, cursor, retention>>
  BY DEF CommandStep, NextOutdated, RebaseElder, ClearAll, coreVars
<1>3. CASE Ends(c) /\ rows' = rows
  BY <1>0, <1>2, <1>3, SessionEnds, OneMoves
<1>4. CASE NextOutdated(c) /\ ~Ends(c)
  <2>1. PICK j \in Session :
          /\ SetsJob(c, j) /\ command' = command
          /\ j.at = "next" /\ j.cursor.lg = 0
          /\ \E batch \in {job[c].todo, outdated} :
               /\ j.cursor.first \in batch
               /\ j.todo \subseteq batch
    BY <1>4, NextOutdatedDoes
  <2>2. command[c] = "outdated"
    BY <1>1, <1>4, NextOutdatedDoes DEF CommandControl
  <2>3. rows' = rows
    BY <1>4 DEF NextOutdated, historyVars
  <2>4. \A l \in job[c].todo \cup outdated : l \in Int /\ Joins(l)
    <3>1. \A l \in job[c].todo : l \in Int /\ Joins(l)
      BY <1>0, <1>1, <2>2, Constants DEF SessionInv
    <3>2. \A l \in outdated : l \in Int /\ Joins(l)
      BY LedgersJoin, HistoryEnds DEF Types
    <3> QED BY <3>1, <3>2
  <2>5. \A l \in j.todo \cup {j.cursor.first} : Joins(l)'
    <3>1. \A l \in j.todo \cup {j.cursor.first} : l \in Int /\ Joins(l)
      BY <2>1, <2>4
    <3>2. \A l \in Int : Joins(l) => Joins(l)'
      BY <1>2, <2>3, SameRows DEF Joins, WindowFull
    <3> QED BY <3>1, <3>2
  <2>6. job'[c] = j /\ OthersSame(c)
    BY <1>0, <2>1, SessionMoves DEF SetsJob
  <2>7. SessionInv(c)'
    BY <1>0, <2>1, <2>2, <2>5, <2>6 DEF SessionInv
  <2> QED BY <1>0, <1>2, <2>3, <2>6, <2>7, OneMoves
<1>5. CASE RebaseElder(c)
  <2>1. /\ job[c].at = "coreElder" /\ OnlyJob(c) /\ job'[c].at = "clear"
        /\ command' = command
        /\ job'[c].cursor.first = job[c].cursor.first
        /\ job'[c].cursor.lg = job[c].cursor.lg
    BY <1>5, RebaseElderDoes
  <2>2. command[c] = "rebase" /\ rows' = rows
    BY <1>1, <1>5, <2>1 DEF CommandControl, RebaseElder, historyVars
  <2>3. SessionInv(c)'
    BY <1>0, <1>1, <1>2, <2>1, <2>2 DEF SessionInv
  <2> QED BY <1>0, <1>2, <2>1, <2>2, <2>3, SessionMoves, OneMoves
<1>6. CASE ClearAll(c) /\ ~(Ends(c) /\ rows' = rows)
  <2>1. /\ job[c].at = "clear" /\ rows' = HistoryOf({})
        /\ \/ Ends(c)
           \/ \E j \in Session :
                /\ command[c] = "rebase" /\ command' = command
                /\ SetsJob(c, j) /\ j.at = "next"
                /\ j.cursor = job[c].cursor
    BY <1>6, ClearAllDoes
  <2>2. LatestLedger' = 0
    BY <2>1, ClearedRows DEF LatestLedger
  <2>3. CoreInv'
    BY <1>1, <1>2, <2>2, NumbersAre, Constants DEF CoreInv, Types
  <2>4. NoGap'
    <3>1. \A l \in Ledgers : ~(l <= LatestLedger')
      BY <2>2, Constants
    <3> QED BY <3>1 DEF NoGap
  <2>5. command[c] \in {"clear", "rebase"}
    BY <1>1, <2>1 DEF CommandControl
  <2>6. OthersSame(c) /\ SessionInv(c)'
    <3>1. CASE Ends(c)
      BY <1>0, <3>1, SessionEnds
    <3>2. CASE ~Ends(c)
      <4>1. PICK j \in Session :
              /\ command[c] = "rebase" /\ command' = command
              /\ SetsJob(c, j) /\ j.at = "next"
              /\ j.cursor = job[c].cursor
        BY <2>1, <3>2
      <4>2. OnlyJob(c) /\ job'[c] = j
        BY <4>1 DEF SetsJob
      <4>3. cursor <= j.cursor.first /\ j.cursor.lg = 0
        BY <1>0, <1>1, <2>1, <4>1 DEF SessionInv
      <4>4. Opens(c, j.cursor.first)'
        BY <1>2, <2>2, <4>1, <4>3 DEF Opens
      <4>5. SessionInv(c)'
        BY <1>0, <4>1, <4>2, <4>3, <4>4 DEF SessionInv
      <4> QED BY <1>0, <4>1, <4>2, <4>5, SessionMoves
    <3> QED BY <3>1, <3>2
  <2>7. ASSUME NEW q \in Processes, q # c
        PROVE  /\ job'[q].at = "idle" /\ SessionInv(q)'
    <3>1. /\ job[q].at = "idle"
          /\ q \in Clis => command[q] = "none"
      BY <1>1, <2>5, <2>7, ClearingAlone
    <3>2. /\ job'[q].at = "idle"
          /\ q \in Clis => command'[q] = "none"
      BY <2>6, <2>7, <3>1 DEF OthersSame, Same
    <3> QED BY <3>2, SessionAway
  <2>8. \A s \in Servers : ServerInv(s)'
    BY <1>0, <2>7, Constants, ServerIdle
  <2> QED BY <2>3, <2>4, <2>6, <2>7, <2>8, HistoryStep
<1>7. NextOutdated(c) => rows' = rows
  BY DEF NextOutdated, historyVars
<1> QED BY <1>3, <1>4, <1>5, <1>6, <1>7 DEF CommandStep

LEMMA StartKeepsWindow ==
  ASSUME Types, WindowInv, NEW c \in Clis, StartSomeCommand(c)
  PROVE  WindowInv'
<1>0. c \in Processes /\ c \notin Servers
  BY Constants
<1>1. UNCHANGED <<coreElder, coreLatest, cursor, rows, retention>>
  BY DEF StartSomeCommand, StartBackfill, StartReingest, StartReingestOutdated,
         StartRebase, StartClear, StartReap, StartCommand, coreVars, historyVars
<1>2. PICK k \in CommandKinds, j \in Session : Starts(c, k, j)
  BY StartSomeCommandDoes
<1>3. /\ OnlyJob(c) /\ job'[c] = j /\ Begins(k, j)
      /\ command' = [command EXCEPT ![c] = k]
  BY <1>2 DEF Starts, SetsJob
<1>4. /\ command'[c] = k
      /\ \A d \in Clis : d # c => command'[d] = command[d]
  BY <1>3 DEF Types
<1>5. OthersSame(c)
  BY <1>3, <1>4 DEF OthersSame, Same, OnlyJob
<1>6. SessionInv(c)'
  <2>1. CASE k = "backfill"
    <3>1. PICK first \in Int : first = ElderLedger - 1
      BY HistoryEnds
    <3>2. j.at = "next" /\ j.cursor.lg = 0 /\ j.cursor.first = first
      BY <1>3, <2>1, <3>1 DEF Begins
    <3>3. first < 1 \/ Joins(first)
      BY <3>1, HistoryEnds, LedgersJoin
    <3>4. first < 1 \/ Joins(first)'
      BY <1>1, <3>3, SameRows DEF Joins, WindowFull
    <3> QED BY <1>0, <1>3, <1>4, <2>1, <3>2, <3>4 DEF SessionInv
  <2>2. CASE k = "reingest"
    BY <1>0, <1>4, <2>2 DEF SessionInv
  <2>3. CASE k = "outdated"
    BY <1>0, <1>3, <1>4, <2>3 DEF SessionInv, Begins
  <2>4. CASE k = "rebase"
    <3>1. cursor <= coreLatest
      BY DEF WindowInv, CoreInv
    <3> QED BY <1>0, <1>1, <1>3, <1>4, <2>4, <3>1 DEF SessionInv, Begins
  <2>5. CASE k \in {"clear", "reap"}
    <3>1. job'[c].at \in {"clear", "idle"}
      BY <1>3, <2>5, IdleIs DEF Begins
    <3> QED BY <1>0, <1>4, <2>5, <3>1, SessionAway
  <2> QED BY <2>1, <2>2, <2>3, <2>4, <2>5 DEF CommandKinds
<1> QED BY <1>0, <1>1, <1>5, <1>6, OneMoves

(* The reaper, and the rest.                                               *)

LEMMA ReapKeepsWindow ==
  ASSUME Types, ControlInv, RowsInv, ReapInv, WindowInv, strayed = {},
         NEW p \in Processes, Reap(p)
  PROVE  WindowInv'
<1>1. UNCHANGED <<coreElder, coreLatest, cursor, retention, job>>
  BY DEF Reap, DeleteUnretainedHistory, ClearBefore, coreVars
<1>2. /\ reaper[p].at \in {"tick", "clear"}
      /\ \/ rows' = rows
         \/ reaper[p].at = "clear" /\ Deletes(p)
      /\ command' = command \/ ExitCommand(p)
  BY DeleteUnretainedHistoryDoes, ClearBeforeDoes
     DEF Reap, DeleteUnretainedHistory, historyVars
<1>3. ASSUME NEW q \in Processes PROVE SessionInv(q)' \/ Same(q)
  <2>1. CASE q \in Clis => command'[q] = command[q]
    BY <1>1, <2>1 DEF Same
  <2>2. CASE q \in Clis /\ command'[q] # command[q]
    <3>1. q = p /\ command'[q] = "none"
      BY <1>2, <2>2, CommandTypeKept
    <3>2. command[q] = "reap" /\ job[q].at \notin {"next", "flush"}
      BY <1>2, <2>2, <3>1 DEF ControlInv, CommandControl
    <3> QED BY <1>1, <3>1, <3>2, SessionAway
  <2> QED BY <2>1, <2>2
<1>4. CASE rows' = rows
  <2>1. CoreInv'
    BY <1>1, <1>4, SameRows, CoreKept DEF WindowInv
  <2> QED BY <1>1, <1>3, <1>4, <2>1, NumbersAre, QuietStep
<1>5. CASE reaper[p].at = "clear" /\ Deletes(p)
  <2>1. NoGap' /\ PositionsKept /\ LatestLedger' = LatestLedger
    BY <1>1, <1>5, DeleteKeepsWindow DEF WindowInv, Orderly
  <2>2. CoreInv'
    BY <1>1, <2>1, CoreKept DEF WindowInv
  <2>3. /\ coreLatest' \in Int /\ coreLatest <= coreLatest'
        /\ LatestLedger' \in Nat /\ LatestLedger <= LatestLedger'
    BY <1>1, <2>1, NumbersAre, HistoryEnds
  <2>4. \A q \in Processes : SessionInv(q)' \/ Undisturbed(q)
    BY <1>1, <1>3, <2>1 DEF Undisturbed
  <2> QED BY <1>1, <2>1, <2>2, <2>3, <2>4, HistoryStep
<1> QED BY <1>2, <1>4, <1>5

LEMMA OthersKeepWindow ==
  ASSUME Types, WindowInv,
         \/ CloseLedger \/ Maintain \/ UNCHANGED vars
         \/ \E s \in Servers : StartServer(s) \/ Refresh(s) \/ SkipReap(s)
         \/ \E p \in Processes : Crash(p)
  PROVE  WindowInv'
<1>1. CASE \E p \in Processes : Crash(p)
  <2>1. PICK p \in Processes : Crash(p)
    BY <1>1
  <2>2. /\ UNCHANGED <<coreElder, coreLatest, cursor, rows, retention>>
        /\ Ends(p)
    BY <2>1, CrashDoes
  <2> QED BY <2>2, SessionEnds, OneMoves
<1>2. CASE ~\E p \in Processes : Crash(p)
  <2>1. UNCHANGED <<job, command, cursor, rows, retention>>
    BY <1>2 DEF CloseLedger, Maintain, StartServer, Refresh, SkipReap, RefreshLatest,
                RefreshElder, vars, coreVars, historyVars
  <2>2. \A q \in Processes : Same(q)
    BY <2>1 DEF Same
  <2>3. /\ coreLatest' \in {coreLatest, coreLatest + 1}
        /\ \/ coreElder' = coreElder
           \/ coreElder <= cursor /\ coreElder' = coreElder + 1
    BY <1>2 DEF CloseLedger, Maintain, StartServer, Refresh, SkipReap, RefreshLatest,
                RefreshElder, vars, coreVars
  <2>4. coreLatest' \in Int /\ coreLatest <= coreLatest'
    BY <2>3, NumbersAre
  <2>5. CoreInv'
    <3>1. LatestLedger' = LatestLedger
      BY <2>1, SameRows
    <3> QED BY <2>1, <2>3, <2>4, <3>1, NumbersAre, HistoryEnds DEF WindowInv, CoreInv
  <2> QED BY <2>1, <2>2, <2>4, <2>5, QuietStep
<1> QED BY <1>1, <1>2

LEMMA StepKeepsWindow ==
  ASSUME Types, ControlInv, RowsInv, ReapInv, OneServer, OneServerInv, [Next]_vars
  PROVE  OneServerInv'
<1> SUFFICES ASSUME strayed' = {} PROVE WindowInv'
  BY DEF OneServerInv
<1>1. strayed = {} /\ WindowInv
  BY NotesKept DEF OneServerInv
<1>2. ASSUME NEW p \in Processes, Ingest(p) PROVE WindowInv'
  <2>1. CASE FlushLedger(p)
    BY <1>1, <2>1, FlushKeepsWindow
  <2>2. CASE ReportCursor(p)
    BY <1>1, <2>2, ReportKeepsWindow
  <2> QED BY <1>1, <1>2, <2>1, <2>2, QuietIngestKeepsWindow DEF Ingest
<1>3. ASSUME NEW p \in Processes, Reap(p) PROVE WindowInv'
  BY <1>1, <1>3, ReapKeepsWindow
<1>4. ASSUME NEW c \in Clis, CommandStep(c) \/ StartSomeCommand(c) PROVE WindowInv'
  BY <1>1, <1>4, CommandKeepsWindow, StartKeepsWindow
<1>5. ASSUME \/ CloseLedger \/ Maintain \/ UNCHANGED vars
             \/ \E s \in Servers : StartServer(s) \/ Refresh(s) \/ SkipReap(s)
             \/ \E p \in Processes : Crash(p)
      PROVE  WindowInv'
  BY <1>1, <1>5, OthersKeepWindow
<1> QED BY <1>2, <1>3, <1>4, <1>5 DEF Next

LEMMA OneServerInit ==
  ASSUME Init
  PROVE  OneServerInv
<1>1. Types
  BY InitTypes
<1>2. PICK e \in Ledgers, h \in Ledgers :
        /\ rows \in {HistoryOf({}), HistoryOf(e .. h)} /\ h <= coreLatest
        /\ cursor = LatestLedger
  BY InitTypes
<1>3. \/ rows["ledgers"] = {}
      \/ rows["ledgers"] = Ledgers \cap (e .. h)
  BY <1>2, Constants DEF HistoryOf
<1>4. e \in Nat /\ e >= 1 /\ h \in Nat /\ coreLatest \in Nat
  BY <1>1, Constants DEF Types
<1>5. LatestLedger <= coreLatest
  BY <1>1, <1>2, <1>3, <1>4, HistoryEnds
<1>6. CoreInv
  BY <1>1, <1>2, <1>4, <1>5, HistoryEnds DEF Init, CoreInv
<1>7. NoGap
  <2> SUFFICES ASSUME NEW l \in Ledgers, ElderLedger <= l, l <= LatestLedger
               PROVE  l \in rows["ledgers"]
    BY DEF NoGap
  <2>1. l \in Nat /\ l >= 1
    BY Constants
  <2>2. /\ ElderLedger \in rows["ledgers"] /\ LatestLedger \in rows["ledgers"]
    BY <1>1, <2>1, HistoryEnds
  <2> QED BY <1>1, <1>3, <1>4, <2>1, <2>2, HistoryEnds
<1>8. ASSUME NEW p \in Processes PROVE SessionInv(p)
  <2>1. /\ job[p].at = "idle"
        /\ p \in Clis => command[p] = "none"
    BY IdleIs DEF Init
  <2> QED BY <2>1 DEF SessionInv
<1>9. \A s \in Servers : ServerInv(s)
  BY IdleIs, Constants DEF Init, ServerInv
<1> QED BY <1>6, <1>7, <1>8, <1>9 DEF OneServerInv, WindowInv

LEMMA OneServerHolds == ASSUME OneServer PROVE Spec => []OneServerInv
<1>1. Init => OneServerInv
  BY OneServerInit
<1>2. Types /\ ControlInv /\ RowsInv /\ ReapInv /\ OneServerInv /\ [Next]_vars
        => OneServerInv'
  BY StepKeepsWindow
<1>3. Types /\ (ControlInv /\ NotesInv) /\ (RowsInv /\ ReapInv)
        => Types /\ ControlInv /\ RowsInv /\ ReapInv
  OBVIOUS
<1> QED BY <1>1, <1>2, <1>3, TypesHold, ControlHolds, RowsHold, PTL DEF Spec

-----------------------------------------------------------------------------
(* What holds with one ingesting server.                                   *)

(* A history is a gap-free window (docs/admin.md:113): of the ledgers to   *)
(* keep nothing is missing between its elder and its latest one, wherever  *)
(* sessions, backfills, reingestions and reapers stop and whichever of     *)
(* them run side by side, until the operators have a ledger reingested     *)
(* that is apart from the history, or clear it beside another process,     *)
(* neither of which the program prevents.                                  *)
THEOREM HistoryHasNoGaps == ASSUME OneServer PROVE Spec => []GapFree
<1>1. OneServerInv => GapFree
  BY DEF OneServerInv, WindowInv, NoGap, GapFree
<1> QED BY <1>1, OneServerHolds, PTL

(* Core still has the ledger that ingestion needs next: the cursor that    *)
(* reportCursorState sends (ingest/session.go:878-896) is never ahead of   *)
(* what is committed, so core's maintenance frees nothing unread, until    *)
(* the operators stray.                                                    *)
THEOREM UnreadIsKept == ASSUME OneServer PROVE Spec => []CoreKeepsUnread
<1>1. Types /\ OneServerInv => CoreKeepsUnread
  BY HistoryEnds, NumbersAre DEF OneServerInv, WindowInv, CoreInv, CoreKeepsUnread
<1> QED BY <1>1, TypesHold, OneServerHolds, PTL

-----------------------------------------------------------------------------
(* The refinement: the unbroken run of ledgers that ends with the latest.  *)

IsStart(u, S, top) == /\ u \in S /\ u .. top \subseteq S
                      /\ \A l \in S : l .. top \subseteq S => u <= l

LEMMA StartOfRun ==
  ASSUME NEW S \in SUBSET Ledgers, NEW top, IsTop(top, S), S # {},
         NEW u, u = Min({l \in S : l .. top \subseteq S})
  PROVE  IsStart(u, S, top)
<1> DEFINE R == {l \in S : l .. top \subseteq S}
<1>1. R \in SUBSET Ledgers
  OBVIOUS
<1>2. top \in R
  <2>1. top \in S /\ top .. top = {top}
    BY DEF IsTop
  <2> QED BY <2>1
<1>3. u = Min(R)
  OBVIOUS
<1>4. u \in R /\ \A l \in R : u <= l
  <2> HIDE DEF R
  <2>1. R # {}
    BY <1>2
  <2>2. Min(R) \in R /\ \A l \in R : Min(R) <= l
    BY <1>1, <2>1, MinOfLedgers
  <2> QED BY <1>3, <2>2
<1> QED BY <1>4 DEF IsStart

LEMMA UnbrokenIsStart ==
  ASSUME Types
  PROVE  /\ LatestLedger = 0 => UnbrokenFrom = 0
         /\ LatestLedger # 0 =>
              /\ IsStart(UnbrokenFrom, rows["ledgers"], LatestLedger)
              /\ UnbrokenFrom \in Nat /\ UnbrokenFrom >= 1
              /\ UnbrokenFrom <= LatestLedger
<1>1. /\ rows["ledgers"] \in SUBSET Ledgers
      /\ IsTop(LatestLedger, rows["ledgers"])
      /\ LatestLedger = 0 <=> rows["ledgers"] = {}
  BY LatestIsTop, HistoryEnds
<1>2. CASE LatestLedger = 0
  BY <1>1, <1>2 DEF UnbrokenFrom
<1>3. CASE LatestLedger # 0
  <2>1. IsStart(UnbrokenFrom, rows["ledgers"], LatestLedger)
    BY <1>1, <1>3, StartOfRun DEF UnbrokenFrom
  <2> QED BY <1>3, <2>1, HistoryEnds DEF IsStart
<1> QED BY <1>2, <1>3

LEMMA NextUnbrokenIsStart ==
  ASSUME rows' \in [Tables -> SUBSET Ledgers]
  PROVE  /\ rows'["ledgers"] = {} => UnbrokenFrom' = 0
         /\ rows'["ledgers"] # {} =>
              /\ IsStart(UnbrokenFrom', rows'["ledgers"], LatestLedger')
              /\ UnbrokenFrom' \in Nat /\ UnbrokenFrom' >= 1
<1>1. /\ rows'["ledgers"] \in SUBSET Ledgers
      /\ IsTop(LatestLedger', rows'["ledgers"])
  BY NextLatestIsTop, Constants
<1>2. rows'["ledgers"] # {} =>
        IsStart(UnbrokenFrom', rows'["ledgers"], LatestLedger')
  BY <1>1, StartOfRun DEF UnbrokenFrom
<1>3. rows'["ledgers"] = {} => UnbrokenFrom' = 0
  BY DEF UnbrokenFrom
<1> QED BY <1>1, <1>2, <1>3, Constants DEF IsStart

LEMMA FlushRefines ==
  ASSUME Types, WindowInv, strayed = {}, strayed' = {},
         UNCHANGED <<coreLatest, retention>>,
         NEW p \in Processes, NEW lg \in Ledgers, lg <= coreLatest,
         rows' \in [Tables -> SUBSET Ledgers],
         rows'["ledgers"] = rows["ledgers"] \cup {lg},
         LatestLedger # 0 => lg <= LatestLedger + 1
  PROVE  [Window!Next]_(Window!vars)
<1>1. lg \in Nat /\ lg >= 1 /\ coreLatest \in Int
  BY Constants, NumbersAre
<1>2. PICK L \in SUBSET Nat, N \in SUBSET Nat :
        L = rows["ledgers"] /\ N = rows'["ledgers"] /\ N = L \cup {lg}
  BY <1>1, HistoryEnds
<1>3. PICK b \in Nat, n \in Nat :
        /\ b = LatestLedger /\ n = LatestLedger' /\ n = IF lg > b THEN lg ELSE b
  BY <1>1, AddLedger, HistoryEnds
<1>4. PICK v \in Nat : v = UnbrokenFrom' /\ v >= 1 /\ IsStart(v, N, n)
  BY <1>2, <1>3, NextUnbrokenIsStart
<1>5. CASE LatestLedger = 0
  <2>1. N = {lg}
    BY <1>2, <1>5, HistoryEnds
  <2>2. v = lg /\ n = lg
    BY <1>1, <1>3, <1>4, <1>5, <2>1 DEF IsStart
  <2>3. lg \in 1 .. coreLatest
    BY <1>1
  <2> QED BY <1>3, <1>4, <1>5, <2>2, <2>3 DEF Window!Next, Window!Open, Window!Empty
<1>6. CASE LatestLedger # 0
  <2>1. PICK u \in Nat :
          /\ u = UnbrokenFrom /\ u >= 1 /\ u <= b /\ IsStart(u, L, b)
    BY <1>2, <1>3, <1>6, UnbrokenIsStart
  <2>2. v <= u
    <3>1. \A l \in u .. n : l \in N
      BY <1>1, <1>2, <1>3, <1>6, <2>1 DEF IsStart
    <3>2. u \in N
      BY <1>2, <2>1 DEF IsStart
    <3> QED BY <1>4, <3>1, <3>2 DEF IsStart
  <2>3. CASE lg = b + 1
    <3>1. n = b + 1
      BY <1>3, <2>3
    <3>2. u <= v
      <4>1. \A l \in v .. b : l \in L
        <5> TAKE l \in v .. b
        <5>1. l \in v .. n /\ l # lg
          BY <2>3, <3>1
        <5> QED BY <1>2, <1>4, <5>1 DEF IsStart
      <4>2. v \in L
        BY <1>2, <1>4, <2>1, <2>2, <2>3 DEF IsStart
      <4> QED BY <2>1, <4>1, <4>2 DEF IsStart
    <3>3. v = u
      BY <2>2, <3>2
    <3> QED BY <1>1, <1>3, <1>4, <1>6, <2>1, <2>3, <3>1, <3>3
            DEF Window!Next, Window!GoOn, Window!Empty
  <2>4. CASE lg <= b
    <3>1. n = b
      BY <1>1, <1>3, <2>4
    <3>2. CASE v = u
      BY <1>3, <1>4, <2>1, <3>1, <3>2 DEF Window!vars
    <3>3. CASE v # u
      <4>1. v \in 1 .. u - 1 /\ u > 1
        BY <1>4, <2>2, <3>3
      <4> QED BY <1>3, <1>4, <1>6, <2>1, <3>1, <4>1
              DEF Window!Next, Window!LookBack, Window!Empty
    <3> QED BY <3>2, <3>3
  <2> QED BY <1>1, <1>3, <1>6, <2>3, <2>4
<1> QED BY <1>5, <1>6

LEMMA DeleteRefines ==
  ASSUME Types, ControlInv, RowsInv, ReapInv, strayed = {}, strayed' = {},
         UNCHANGED <<coreLatest, retention>>,
         NEW p \in Processes, reaper[p].at = "clear", Deletes(p)
  PROVE  [Window!Next]_(Window!vars)
<1>0. Orderly
  BY DEF Orderly
<1>1. PICK n \in Int : n = reaper[p].target
  BY ReaperFields
<1>2. /\ rows' \in [Tables -> SUBSET Ledgers]
      /\ \/ rows'["ledgers"] = rows["ledgers"]
         \/ rows'["ledgers"] = {l \in rows["ledgers"] : l >= n}
  BY <1>1, ReapRows
<1>3. PICK b \in Nat : b = LatestLedger /\ b = LatestLedger'
  BY <1>0, DeleteKeepsRows, HistoryEnds
<1>4. retention \in Nat /\ retention >= 1 /\ n <= b - retention + 1
  BY <1>0, <1>1, <1>3, Latest DEF ControlInv, NoReapOfAll, ReapInv, Behind
<1>5. CASE rows'["ledgers"] = rows["ledgers"]
  <2>1. UnbrokenFrom' = UnbrokenFrom
    BY <1>3, <1>5 DEF UnbrokenFrom
  <2> QED BY <1>3, <2>1 DEF Window!vars
<1>6. CASE rows'["ledgers"] # rows["ledgers"]
  <2>1. PICK L \in SUBSET Nat, N \in SUBSET Nat :
          /\ L = rows["ledgers"] /\ N = rows'["ledgers"]
          /\ N = {l \in L : l >= n}
    BY <1>2, <1>6, HistoryEnds
  <2>2. b # 0 /\ b \in L
    BY <1>2, <1>3, <1>6, <2>1, HistoryEnds
  <2>3. b \in N
    BY <1>4, <2>1, <2>2
  <2>4. PICK u \in Nat, v \in Nat :
          /\ u = UnbrokenFrom /\ u <= b /\ IsStart(u, L, b)
          /\ v = UnbrokenFrom' /\ IsStart(v, N, b)
    BY <1>2, <1>3, <2>1, <2>2, <2>3, UnbrokenIsStart, NextUnbrokenIsStart
  <2>5. CASE n <= u
    <3>1. \A l \in u .. b : l \in N
      BY <2>1, <2>4, <2>5 DEF IsStart
    <3>2. v <= u
      BY <2>1, <2>4, <2>5, <3>1 DEF IsStart
    <3>3. u <= v
      BY <2>1, <2>4 DEF IsStart
    <3> QED BY <1>3, <2>4, <3>2, <3>3 DEF Window!vars
  <2>6. CASE u < n
    <3>1. n <= b
      BY <1>4
    <3>2. \A l \in n .. b : l \in N
      BY <2>1, <2>4, <2>6 DEF IsStart
    <3>3. n \in N
      BY <3>1, <3>2
    <3>4. v <= n
      BY <2>4, <3>2, <3>3 DEF IsStart
    <3>5. v >= n
      BY <2>1, <2>4 DEF IsStart
    <3>6. v \in u + 1 .. b - retention + 1
      BY <1>4, <2>6, <3>4, <3>5
    <3>7. LatestLedger # 0 /\ LatestLedger' = LatestLedger
      BY <1>3, <2>2
    <3>8. retention > 0
      BY <1>4
    <3>9. UnbrokenFrom' \in UnbrokenFrom + 1 .. LatestLedger - retention + 1
      BY <1>3, <2>4, <3>6
    <3> QED BY <3>7, <3>8, <3>9 DEF Window!Next, Window!Reap, Window!Empty
  <2> QED BY <2>4, <2>5, <2>6
<1> QED BY <1>5, <1>6

LEMMA StepRefines ==
  ASSUME Types, ControlInv, RowsInv, ReapInv, OneServerInv, OneServerInv', [Next]_vars
  PROVE  [Window!Next]_(Window!vars)
<1>1. retention' = retention
  BY DEF Next, Ingest, Tick, DecideRange, NextLedger, FlushLedger, FinishRange,
         ReportCursor, Refresh, Reap, RefreshLatest, RefreshElder, SkipReap,
         ClearBefore, DeleteUnretainedHistory, CommandStep, NextOutdated,
         RebaseElder, ClearAll, StartSomeCommand, StartBackfill, StartReingest,
         StartReingestOutdated, StartRebase, StartClear, StartReap, StartCommand,
         CloseLedger, Maintain, StartServer, Crash, vars
<1>2. CASE strayed' # {}
  BY <1>1, <1>2 DEF Window!Next, Window!Stray
<1>3. CASE strayed' = {}
  <2>1. strayed = {} /\ WindowInv
    BY <1>3, NotesKept DEF OneServerInv
  <2>2. ASSUME NEW p \in Processes, FlushLedger(p), rows' # rows
        PROVE  [Window!Next]_(Window!vars)
    <3>1. coreLatest' = coreLatest
      BY <2>2 DEF FlushLedger, coreVars
    <3>2. job[p].at = "flush" /\ Adds(p) /\ MovesTo(p, "next")
      BY <2>2, FlushLedgerDoes
    <3>3. PICK lg \in Ledgers :
            /\ lg = job[p].cursor.lg /\ lg <= coreLatest
            /\ rows' \in [Tables -> SUBSET Ledgers]
            /\ rows'["ledgers"] = rows["ledgers"] \cup {lg}
      BY <3>2, FlushRows
    <3>4. LatestLedger # 0 => lg <= LatestLedger + 1
      <4> SUFFICES ASSUME LatestLedger # 0, ~(lg <= LatestLedger + 1) PROVE FALSE
        OBVIOUS
      <4>1. p \in Clis /\ command[p] = "reingest"
        BY <2>1, <3>2, <3>3, Constants DEF WindowInv, SessionInv, Opens, Joins
      <4>2. IsApart(p, lg)
        <5>1. \A l \in rows["ledgers"] : l \notin {lg - 1, lg, lg + 1}
          BY HistoryEnds, Constants
        <5> QED BY <4>1, <5>1 DEF IsApart
      <4>3. strayed' # {}
        <5>1. ~EndJob(p)
          BY <2>2, <3>2, EndJobDoes, IdleIs DEF Ends, SetsJob, MovesTo
        <5> QED BY <2>2, <3>3, <4>2, <5>1 DEF FlushLedger
      <4> QED BY <1>3, <4>3
    <3> QED BY <1>1, <1>3, <2>1, <3>1, <3>3, <3>4, FlushRefines
  <2>3. ASSUME NEW p \in Processes, ClearBefore(p), rows' # rows
        PROVE  [Window!Next]_(Window!vars)
    <3>1. coreLatest' = coreLatest
      BY <2>3 DEF ClearBefore, coreVars
    <3> QED BY <1>1, <1>3, <2>1, <2>3, <3>1, ClearBeforeDoes, DeleteRefines
  <2>4. ASSUME NEW c \in Clis, ClearAll(c), rows' # rows
        PROVE  [Window!Next]_(Window!vars)
    <3>1. coreLatest' = coreLatest
      BY <2>4 DEF ClearAll, coreVars
    <3>2. rows' = HistoryOf({})
      BY <2>4, ClearAllDoes
    <3>3. LatestLedger' = 0 /\ UnbrokenFrom' = 0
      BY <3>2, ClearedRows DEF LatestLedger, UnbrokenFrom
    <3> QED BY <1>1, <1>3, <2>1, <3>1, <3>3 DEF Window!Next, Window!Clear
  <2>5. CASE rows' = rows
    <3>1. LatestLedger' = LatestLedger /\ UnbrokenFrom' = UnbrokenFrom
      BY <2>5 DEF LatestLedger, UnbrokenFrom
    <3>2. coreLatest' = coreLatest \/ coreLatest' = coreLatest + 1
      BY DEF Next, Ingest, Tick, DecideRange, NextLedger, FlushLedger, FinishRange,
             ReportCursor, Refresh, Reap, RefreshLatest, RefreshElder, SkipReap,
             ClearBefore, DeleteUnretainedHistory, CommandStep, NextOutdated,
             RebaseElder, ClearAll, StartSomeCommand, StartBackfill, StartReingest,
             StartReingestOutdated, StartRebase, StartClear, StartReap,
             StartCommand, CloseLedger, Maintain, StartServer, Crash, vars, coreVars
    <3> QED BY <1>1, <1>3, <2>1, <3>1, <3>2 DEF Window!vars, Window!Next, Window!Close
  <2>6. \/ rows' = rows
        \/ \E p \in Processes : FlushLedger(p) \/ ClearBefore(p)
        \/ \E c \in Clis : ClearAll(c)
    BY DEF Next, Ingest, Tick, DecideRange, NextLedger, FinishRange, ReportCursor,
           Refresh, Reap, RefreshLatest, RefreshElder, SkipReap,
           DeleteUnretainedHistory, CommandStep, NextOutdated, RebaseElder,
           StartSomeCommand, StartBackfill, StartReingest, StartReingestOutdated,
           StartRebase, StartClear, StartReap, StartCommand, CloseLedger, Maintain,
           StartServer, Crash, vars, historyVars
  <2> QED BY <2>2, <2>3, <2>4, <2>5, <2>6
<1> QED BY <1>2, <1>3

(* One server, any number of commands side by side and the reapers         *)
(* implement HistoryWindow: the unbroken run of ledgers up to the latest   *)
(* one is moved at its ends only as that specification says, until the     *)
(* operators stray. A backfill beside a reaper lengthens it downwards only *)
(* when it fills the gap the reaper left.                                  *)
THEOREM HistoryIsWindow == ASSUME OneServer PROVE Spec => WindowSpec
<1>1. Init => Window!Init
  <2> SUFFICES ASSUME Init PROVE Window!Init
    OBVIOUS
  <2>1. Types /\ OneServerInv /\ strayed = {}
    BY InitTypes, OneServerInit DEF Init
  <2>2. /\ coreLatest \in Nat \ {0} /\ retention \in Nat
        /\ LatestLedger \in 0 .. coreLatest
    BY <2>1, HistoryEnds, Constants DEF Types, OneServerInv, WindowInv, CoreInv
  <2>3. LatestLedger = 0 => UnbrokenFrom = 0
    BY <2>1, UnbrokenIsStart
  <2>4. LatestLedger # 0 => UnbrokenFrom \in 1 .. LatestLedger
    BY <2>1, <2>2, UnbrokenIsStart
  <2> QED BY <2>1, <2>2, <2>3, <2>4 DEF Window!Init, Window!Empty
<1>2. Types /\ ControlInv /\ RowsInv /\ ReapInv /\ OneServerInv /\ OneServerInv'
        /\ [Next]_vars => [Window!Next]_(Window!vars)
  BY StepRefines
<1>3. Types /\ (ControlInv /\ NotesInv) /\ (RowsInv /\ ReapInv)
        => Types /\ ControlInv /\ RowsInv /\ ReapInv
  OBVIOUS
<1> QED BY <1>1, <1>2, <1>3, TypesHold, ControlHolds, RowsHold, OneServerHolds, PTL
        DEF Spec, WindowSpec, Window!Spec

=============================================================================
