--------------------------- MODULE HistoryWindow ---------------------------
(***************************************************************************)
(* What Horizon's history database promises (docs/admin.md, "Surviving     *)
(* dfc-core downtime" and "Managing storage"), without sessions, commands, *)
(* tables or stale ledger states: it has a window onto the ledgers that    *)
(* core has closed, that is, two numbers and no gap between them.          *)
(*   - Ingestion moves its upper end by one ledger, and never back;        *)
(*   - a backfill moves its lower end, and a ledger that fills a gap below *)
(*     the window joins to it what is there;                               *)
(*   - the reaper raises the lower end, but keeps the latest `retention`   *)
(*     ledgers, and does nothing when that is 0;                           *)
(*   - only clearing everything closes the window, and it opens again at   *)
(*     any ledger.                                                         *)
(* All this until the operators do what no document tells them to.         *)
(***************************************************************************)
EXTENDS Integers

VARIABLES
  closed,         \* the latest ledger of dfc-core
  elder, latest,  \* the window's ends, both 0 when there is no history
  retention,      \* how many ledgers to keep, 0 for all
  astray          \* whether the operators have strayed

vars == <<closed, elder, latest, retention, astray>>

Empty == latest = 0

Init ==
  /\ closed \in Nat \ {0} /\ retention \in Nat
  /\ latest \in 0 .. closed
  /\ IF Empty THEN elder = 0 ELSE elder \in 1 .. latest
  /\ astray = FALSE

Close ==
  /\ closed' = closed + 1
  /\ UNCHANGED <<elder, latest, retention, astray>>

Open ==
  /\ Empty
  /\ latest' \in 1 .. closed
  /\ elder' = latest'
  /\ UNCHANGED <<closed, retention, astray>>

GoOn ==
  /\ ~Empty /\ latest < closed
  /\ latest' = latest + 1
  /\ UNCHANGED <<closed, elder, retention, astray>>

LookBack ==
  /\ ~Empty /\ elder > 1
  /\ elder' \in 1 .. elder - 1
  /\ UNCHANGED <<closed, latest, retention, astray>>

Reap ==
  /\ ~Empty /\ retention > 0
  /\ elder' \in elder + 1 .. latest - retention + 1
  /\ UNCHANGED <<closed, latest, retention, astray>>

Clear ==
  /\ elder' = 0 /\ latest' = 0
  /\ UNCHANGED <<closed, retention, astray>>

\* Nothing more is promised.
Stray == astray' /\ UNCHANGED retention

Next == Close \/ Open \/ GoOn \/ LookBack \/ Reap \/ Clear \/ Stray

Spec == Init /\ [][Next]_vars
=============================================================================
