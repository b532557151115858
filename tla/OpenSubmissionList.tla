------------------------- MODULE OpenSubmissionList -------------------------
(***************************************************************************)
(* The list of open submissions of Horizon's transaction submission system *)
(* (services/horizon/internal/txsub/open_submission_list.go): transactions *)
(* that dfc-core has taken and whose result is not known yet, each with    *)
(* the response channels (Listeners) of the requests that submitted it.    *)
(*                                                                         *)
(* Every method holds the list's mutex, so each is one action.  A response *)
(* channel is the sequence of the results sent on it; it has room for one  *)
(* result and is closed after it, so a second send would be a panic.  An   *)
(* entry of the map exists exactly while it has a listener.  The clock is  *)
(* one bit per entry, `old`: more than the submission timeout (30 s) has   *)
(* passed since SubmittedAt.                                               *)
(***************************************************************************)
EXTENDS Naturals, Sequences, FiniteSets

CONSTANTS
  Hashes,       \* transactions, named by their hash
  Listeners     \* response channels, one per request

VARIABLES
  submissions,  \* submissionList.submissions: hash -> set of listeners
  old,          \* the entry is older than the submission timeout
  response      \* response channel -> results sent on it

vars == <<submissions, old, response>>

\* What is known of a transaction in a ledger ...
Results == {"success", "failed"}

\* ... and every other answer of System.Submit.
Errors == {"malformed", "error", "noAccount", "noMoreRoom", "badSequence",
           "rejected", "canceled", "timeout"}

Answers == Results \cup Errors

Init ==
  /\ submissions = [h \in Hashes |-> {}]
  /\ old = [h \in Hashes |-> FALSE]
  /\ response = [l \in Listeners |-> <<>>]

\* `l <- r; close(l)` for every listener of a set.
Send(ls, r) ==
  response' = [l \in Listeners |->
                 IF l \in ls THEN Append(response[l], r) ELSE response[l]]

-----------------------------------------------------------------------------
\* Add forgetting a listener that joins an existing entry.
AddFirstOnly(h, l) ==
  /\ submissions' = [submissions EXCEPT ![h] = IF @ = {} THEN {l} ELSE @]
  /\ UNCHANGED <<old, response>>

(* Add: a first listener creates the entry and dates it, a later one joins *)
(* it and leaves its date.                                                 *)
Add(h, l) ==
  /\ submissions' = [submissions EXCEPT ![h] = @ \cup {l}]
  /\ UNCHANGED <<old, response>>

Pending == {h \in Hashes : submissions[h] # {}}

\* Finish keeping the entry: every later result is sent on closed channels.
FinishKeepsEntry(h, r) ==
  /\ Send(submissions[h], r)
  /\ UNCHANGED <<submissions, old>>

(* Finish: the result goes to every listener and the entry is deleted.     *)
Finish(h, r) ==
  /\ Send(submissions[h], r)
  /\ submissions' = [submissions EXCEPT ![h] = {}]
  /\ old' = [old EXCEPT ![h] = FALSE]

Overdue == {h \in Pending : old[h]}

\* Clean deleting the overdue entries without telling their listeners.
CleanSilently ==
  /\ submissions' = [h \in Hashes |->
                       IF h \in Overdue THEN {} ELSE submissions[h]]
  /\ old' = [h \in Hashes |-> FALSE]
  /\ UNCHANGED response

(* Clean: every entry over the maximum age is deleted and its listeners    *)
(* are sent ErrTimeout.                                                    *)
Clean ==
  /\ Send(UNION {submissions[h] : h \in Overdue}, "timeout")
  /\ submissions' = [h \in Hashes |->
                       IF h \in Overdue THEN {} ELSE submissions[h]]
  /\ old' = [h \in Hashes |-> FALSE]

-----------------------------------------------------------------------------
(* The submission timeout of an entry passes.                              *)
Age(h) ==
  /\ submissions[h] # {}
  /\ ~old[h]
  /\ old' = [old EXCEPT ![h] = TRUE]
  /\ UNCHANGED <<submissions, response>>
=============================================================================
