------------------------- MODULE SubmissionService -------------------------
(***************************************************************************)
(* What Horizon's transaction submission promises its clients and dfc-core *)
(* (services/horizon/internal/txsub/doc.go), without queues, channels,     *)
(* locks, ticks or clocks:                                                 *)
(*   - a request is answered once, and the answer stands;                  *)
(*   - the sequence numbers known to be used up form, for each account, an *)
(*     initial segment: they are learned one after the other;              *)
(*   - a request is cleared for posting to the node only when the number   *)
(*     before its own is known;                                            *)
(*   - an answer that carries a result is given only for a number that is  *)
(*     known.                                                              *)
(***************************************************************************)
EXTENDS Naturals, Sequences

CONSTANTS Requests, Accounts, Txs, Source, SeqNum, MaxSequence, NoTx

VARIABLES
  phase,    \* request -> "new", "queued", "cleared" or "answered"
  tx,       \* request -> its transaction
  answer,   \* request -> the answers sent, a sequence of at most one
  known     \* account -> sequence numbers applied, or accepted by the node

vars == <<phase, tx, answer, known>>

Results == {"success", "failed"}

Errors == {"error", "noAccount", "noMoreRoom", "badSequence", "rejected",
           "canceled", "timeout"}

Init ==
  /\ phase = [s \in Requests |-> "new"]
  /\ tx = [s \in Requests |-> NoTx]
  /\ answer = [s \in Requests |-> <<>>]
  /\ known = [a \in Accounts |-> {0}]

Arrive(s, t) ==
  /\ phase[s] = "new"
  /\ phase' = [phase EXCEPT ![s] = "queued"]
  /\ tx' = [tx EXCEPT ![s] = t]
  /\ UNCHANGED <<answer, known>>

Clear(s) ==
  /\ phase[s] = "queued"
  /\ SeqNum[tx[s]] - 1 \in known[Source[tx[s]]]
  /\ phase' = [phase EXCEPT ![s] = "cleared"]
  /\ UNCHANGED <<tx, answer, known>>

Learn(a, n) ==
  /\ n - 1 \in known[a]
  /\ known' = [known EXCEPT ![a] = @ \cup {n}]
  /\ UNCHANGED <<phase, tx, answer>>

MayAnswer(s, r) ==
  \/ phase[s] = "new" /\ r = "malformed"
  \/ phase[s] \in {"queued", "cleared"} /\ r \in Errors
  \/ /\ phase[s] \in {"queued", "cleared"}
     /\ r \in Results
     /\ SeqNum[tx[s]] \in known[Source[tx[s]]]

\* Requests that submitted the same transaction are answered together.
Answer(S, r) ==
  /\ \A s \in S : MayAnswer(s, r)
  /\ phase' = [s \in Requests |-> IF s \in S THEN "answered" ELSE phase[s]]
  /\ answer' = [s \in Requests |-> IF s \in S THEN <<r>> ELSE answer[s]]
  /\ UNCHANGED <<tx, known>>

Next ==
  \/ \E s \in Requests : Clear(s) \/ \E t \in Txs : Arrive(s, t)
  \/ \E a \in Accounts, n \in 1 .. MaxSequence : Learn(a, n)
  \/ \E S \in SUBSET Requests, r \in Results \cup Errors \cup {"malformed"} :
       Answer(S, r)

Spec == Init /\ [][Next]_vars
=============================================================================
