------------------------------ MODULE Exchange ------------------------------
(***************************************************************************)
(* What Bifrost promises the people who send it deposits (README.md of     *)
(* services/bifrost), without instances, blocks, goroutines, signers,      *)
(* sequence numbers or failures:                                           *)
(*   - a deposit is recorded, waits in line, is taken in its turn, and its *)
(*     tokens are sent, each of these at most once;                        *)
(*   - a user's account is created for a deposit that was taken, receives  *)
(*     tokens only while the temporary signer is on it, and is released    *)
(*     only when tokens were sent to it;                                   *)
(*   - what is announced is so, and stays so.                              *)
(* It promises no progress: a deposit may stay where it is for ever.       *)
(***************************************************************************)
EXTENDS Naturals, Sequences, SequencesExt

CONSTANTS Deposits, Accounts, Associations

VARIABLES
  dest,      \* deposit -> account
  recorded,  \* deposits that were seen
  line,      \* those that wait, the first to be taken first
  taken,     \* and those that were taken
  account,   \* account -> "absent", "created", "temporary" or "released"
  sent,      \* deposit -> how often its tokens were sent
  events     \* what was announced: <<account, event>>

vars == <<dest, recorded, line, taken, account, sent, events>>

Init ==
  /\ dest \in Associations
  /\ recorded = {} /\ line = <<>> /\ taken = {}
  /\ account = [a \in Accounts |-> "absent"]
  /\ sent = [d \in Deposits |-> 0]
  /\ events = {}

Record(d) ==
  /\ d \notin recorded
  /\ recorded' = recorded \cup {d}
  /\ UNCHANGED <<dest, line, taken, account, sent, events>>

Join(d) ==
  /\ d \in recorded \ (ToSet(line) \cup taken)
  /\ line' = Append(line, d)
  /\ UNCHANGED <<dest, recorded, taken, account, sent, events>>

Take ==
  /\ line # <<>>
  /\ line' = Tail(line)
  /\ taken' = taken \cup {Head(line)}
  /\ UNCHANGED <<dest, recorded, account, sent, events>>

Becomes(a, before, after) ==
  /\ account[a] = before
  /\ account' = [account EXCEPT ![a] = after]
  /\ UNCHANGED <<dest, recorded, line, taken, sent, events>>

Create(d) == d \in taken /\ Becomes(dest[d], "absent", "created")

Sign(a) == Becomes(a, "created", "temporary")

Honour(d) ==
  /\ d \in taken /\ account[dest[d]] = "temporary"
  /\ sent[d] = 0
  /\ sent' = [sent EXCEPT ![d] = 1]
  /\ UNCHANGED <<dest, recorded, line, taken, account, events>>

Release(d) == sent[d] = 1 /\ Becomes(dest[d], "temporary", "released")

IsSo(d, e) ==
  \/ e = "transaction_received" /\ d \in ToSet(line) \cup taken
  \/ e = "account_created" /\ d \in taken /\ account[dest[d]] # "absent"
  \/ e = "exchanged" /\ sent[d] = 1 /\ account[dest[d]] = "released"

Announce(d, e) ==
  /\ IsSo(d, e)
  /\ events' = events \cup {<<dest[d], e>>}
  /\ UNCHANGED <<dest, recorded, line, taken, account, sent>>

Events == {"transaction_received", "account_created", "exchanged"}

Next ==
  \/ Take
  \/ \E a \in Accounts : Sign(a)
  \/ \E d \in Deposits :
       \/ Record(d) \/ Join(d) \/ Create(d) \/ Honour(d) \/ Release(d)
       \/ \E e \in Events : Announce(d, e)

Spec == Init /\ [][Next]_vars
=============================================================================
