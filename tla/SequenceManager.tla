-------------------------- MODULE SequenceManager --------------------------
(***************************************************************************)
(* The per-account submission queues of Horizon's transaction submission   *)
(* system: package services/horizon/internal/txsub/sequence.               *)
(*                                                                         *)
(* A request that wants to submit a transaction pushes the transaction's   *)
(* sequence number and is handed a channel (a member of Channels).  When   *)
(* the manager learns the account's sequence number it sends one verdict   *)
(* on each channel it can decide.  Every method of Manager holds its mutex *)
(* from start to end, so each is one action.                               *)
(*                                                                         *)
(* A Go map entry exists exactly while its queue holds an item: Push       *)
(* creates the entry with an item in it, Update deletes it with its last   *)
(* one.  An account without an entry is here an account with NewQueue.     *)
(* The wall clock is reduced to one bit per queue, `expired`: more than    *)
(* `timeout` (10 s) has passed since lastActiveAt.                         *)
(***************************************************************************)
EXTENDS Naturals, FiniteSets

CONSTANTS
  Accounts,     \* source accounts
  Channels,     \* the channels handed out by Push, one per request
  MaxSize,      \* Manager.MaxSize, 1024 in NewManager
  MaxSequence   \* bound of the model: the largest sequence number

ASSUME MaxSizeAssumption == MaxSize \in Nat
ASSUME MaxSequenceAssumption == MaxSequence \in Nat

VARIABLES
  queues,       \* Manager.queues: account -> queue
  signal        \* what each channel has been sent, "empty" when nothing yet

vars == <<queues, signal>>

Sequences == 0 .. MaxSequence

Verdicts == {"nil", "badSequence", "noMoreRoom"}

Item == [seq : Nat, chan : Channels]

Queue == [next : Nat, expired : BOOLEAN, items : SUBSET Item]

NewQueue == [next |-> 0, expired |-> FALSE, items |-> {}]

Init ==
  /\ queues = [a \in Accounts |-> NewQueue]
  /\ signal = [ch \in Channels |-> "empty"]

Addresses == {a \in Accounts : queues[a].items # {}}

Buffered == UNION {queues[a].items : a \in Accounts}

Size == Cardinality(Buffered)

\* Room for one submission too many.
HasRoomTooMuch == Size <= MaxSize

HasRoom == Size < MaxSize

-----------------------------------------------------------------------------
(* Manager.Push: a channel that already holds ErrNoMoreRoom, or an item in *)
(* the account's queue, which is created when it is missing.               *)

Push(ch, a, n) ==
  IF HasRoom
  THEN /\ queues' = [queues EXCEPT
                       ![a].items = @ \cup {[seq |-> n, chan |-> ch]}]
       /\ UNCHANGED signal
  ELSE /\ signal' = [signal EXCEPT ![ch] = "noMoreRoom"]
       /\ UNCHANGED queues

-----------------------------------------------------------------------------
(* Queue.Update(sequence), on a queue q and the sequence number n that was *)
(* reported for its account.  The heap is popped from the smallest         *)
(* sequence number up, so the items popped are those not above the next    *)
(* sequence number.                                                        *)

\* Trusting the number reported last, however stale.
NextSequenceStale(q, n) == n + 1

NextSequence(q, n) == IF q.next <= n THEN n + 1 ELSE q.next

Unlocked(q, n) == {i \in q.items : i.seq <= NextSequence(q, n)}

\* Nothing was unlocked and the queue is too old: everything is popped.
TimedOut(q, n) == q.expired /\ Unlocked(q, n) = {}

\* Queues that never time out.
PoppedInOrderOnly(q, n) == Unlocked(q, n)

Popped(q, n) == IF TimedOut(q, n) THEN q.items ELSE Unlocked(q, n)

Verdict(q, n, i) == IF i.seq = NextSequence(q, n) THEN "nil" ELSE "badSequence"

\* An emptied queue that stays in the map.
AfterUpdateKeepsQueue(q, n) ==
  [next    |-> NextSequence(q, n),
   expired |-> q.expired /\ Unlocked(q, n) = {},
   items   |-> q.items \ Popped(q, n)]

\* An item that is sent a verdict and not popped.
AfterUpdatePeeks(q, n) ==
  IF Unlocked(q, n) = {} /\ q.expired THEN NewQueue
  ELSE [q EXCEPT !.next = NextSequence(q, n)]

\* Manager.Update deletes the queue that Queue.Update has emptied.
AfterUpdate(q, n) ==
  IF Popped(q, n) = q.items
  THEN NewQueue
  ELSE [next    |-> NextSequence(q, n),
        expired |-> q.expired /\ Unlocked(q, n) = {},
        items   |-> q.items \ Popped(q, n)]

\* The channels that are sent the verdict v by an update.
Notified(updates, v) ==
  {ch \in Channels :
     \E a \in Accounts \cap DOMAIN updates :
       \E i \in Popped(queues[a], updates[a]) :
         i.chan = ch /\ Verdict(queues[a], updates[a], i) = v}

(* Manager.Update: an account without a queue and a queue whose account is *)
(* not in the map are left alone.                                          *)
Update(updates) ==
  /\ queues' = [a \in Accounts |->
                  IF a \in DOMAIN updates
                  THEN AfterUpdate(queues[a], updates[a])
                  ELSE queues[a]]
  /\ signal' = [ch \in Channels |->
                  IF ch \in Notified(updates, "nil") THEN "nil"
                  ELSE IF ch \in Notified(updates, "badSequence")
                       THEN "badSequence" ELSE signal[ch]]

-----------------------------------------------------------------------------
(* More than `timeout` passes without a change of the account's queue.     *)

Expire(a) ==
  /\ queues[a].items # {}
  /\ ~queues[a].expired
  /\ queues' = [queues EXCEPT ![a].expired = TRUE]
  /\ UNCHANGED signal

-----------------------------------------------------------------------------
(* The manager alone, under clients that push each channel once and report *)
(* any sequence numbers in any order.                                      *)

Unused(ch) == signal[ch] = "empty" /\ \A i \in Buffered : i.chan # ch

Updates == UNION {[A -> Sequences] : A \in SUBSET Accounts}

Next ==
  \/ \E ch \in Channels, a \in Accounts, n \in Sequences :
       Unused(ch) /\ Push(ch, a, n)
  \/ \E updates \in Updates : Update(updates)
  \/ \E a \in Accounts : Expire(a)

Spec == Init /\ [][Next]_vars

-----------------------------------------------------------------------------
(* Type correctness.  The last conjunct is the representation of the map:  *)
(* a queue that Update has emptied is gone, and with it its memory of the  *)
(* next sequence number and of its age (Manager.Update, delete).           *)
TypeOK ==
  /\ queues \in [Accounts -> Queue]
  /\ signal \in [Channels -> Verdicts \cup {"empty"}]
  /\ \A a \in Accounts : queues[a].items = {} => queues[a] = NewQueue

(* The number of buffered submissions, over all accounts, never exceeds    *)
(* MaxSize (the check at the head of Manager.Push).                        *)
RoomBound == Size <= MaxSize

(* A queued item waits on a channel nothing has been sent on, and no two   *)
(* items share a channel: every pop can send without blocking and close    *)
(* without a panic (Queue.Update sends and closes for each item it pops).  *)
Delivery ==
  /\ \A i \in Buffered : signal[i.chan] = "empty"
  /\ \A a, b \in Accounts : \A i \in queues[a].items, j \in queues[b].items :
       i.chan = j.chan => a = b /\ i = j

(* A verdict, once sent on a channel, is the only one: no later push or    *)
(* update sends on it again.                                               *)
SignalledOnce ==
  [][\A ch \in Channels : signal[ch] # "empty" => signal'[ch] = signal[ch]]_vars

(* While a queue lives, the next sequence number it would release never    *)
(* goes back, whatever stale values are reported (Queue.Update: "This      *)
(* function is monotonic").                                                *)
NextIsMonotonic ==
  [][\A a \in Accounts :
       (queues[a].items # {} /\ queues'[a].items # {})
         => queues[a].next <= queues'[a].next]_vars

=============================================================================
