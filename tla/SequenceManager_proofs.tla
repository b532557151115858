----------------------- MODULE SequenceManager_proofs -----------------------
(***************************************************************************)
(* Proofs about the sequence manager, for any accounts, channels, MaxSize  *)
(* and MaxSequence.  The inductive invariant is TypeOK together with       *)
(* Delivery; RoomBound needs in addition that the buffer is finite.        *)
(***************************************************************************)
EXTENDS SequenceManager, FiniteSetTheorems, TLAPS

(* A channel is the channel of a queued item or it is not: an item popped  *)
(* from a queue, whatever it is told, was in that queue.                   *)
LEMMA PoppedIsQueued ==
  ASSUME NEW q \in Queue, NEW n \in Nat
  PROVE  Popped(q, n) \subseteq q.items
BY DEF Popped, TimedOut, Unlocked, Queue

(* What Queue.Update and the deletion of an emptied queue leave is again a *)
(* queue, with no item that was not there before.                          *)
LEMMA AfterUpdateIsQueue ==
  ASSUME NEW q \in Queue, NEW n \in Nat
  PROVE  /\ AfterUpdate(q, n) \in Queue
         /\ AfterUpdate(q, n).items = q.items \ Popped(q, n)
         /\ AfterUpdate(q, n).items = {} => AfterUpdate(q, n) = NewQueue
         /\ AfterUpdate(q, n).items # {} =>
              AfterUpdate(q, n).next = NextSequence(q, n)
<1>1. NextSequence(q, n) \in Nat
  BY DEF NextSequence, Queue
<1>2. Popped(q, n) \subseteq q.items
  BY PoppedIsQueued
<1>3. CASE Popped(q, n) = q.items
  BY <1>3 DEF AfterUpdate, NewQueue, Queue
<1>4. CASE Popped(q, n) # q.items
  <2>1. AfterUpdate(q, n) =
          [next    |-> NextSequence(q, n),
           expired |-> q.expired /\ Unlocked(q, n) = {},
           items   |-> q.items \ Popped(q, n)]
    BY <1>4 DEF AfterUpdate
  <2>2. q.items \ Popped(q, n) # {}
    BY <1>2, <1>4
  <2> QED BY <1>1, <2>1, <2>2 DEF Queue
<1> QED BY <1>3, <1>4

(* The verdict on an item moves its queue's next sequence number only up.  *)
LEMMA NextSequenceGrows ==
  ASSUME NEW q \in Queue, NEW n \in Nat
  PROVE  NextSequence(q, n) \in Nat /\ q.next <= NextSequence(q, n)
BY DEF NextSequence, Queue

(* The maps that Update is called with have natural numbers in them.       *)
LEMMA UpdatesAreNumbers ==
  ASSUME NEW updates \in Updates
  PROVE  /\ DOMAIN updates \subseteq Accounts
         /\ \A a \in DOMAIN updates : updates[a] \in Nat
BY MaxSequenceAssumption DEF Updates, Sequences

-----------------------------------------------------------------------------
(* The type is kept by every method of the manager.                        *)

LEMMA PushTypeOK ==
  ASSUME TypeOK, NEW ch \in Channels, NEW a \in Accounts, NEW n \in Nat,
         Push(ch, a, n)
  PROVE  TypeOK'
<1>1. CASE HasRoom
  <2>1. queues' = [queues EXCEPT
                     ![a].items = @ \cup {[seq |-> n, chan |-> ch]}]
    BY <1>1 DEF Push
  <2>2. [seq |-> n, chan |-> ch] \in Item
    BY DEF Item
  <2>3. queues' \in [Accounts -> Queue]
    BY <2>1, <2>2 DEF TypeOK, Queue
  <2>4. \A b \in Accounts : queues'[b].items = {} => queues'[b] = NewQueue
    BY <2>1 DEF TypeOK, Queue
  <2> QED BY <1>1, <2>3, <2>4 DEF Push, TypeOK
<1>2. CASE ~HasRoom
  BY <1>2 DEF Push, TypeOK, Verdicts
<1> QED BY <1>1, <1>2

LEMMA UpdateTypeOK ==
  ASSUME TypeOK, NEW updates, \A a \in DOMAIN updates : updates[a] \in Nat,
         Update(updates)
  PROVE  TypeOK'
<1>1. \A a \in Accounts :
        /\ queues'[a] \in Queue
        /\ queues'[a].items = {} => queues'[a] = NewQueue
  BY AfterUpdateIsQueue DEF Update, TypeOK
<1>2. queues' \in [Accounts -> Queue]
  BY <1>1 DEF Update
<1>3. signal' \in [Channels -> Verdicts \cup {"empty"}]
  BY DEF Update, TypeOK, Verdicts
<1> QED BY <1>1, <1>2, <1>3 DEF TypeOK

LEMMA ExpireTypeOK ==
  ASSUME TypeOK, NEW a \in Accounts, Expire(a)
  PROVE  TypeOK'
BY DEF Expire, TypeOK, Queue

(* Type correctness, and with it that a queue without items is gone.       *)
THEOREM TypeCorrect == Spec => []TypeOK
<1>1. Init => TypeOK
  BY DEF Init, TypeOK, NewQueue, Queue
<1>2. TypeOK /\ [Next]_vars => TypeOK'
  <2> SUFFICES ASSUME TypeOK, [Next]_vars PROVE TypeOK'
    OBVIOUS
  <2>1. ASSUME NEW ch \in Channels, NEW a \in Accounts, NEW n \in Sequences,
               Push(ch, a, n)
        PROVE  TypeOK'
    BY <2>1, PushTypeOK, MaxSequenceAssumption DEF Sequences
  <2>2. ASSUME NEW updates \in Updates, Update(updates)
        PROVE  TypeOK'
    BY <2>2, UpdateTypeOK, UpdatesAreNumbers
  <2>3. ASSUME NEW a \in Accounts, Expire(a)
        PROVE  TypeOK'
    BY <2>3, ExpireTypeOK
  <2>4. CASE UNCHANGED vars
    BY <2>4 DEF vars, TypeOK
  <2> QED BY <2>1, <2>2, <2>3, <2>4 DEF Next
<1> QED BY <1>1, <1>2, PTL DEF Spec

-----------------------------------------------------------------------------
(* Delivery: one item per channel, and nothing sent on it yet.             *)

LEMMA PushDelivery ==
  ASSUME TypeOK, Delivery, NEW ch \in Channels, NEW a \in Accounts,
         NEW n \in Nat, Unused(ch), Push(ch, a, n)
  PROVE  Delivery'
<1>1. CASE HasRoom
  <2> DEFINE new == [seq |-> n, chan |-> ch]
  <2>1. /\ queues' = [queues EXCEPT ![a].items = @ \cup {new}]
        /\ signal' = signal
    BY <1>1 DEF Push
  <2>2. \A b \in Accounts : queues'[b].items =
          IF b = a THEN queues[b].items \cup {new} ELSE queues[b].items
    BY <2>1 DEF TypeOK, Queue
  <2>3. \A b \in Accounts : \A i \in queues[b].items : i.chan # ch
    BY DEF Unused, Buffered
  <2>4. \A b \in Accounts : \A i \in queues[b].items : signal[i.chan] = "empty"
    BY DEF Delivery, Buffered
  <2>5. signal[ch] = "empty" /\ new.chan = ch
    BY DEF Unused
  <2>6. \A i \in Buffered' : signal'[i.chan] = "empty"
    BY <2>1, <2>2, <2>4, <2>5 DEF Buffered
  <2>7. ASSUME NEW b \in Accounts, NEW c \in Accounts,
               NEW i \in queues'[b].items, NEW j \in queues'[c].items,
               i.chan = j.chan
        PROVE  b = c /\ i = j
    <3>1. CASE i = new /\ b = a
      BY <3>1, <2>2, <2>3, <2>5, <2>7
    <3>2. CASE j = new /\ c = a
      BY <3>2, <2>2, <2>3, <2>5, <2>7
    <3>3. CASE i \in queues[b].items /\ j \in queues[c].items
      BY <3>3, <2>7 DEF Delivery
    <3> QED BY <3>1, <3>2, <3>3, <2>2
  <2> QED BY <2>6, <2>7 DEF Delivery
<1>2. CASE ~HasRoom
  <2>1. queues' = queues /\ signal' = [signal EXCEPT ![ch] = "noMoreRoom"]
    BY <1>2 DEF Push
  <2>2. \A i \in Buffered : i.chan # ch /\ i.chan \in Channels
    BY DEF Unused, Buffered, TypeOK, Queue, Item
  <2>3. Buffered' = Buffered
    BY <2>1 DEF Buffered
  <2>4. \A i \in Buffered' : signal'[i.chan] = "empty"
    BY <2>1, <2>2, <2>3 DEF TypeOK, Delivery
  <2> QED BY <2>1, <2>4 DEF Delivery
<1> QED BY <1>1, <1>2

LEMMA UpdateDelivery ==
  ASSUME TypeOK, Delivery, NEW updates,
         \A a \in DOMAIN updates : updates[a] \in Nat, Update(updates)
  PROVE  Delivery'
<1>1. \A a \in Accounts :
        /\ queues'[a].items \subseteq queues[a].items
        /\ a \in DOMAIN updates =>
             queues'[a].items \cap Popped(queues[a], updates[a]) = {}
  BY AfterUpdateIsQueue DEF Update, TypeOK
<1>2. ASSUME NEW b \in Accounts, NEW i \in queues'[b].items
      PROVE  signal'[i.chan] = "empty"
  <2>1. i \in queues[b].items /\ i.chan \in Channels
    BY <1>1, <1>2 DEF TypeOK, Queue, Item
  <2>2. ASSUME NEW v, i.chan \in Notified(updates, v)
        PROVE  FALSE
    <3>1. PICK a \in Accounts \cap DOMAIN updates :
            \E j \in Popped(queues[a], updates[a]) : j.chan = i.chan
      BY <2>2 DEF Notified
    <3>2. PICK j \in Popped(queues[a], updates[a]) : j.chan = i.chan
      BY <3>1
    <3>3. j \in queues[a].items
      BY <3>2, PoppedIsQueued DEF TypeOK
    <3>4. a = b /\ i = j
      BY <2>1, <3>2, <3>3 DEF Delivery
    <3> QED BY <1>1, <1>2, <3>2, <3>4
  <2>3. signal'[i.chan] = signal[i.chan]
    BY <2>1, <2>2 DEF Update
  <2> QED BY <2>1, <2>3 DEF Delivery, Buffered
<1>3. \A i \in Buffered' : signal'[i.chan] = "empty"
  BY <1>2 DEF Buffered
<1> QED BY <1>1, <1>3 DEF Delivery

LEMMA ExpireDelivery ==
  ASSUME TypeOK, Delivery, NEW a \in Accounts, Expire(a)
  PROVE  Delivery'
<1>1. \A b \in Accounts : queues'[b].items = queues[b].items
  BY DEF Expire, TypeOK, Queue
<1> QED BY <1>1 DEF Expire, Delivery, Buffered

(* One step of the manager with its inductive invariant.                   *)
LEMMA StepKeepsInvariant ==
  ASSUME TypeOK, Delivery, [Next]_vars
  PROVE  TypeOK' /\ Delivery'
<1>1. ASSUME NEW ch \in Channels, NEW a \in Accounts, NEW n \in Sequences,
             Unused(ch), Push(ch, a, n)
      PROVE  TypeOK' /\ Delivery'
  BY <1>1, PushTypeOK, PushDelivery, MaxSequenceAssumption DEF Sequences
<1>2. ASSUME NEW updates \in Updates, Update(updates)
      PROVE  TypeOK' /\ Delivery'
  BY <1>2, UpdateTypeOK, UpdateDelivery, UpdatesAreNumbers
<1>3. ASSUME NEW a \in Accounts, Expire(a)
      PROVE  TypeOK' /\ Delivery'
  BY <1>3, ExpireTypeOK, ExpireDelivery
<1>4. CASE UNCHANGED vars
  BY <1>4 DEF vars, TypeOK, Delivery, Buffered
<1> QED BY <1>1, <1>2, <1>3, <1>4 DEF Next

LEMMA InvariantHolds == Spec => [](TypeOK /\ Delivery)
<1>1. Init => TypeOK /\ Delivery
  BY DEF Init, TypeOK, Delivery, Buffered, NewQueue, Queue
<1>2. (TypeOK /\ Delivery) /\ [Next]_vars => (TypeOK /\ Delivery)'
  BY StepKeepsInvariant
<1> QED BY <1>1, <1>2, PTL DEF Spec

(* Every item can be sent its verdict without blocking or panicking.       *)
THEOREM DeliverySafe == Spec => []Delivery
BY InvariantHolds, PTL

-----------------------------------------------------------------------------
(* What a step may never do.                                               *)

LEMMA StepSignalsOnce ==
  ASSUME TypeOK, Delivery, [Next]_vars,
         NEW c \in Channels, signal[c] # "empty"
  PROVE  signal'[c] = signal[c]
<1>1. ASSUME NEW ch \in Channels, NEW a \in Accounts, NEW n \in Sequences,
             Unused(ch), Push(ch, a, n)
      PROVE  signal'[c] = signal[c]
  BY <1>1 DEF Push, Unused, TypeOK
<1>2. ASSUME NEW updates \in Updates, Update(updates)
      PROVE  signal'[c] = signal[c]
  <2>1. ASSUME NEW v, c \in Notified(updates, v)
        PROVE  FALSE
    <3>1. PICK a \in Accounts \cap DOMAIN updates :
            \E j \in Popped(queues[a], updates[a]) : j.chan = c
      BY <2>1 DEF Notified
    <3>2. updates[a] \in Nat
      BY UpdatesAreNumbers
    <3>3. \E j \in queues[a].items : j.chan = c
      BY <3>1, <3>2, PoppedIsQueued DEF TypeOK
    <3> QED BY <3>3 DEF Delivery, Buffered
  <2> QED BY <1>2, <2>1 DEF Update
<1>3. ASSUME NEW a \in Accounts, Expire(a)
      PROVE  signal'[c] = signal[c]
  BY <1>3 DEF Expire
<1> QED BY <1>1, <1>2, <1>3 DEF Next, vars

(* A channel is sent one verdict at most.                                  *)
THEOREM VerdictIsFinal == Spec => SignalledOnce
<1>1. (TypeOK /\ Delivery) /\ [Next]_vars =>
        [\A ch \in Channels :
           signal[ch] # "empty" => signal'[ch] = signal[ch]]_vars
  BY StepSignalsOnce
<1> QED BY <1>1, InvariantHolds, PTL DEF Spec, SignalledOnce

LEMMA StepIsMonotonic ==
  ASSUME TypeOK, [Next]_vars, NEW b \in Accounts,
         queues[b].items # {}, queues'[b].items # {}
  PROVE  queues[b].next <= queues'[b].next
<1>0. queues[b] \in Queue /\ queues[b].next \in Nat
  BY DEF TypeOK, Queue
<1>1. ASSUME NEW ch \in Channels, NEW a \in Accounts, NEW n \in Sequences,
             Push(ch, a, n)
      PROVE  queues'[b].next = queues[b].next
  BY <1>1 DEF Push, TypeOK, Queue
<1>2. ASSUME NEW updates \in Updates, Update(updates)
      PROVE  queues[b].next <= queues'[b].next
  <2>1. CASE b \in DOMAIN updates
    <3>1. queues'[b] = AfterUpdate(queues[b], updates[b])
      BY <1>2, <2>1 DEF Update
    <3>2. updates[b] \in Nat
      BY <2>1, UpdatesAreNumbers
    <3>3. queues'[b].next = NextSequence(queues[b], updates[b])
      BY <1>0, <3>1, <3>2, AfterUpdateIsQueue
    <3>4. queues[b].next <= NextSequence(queues[b], updates[b])
      BY <1>0, <3>2, NextSequenceGrows
    <3> QED BY <3>3, <3>4
  <2>2. CASE b \notin DOMAIN updates
    BY <1>0, <1>2, <2>2 DEF Update
  <2> QED BY <2>1, <2>2
<1>3. ASSUME NEW a \in Accounts, Expire(a)
      PROVE  queues'[b].next = queues[b].next
  BY <1>3 DEF Expire, TypeOK, Queue
<1>4. CASE UNCHANGED vars
  BY <1>0, <1>4 DEF vars
<1> QED BY <1>0, <1>1, <1>2, <1>3, <1>4 DEF Next

(* Stale sequence numbers never take a living queue back.                  *)
THEOREM QueueIsMonotonic == Spec => NextIsMonotonic
<1>1. TypeOK /\ [Next]_vars =>
        [\A a \in Accounts :
           (queues[a].items # {} /\ queues'[a].items # {})
             => queues[a].next <= queues'[a].next]_vars
  BY StepIsMonotonic
<1> QED BY <1>1, TypeCorrect, PTL DEF Spec, NextIsMonotonic

-----------------------------------------------------------------------------
(* The buffer: finite, and never above MaxSize.                            *)

BoundedRoom == IsFiniteSet(Buffered) /\ RoomBound

LEMMA StepKeepsRoom ==
  ASSUME TypeOK, BoundedRoom, [Next]_vars
  PROVE  BoundedRoom'
<1>0. Size \in Nat
  BY FS_CardinalityType DEF BoundedRoom, Size
<1>1. ASSUME Buffered' \subseteq Buffered
      PROVE  BoundedRoom'
  <2>1. IsFiniteSet(Buffered') /\ Cardinality(Buffered') <= Cardinality(Buffered)
    BY <1>1, FS_Subset DEF BoundedRoom
  <2>2. Cardinality(Buffered') \in Nat
    BY <2>1, FS_CardinalityType
  <2> QED BY <1>0, <2>1, <2>2, MaxSizeAssumption DEF BoundedRoom, RoomBound, Size
<1>2. ASSUME NEW ch \in Channels, NEW a \in Accounts, NEW n \in Sequences,
             Push(ch, a, n)
      PROVE  BoundedRoom'
  <2> DEFINE new == [seq |-> n, chan |-> ch]
  <2>1. CASE HasRoom
    <3>1. queues' = [queues EXCEPT ![a].items = @ \cup {new}]
      BY <1>2, <2>1 DEF Push
    <3>2. \A b \in Accounts : queues'[b].items =
            IF b = a THEN queues[b].items \cup {new} ELSE queues[b].items
      BY <3>1 DEF TypeOK, Queue
    <3>3. Buffered' = Buffered \cup {new}
      BY <3>2 DEF Buffered
    <3>4. /\ IsFiniteSet(Buffered')
          /\ Cardinality(Buffered') =
               IF new \in Buffered THEN Cardinality(Buffered)
                                   ELSE Cardinality(Buffered) + 1
      BY <3>3, FS_AddElement DEF BoundedRoom
    <3> QED BY <1>0, <2>1, <3>4, MaxSizeAssumption
            DEF BoundedRoom, RoomBound, Size, HasRoom
  <2>2. CASE ~HasRoom
    BY <1>1, <1>2, <2>2 DEF Push, Buffered
  <2> QED BY <2>1, <2>2
<1>3. ASSUME NEW updates \in Updates, Update(updates)
      PROVE  BoundedRoom'
  <2>1. \A a \in Accounts : queues'[a].items \subseteq queues[a].items
    BY <1>3, AfterUpdateIsQueue, UpdatesAreNumbers DEF Update, TypeOK
  <2> QED BY <1>1, <2>1 DEF Buffered
<1>4. ASSUME NEW a \in Accounts, Expire(a)
      PROVE  BoundedRoom'
  <2>1. \A b \in Accounts : queues'[b].items = queues[b].items
    BY <1>4 DEF Expire, TypeOK, Queue
  <2> QED BY <1>1, <2>1 DEF Buffered
<1>5. CASE UNCHANGED vars
  BY <1>1, <1>5 DEF vars, Buffered
<1> QED BY <1>2, <1>3, <1>4, <1>5 DEF Next

(* The check in Push bounds the buffered submissions of all accounts.      *)
THEOREM RoomIsBounded == Spec => []RoomBound
<1>1. Init => BoundedRoom
  <2> SUFFICES ASSUME Init PROVE BoundedRoom
    OBVIOUS
  <2>1. Buffered = {}
    BY DEF Init, Buffered, NewQueue
  <2> QED BY <2>1, FS_EmptySet, MaxSizeAssumption DEF BoundedRoom, RoomBound, Size
<1>2. TypeOK /\ BoundedRoom /\ [Next]_vars => BoundedRoom'
  BY StepKeepsRoom
<1>3. BoundedRoom => RoomBound
  BY DEF BoundedRoom
<1> QED BY <1>1, <1>2, <1>3, TypeCorrect, PTL DEF Spec
=============================================================================
