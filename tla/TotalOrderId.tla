---------------------------- MODULE TotalOrderId ----------------------------
(***************************************************************************)
(* Total order ids: the 64-bit numbers that ledgers, transactions and      *)
(* operations have in the history database. Ingestion, clearing, reaping   *)
(* and the queries by transaction or operation all select rows by ranges   *)
(* of them, and Ingestion.tla speaks of the rows of a ledger instead: the  *)
(* theorems show that the ranges are the ledgers, for all ids.             *)
(***************************************************************************)
EXTENDS Integers, TLAPS

\* The values of a field of 32, 20 and 12 bits, and of an int32.
LedgerSpan == 4294967296
TransactionSpan == 1048576
OperationSpan == 4096
MaxInt32 == 2147483647

TransactionMask == TransactionSpan - 1
OperationMask == OperationSpan - 1

\* The numbers from 0 to n.
UpTo(n) == {k \in Nat : k <= n}

\* New.
New(ledger, tx, op) ==
  [LedgerSequence |-> ledger, TransactionOrder |-> tx, OperationOrder |-> op]

\* What ToInt64 does not panic on. Negative orders are let through.
Accepted(id) ==
  /\ id.LedgerSequence >= 0
  /\ id.TransactionOrder <= TransactionMask
  /\ id.OperationOrder <= OperationMask

(* ToInt64 masks each field and packs them.                                *)
ToInt64(id) ==
  (id.LedgerSequence % LedgerSpan) * LedgerSpan
    + (id.TransactionOrder % TransactionSpan) * OperationSpan
    + (id.OperationOrder % OperationSpan)

\* A conversion to int32 of a number of 32 bits.
ToInt32(n) == IF n > MaxInt32 THEN n - LedgerSpan ELSE n

Parse(n) ==
  New(ToInt32((n \div LedgerSpan) % LedgerSpan),
      (n \div OperationSpan) % TransactionSpan,
      n % OperationSpan)

\* On overflow the ledger moves on, and the transaction stays.
IncOperationOrder(id) ==
  IF id.OperationOrder + 1 > OperationMask
  THEN New(id.LedgerSequence + 1, id.TransactionOrder, 0)
  ELSE New(id.LedgerSequence, id.TransactionOrder, id.OperationOrder + 1)

AfterLedger(seq) == New(seq, TransactionMask, OperationMask)

-----------------------------------------------------------------------------
(* The ids ingestion gives, and the ranges of ids that are selected.       *)

\* Cursor.LedgerID, TransactionID and OperationID; indices start at 0.
LedgerID(lg) == ToInt64(New(lg, 0, 0))
TransactionID(lg, tx) == ToInt64(New(lg, tx + 1, 0))
OperationID(lg, tx, op) == ToInt64(New(lg, tx + 1, op + 1))

Between(start, end) == {n \in Nat : start <= n /\ n < end}

\* Cursor.LedgerRange.
LedgerRange(lg) ==
  Between(IF lg = 1 THEN 0 ELSE ToInt64(New(lg, 0, 0)), ToInt64(New(lg + 1, 0, 0)))

\* reap.System.ClearBefore.
BeforeRange(seq) == Between(0, ToInt64(New(seq, 0, 0)))

\* OperationsQ.ForTransaction and EffectsQ.ForTransaction.
TransactionRange(n) ==
  LET id == Parse(n) IN
  Between(ToInt64(id), ToInt64([id EXCEPT !.TransactionOrder = @ + 1]))

\* EffectsQ.ForOperation.
OperationRange(n) ==
  Between(ToInt64(Parse(n)), ToInt64(IncOperationOrder(Parse(n))))

\* GetCursor for "now".
NowCursor(latest) == ToInt64(AfterLedger(latest))

-----------------------------------------------------------------------------
\* Ids of rows: a ledger that exists, and fields within their widths.
Ledgers == UpTo(MaxInt32 - 1)
Ids == [LedgerSequence : Ledgers,
        TransactionOrder : UpTo(TransactionMask),
        OperationOrder : UpTo(OperationMask)]

(* The fields of a row's id are within their widths.                       *)
LEMMA Widths ==
  ASSUME NEW id \in Ids
  PROVE  /\ id = New(id.LedgerSequence, id.TransactionOrder, id.OperationOrder)
         /\ id.LedgerSequence \in Nat /\ id.LedgerSequence <= 2147483646
         /\ id.TransactionOrder \in Nat /\ id.TransactionOrder <= 1048575
         /\ id.OperationOrder \in Nat /\ id.OperationOrder <= 4095
  <1>1. /\ id.LedgerSequence \in UpTo(MaxInt32 - 1)
        /\ id.TransactionOrder \in UpTo(TransactionMask)
        /\ id.OperationOrder \in UpTo(OperationMask)
        /\ id = New(id.LedgerSequence, id.TransactionOrder, id.OperationOrder)
    BY SMT DEF Ids, Ledgers, New
  <1> QED BY <1>1, SMT DEF UpTo, MaxInt32, TransactionMask, TransactionSpan,
                           OperationMask, OperationSpan

(* Packing within the widths is a sum.                                     *)
LEMMA Packed ==
  ASSUME NEW l \in Nat, l <= 2147483647, NEW t \in Nat, t <= 1048575,
         NEW o \in Nat, o <= 4095
  PROVE  /\ ToInt64(New(l, t, o)) = l * 4294967296 + t * 4096 + o
         /\ ToInt64(New(l, t, o)) \in Nat
  <1>1. l % 4294967296 = l /\ t % 1048576 = t /\ o % 4096 = o
    BY SMT
  <1>2. ToInt64(New(l, t, o)) = l * 4294967296 + t * 4096 + o
    BY <1>1, SMT DEF ToInt64, New, LedgerSpan, TransactionSpan, OperationSpan
  <1> QED BY <1>2, SMT

(* Unpacking finds the fields that were packed.                            *)
LEMMA Unpacked ==
  ASSUME NEW l \in Nat, l <= 2147483647, NEW t \in Nat, t <= 1048575,
         NEW o \in Nat, o <= 4095,
         NEW n \in Nat, n = l * 4294967296 + t * 4096 + o
  PROVE  Parse(n) = New(l, t, o)
  <1>1. n \div 4294967296 = l /\ n % 4096 = o
    BY SMT
  <1>2. n \div 4096 = l * 1048576 + t
    BY SMT
  <1>3. (l * 1048576 + t) % 1048576 = t
    BY SMT
  <1>4. l % 4294967296 = l /\ ~(l > 2147483647)
    BY SMT
  <1> QED BY <1>1, <1>2, <1>3, <1>4, SMT
          DEF Parse, ToInt32, LedgerSpan, TransactionSpan, OperationSpan, MaxInt32

(* The number of a row's id.                                               *)
LEMMA Number ==
  ASSUME NEW id \in Ids
  PROVE  /\ ToInt64(id) = id.LedgerSequence * 4294967296
                            + id.TransactionOrder * 4096 + id.OperationOrder
         /\ ToInt64(id) \in Nat
  <1> DEFINE l == id.LedgerSequence
             t == id.TransactionOrder
             o == id.OperationOrder
  <1>1. /\ id = New(l, t, o)
        /\ l \in Nat /\ l <= 2147483647
        /\ t \in Nat /\ t <= 1048575
        /\ o \in Nat /\ o <= 4095
    BY Widths, SMT
  <1> HIDE DEF l, t, o
  <1>2. /\ ToInt64(New(l, t, o)) = l * 4294967296 + t * 4096 + o
        /\ ToInt64(New(l, t, o)) \in Nat
    BY <1>1, Packed, SMT
  <1> QED BY <1>1, <1>2, SMT DEF l, t, o

-----------------------------------------------------------------------------
(* ToInt64 accepts every row's id and Parse is its inverse: a number tells *)
(* its ledger, its transaction and its operation.                          *)
THEOREM ParseInverts ==
  \A id \in Ids : Accepted(id) /\ Parse(ToInt64(id)) = id
  <1> TAKE id \in Ids
  <1> DEFINE l == id.LedgerSequence
             t == id.TransactionOrder
             o == id.OperationOrder
             n == ToInt64(id)
  <1>1. /\ id = New(l, t, o)
        /\ l \in Nat /\ l <= 2147483647
        /\ t \in Nat /\ t <= 1048575
        /\ o \in Nat /\ o <= 4095
    BY Widths, SMT
  <1>2. n = l * 4294967296 + t * 4096 + o /\ n \in Nat
    BY Number, SMT
  <1>3. Accepted(id)
    BY <1>1, SMT DEF Accepted, TransactionMask, TransactionSpan, OperationMask,
                     OperationSpan
  <1> HIDE DEF l, t, o, n
  <1>4. Parse(n) = New(l, t, o)
    BY <1>1, <1>2, Unpacked, SMT
  <1> QED BY <1>1, <1>3, <1>4, SMT DEF n

\* The order in which the network applied what two ids stand for.
Before(a, b) ==
  \/ a.LedgerSequence < b.LedgerSequence
  \/ /\ a.LedgerSequence = b.LedgerSequence
     /\ \/ a.TransactionOrder < b.TransactionOrder
        \/ /\ a.TransactionOrder = b.TransactionOrder
           /\ a.OperationOrder < b.OperationOrder

(* The sum of three fields grows as the fields do, the first before all.    *)
LEMMA InOrder ==
  ASSUME NEW l \in Nat, NEW m \in Nat,
         NEW t \in Nat, t <= 1048575, NEW u \in Nat, u <= 1048575,
         NEW o \in Nat, o <= 4095, NEW p \in Nat, p <= 4095
  PROVE  l * 4294967296 + t * 4096 + o < m * 4294967296 + u * 4096 + p
           <=> \/ l < m
               \/ /\ l = m
                  /\ \/ t < u
                     \/ t = u /\ o < p
  BY SMT

(* Paging by the number of an id is paging in the order of the network.    *)
THEOREM OrderIsTotal ==
  \A a, b \in Ids : ToInt64(a) < ToInt64(b) <=> Before(a, b)
  <1> TAKE a, b \in Ids
  <1>1. /\ a.LedgerSequence \in Nat /\ b.LedgerSequence \in Nat
        /\ a.TransactionOrder \in Nat /\ a.TransactionOrder <= 1048575
        /\ b.TransactionOrder \in Nat /\ b.TransactionOrder <= 1048575
        /\ a.OperationOrder \in Nat /\ a.OperationOrder <= 4095
        /\ b.OperationOrder \in Nat /\ b.OperationOrder <= 4095
    BY Widths, SMT
  <1>2. /\ ToInt64(a) = a.LedgerSequence * 4294967296
                          + a.TransactionOrder * 4096 + a.OperationOrder
        /\ ToInt64(b) = b.LedgerSequence * 4294967296
                          + b.TransactionOrder * 4096 + b.OperationOrder
    BY Number, SMT
  <1> DEFINE l == a.LedgerSequence
             t == a.TransactionOrder
             o == a.OperationOrder
             m == b.LedgerSequence
             u == b.TransactionOrder
             p == b.OperationOrder
  <1>3. Before(a, b) <=> l < m \/ (l = m /\ (t < u \/ (t = u /\ o < p)))
    BY DEF Before
  <1> HIDE DEF l, t, o, m, u, p
  <1>4. l * 4294967296 + t * 4096 + o < m * 4294967296 + u * 4096 + p
          <=> l < m \/ (l = m /\ (t < u \/ (t = u /\ o < p)))
    <2>1. /\ l \in Nat /\ m \in Nat /\ t \in Nat /\ t <= 1048575
          /\ u \in Nat /\ u <= 1048575 /\ o \in Nat /\ o <= 4095
          /\ p \in Nat /\ p <= 4095
      BY <1>1 DEF l, t, o, m, u, p
    <2> QED BY <2>1, InOrder, SMT
  <1>5. /\ ToInt64(a) = l * 4294967296 + t * 4096 + o
        /\ ToInt64(b) = m * 4294967296 + u * 4096 + p
    BY <1>2 DEF l, t, o, m, u, p
  <1> QED BY <1>3, <1>4, <1>5

(* Clearing the range of a ledger, or everything before a ledger, deletes  *)
(* the rows of those ledgers and no other: the first ledger's range also   *)
(* holds the rows of ledger 0, which the network does not have.            *)
THEOREM RangesAreLedgers ==
  \A id \in Ids, lg \in Ledgers :
    lg >= 1 /\ id.LedgerSequence >= 1 =>
      /\ ToInt64(id) \in LedgerRange(lg) <=> id.LedgerSequence = lg
      /\ ToInt64(id) \in BeforeRange(lg) <=> id.LedgerSequence < lg
  <1> SUFFICES ASSUME NEW id \in Ids, NEW lg \in Ledgers,
                      lg >= 1, id.LedgerSequence >= 1
               PROVE  /\ ToInt64(id) \in LedgerRange(lg) <=> id.LedgerSequence = lg
                      /\ ToInt64(id) \in BeforeRange(lg) <=> id.LedgerSequence < lg
    OBVIOUS
  <1>1. /\ id.LedgerSequence \in Nat
        /\ id.TransactionOrder \in Nat /\ id.TransactionOrder <= 1048575
        /\ id.OperationOrder \in Nat /\ id.OperationOrder <= 4095
    BY Widths, SMT
  <1>2. /\ ToInt64(id) = id.LedgerSequence * 4294967296
                           + id.TransactionOrder * 4096 + id.OperationOrder
        /\ ToInt64(id) \in Nat
    BY Number, SMT
  <1>3. lg \in Nat /\ lg <= 2147483646
    BY SMT DEF Ledgers, UpTo, MaxInt32
  <1>4. ToInt64(New(lg, 0, 0)) = lg * 4294967296
    BY <1>3, Packed, SMT
  <1>5. ToInt64(New(lg + 1, 0, 0)) = (lg + 1) * 4294967296
    <2>1. lg + 1 \in Nat /\ lg + 1 <= 2147483647
      BY <1>3, SMT
    <2> QED BY <2>1, Packed, SMT
  <1>6. ToInt64(id) \in LedgerRange(lg) <=> id.LedgerSequence = lg
    BY <1>1, <1>2, <1>3, <1>4, <1>5, SMT DEF LedgerRange, Between
  <1>7. ToInt64(id) \in BeforeRange(lg) <=> id.LedgerSequence < lg
    BY <1>1, <1>2, <1>3, <1>4, SMT DEF BeforeRange, Between
  <1> QED BY <1>6, <1>7, SMT

(* The rows of a transaction are those between its id and the next: the    *)
(* last transaction a ledger has room for is out of the question, ToInt64  *)
(* panics on its successor.                                                *)
THEOREM TransactionRangeIsExact ==
  \A id, tx \in Ids :
    tx.OperationOrder = 0 /\ tx.TransactionOrder < TransactionMask =>
      (ToInt64(id) \in TransactionRange(ToInt64(tx))
         <=> /\ id.LedgerSequence = tx.LedgerSequence
             /\ id.TransactionOrder = tx.TransactionOrder)
  <1> SUFFICES ASSUME NEW id \in Ids, NEW tx \in Ids, tx.OperationOrder = 0,
                      tx.TransactionOrder < TransactionMask
               PROVE  ToInt64(id) \in TransactionRange(ToInt64(tx))
                        <=> /\ id.LedgerSequence = tx.LedgerSequence
                            /\ id.TransactionOrder = tx.TransactionOrder
    OBVIOUS
  <1> DEFINE l == tx.LedgerSequence
             t == tx.TransactionOrder
  <1>1. /\ tx = New(l, t, 0)
        /\ l \in Nat /\ l <= 2147483647
        /\ t \in Nat /\ t <= 1048574
    BY Widths, SMT DEF TransactionMask, TransactionSpan
  <1>2. /\ id.LedgerSequence \in Nat
        /\ id.TransactionOrder \in Nat /\ id.TransactionOrder <= 1048575
        /\ id.OperationOrder \in Nat /\ id.OperationOrder <= 4095
    BY Widths, SMT
  <1>3. /\ ToInt64(id) = id.LedgerSequence * 4294967296
                           + id.TransactionOrder * 4096 + id.OperationOrder
        /\ ToInt64(id) \in Nat
    BY Number, SMT
  <1>4. Parse(ToInt64(tx)) = tx
    BY ParseInverts
  <1>5. [tx EXCEPT !.TransactionOrder = @ + 1] = New(l, t + 1, 0)
    BY <1>1, SMT DEF New
  <1> HIDE DEF l, t
  <1>6. ToInt64(New(l, t, 0)) = l * 4294967296 + t * 4096
    BY <1>1, Packed, SMT
  <1>7. ToInt64(New(l, t + 1, 0)) = l * 4294967296 + (t + 1) * 4096
    <2>1. t + 1 \in Nat /\ t + 1 <= 1048575
      BY <1>1, SMT
    <2> QED BY <1>1, <2>1, Packed, SMT
  <1>8. TransactionRange(ToInt64(tx)) =
          {n \in Nat : /\ l * 4294967296 + t * 4096 <= n
                       /\ n < l * 4294967296 + (t + 1) * 4096}
    BY <1>1, <1>4, <1>5, <1>6, <1>7, SMT DEF TransactionRange, Between
  <1>9. ToInt64(id) \in TransactionRange(ToInt64(tx))
          <=> id.LedgerSequence = l /\ id.TransactionOrder = t
    BY <1>1, <1>2, <1>3, <1>8, SMTT(30)
  <1> QED BY <1>9 DEF l, t

(* The rows of an operation are those of its id alone, and the next id is  *)
(* one higher: up to the last operation a transaction has room for, from   *)
(* which IncOperationOrder goes to the same transaction of the next        *)
(* ledger.                                                                 *)
THEOREM OperationRangeIsExact ==
  \A id, op \in Ids :
    op.OperationOrder < OperationMask =>
      (ToInt64(id) \in OperationRange(ToInt64(op)) <=> id = op)
  <1> SUFFICES ASSUME NEW id \in Ids, NEW op \in Ids,
                      op.OperationOrder < OperationMask
               PROVE  ToInt64(id) \in OperationRange(ToInt64(op)) <=> id = op
    OBVIOUS
  <1> DEFINE l == op.LedgerSequence
             t == op.TransactionOrder
             o == op.OperationOrder
  <1>1. /\ op = New(l, t, o)
        /\ l \in Nat /\ l <= 2147483647
        /\ t \in Nat /\ t <= 1048575
        /\ o \in Nat /\ o <= 4094
    BY Widths, SMT DEF OperationMask, OperationSpan
  <1>2. ToInt64(id) \in Nat /\ Parse(ToInt64(id)) = id /\ Parse(ToInt64(op)) = op
    BY Number, ParseInverts
  <1>3. ToInt64(op) = l * 4294967296 + t * 4096 + o /\ ToInt64(op) \in Nat
    BY Number, SMT
  <1>4. IncOperationOrder(op) = New(l, t, o + 1)
    BY <1>1, SMT DEF IncOperationOrder, OperationMask, OperationSpan
  <1> HIDE DEF l, t, o
  <1>5. ToInt64(New(l, t, o + 1)) = l * 4294967296 + t * 4096 + o + 1
    <2>1. o + 1 \in Nat /\ o + 1 <= 4095
      BY <1>1, SMT
    <2> QED BY <1>1, <2>1, Packed, SMT
  <1>6. ToInt64(id) \in OperationRange(ToInt64(op)) <=> ToInt64(id) = ToInt64(op)
    BY <1>1, <1>2, <1>3, <1>4, <1>5, SMT DEF OperationRange, Between
  <1>7. ToInt64(id) = ToInt64(op) <=> id = op
    BY <1>2
  <1> QED BY <1>6, <1>7

(* The cursor "now" lies behind everything up to the latest ledger, and    *)
(* before everything later.                                                *)
THEOREM NowIsAfterTheLatest ==
  \A id \in Ids, latest \in Ledgers :
    ToInt64(id) <= NowCursor(latest) <=> id.LedgerSequence <= latest
  <1> SUFFICES ASSUME NEW id \in Ids, NEW latest \in Ledgers
               PROVE  ToInt64(id) <= NowCursor(latest)
                        <=> id.LedgerSequence <= latest
    OBVIOUS
  <1>1. /\ id.LedgerSequence \in Nat
        /\ id.TransactionOrder \in Nat /\ id.TransactionOrder <= 1048575
        /\ id.OperationOrder \in Nat /\ id.OperationOrder <= 4095
    BY Widths, SMT
  <1>2. /\ ToInt64(id) = id.LedgerSequence * 4294967296
                           + id.TransactionOrder * 4096 + id.OperationOrder
    BY Number, SMT
  <1>3. latest \in Nat /\ latest <= 2147483646
    BY SMT DEF Ledgers, UpTo, MaxInt32
  <1>4. TransactionMask = 1048575 /\ OperationMask = 4095
    BY SMT DEF TransactionMask, TransactionSpan, OperationMask, OperationSpan
  <1>5. ToInt64(New(latest, 1048575, 4095)) = latest * 4294967296 + 1048575 * 4096 + 4095
    BY <1>3, Packed, SMT
  <1> QED BY <1>1, <1>2, <1>3, <1>4, <1>5, SMT DEF NowCursor, AfterLedger
=============================================================================
