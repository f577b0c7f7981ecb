----------------------------- MODULE ReplayBuffer -----------------------------
(***************************************************************************)
(* ReplayBuffer, the plain ring for low-dimensional observations: one row  *)
(* of numpy columns per slot, an insert index and a size.  insert runs     *)
(* under the lock of the data store and wraps around; bulk_insert, which   *)
(* preload_demos_arrays uses, writes a slice and does not wrap.            *)
(***************************************************************************)
EXTENDS Naturals, Sequences

CONSTANTS Capacity, \* slots of the ring
          Rows,     \* what a slot can hold once written
          NoRow,    \* a slot never written (np.empty)
          MaxBulk   \* bound: rows of one bulk_insert

RingAssumption ==
  /\ Capacity \in Nat \ {0}
  /\ MaxBulk \in Nat \ {0}
  /\ NoRow \notin Rows

VARIABLES row,      \* dataset_dict, its columns put together
          index,    \* _insert_index
          size      \* _size

vars == <<row, index, size>>

Slots == 0..(Capacity - 1)

Init ==
  /\ row = [i \in Slots |-> NoRow]
  /\ index = 0
  /\ size = 0

\* Mutant: the size is not capped.
AtMostAny(n) == n

AtMost(n) == IF n < Capacity THEN n ELSE Capacity

-----------------------------------------------------------------------------
\* Mutant: an index at the capacity is taken for the last slot's.
InRangeOrEnd == index <= Capacity

\* numpy raises IndexError for an index at or above the capacity.
InRange == index < Capacity

\* Mutant: the index wraps one slot early.
InsertWrapsEarly(r) ==
  /\ InRange
  /\ row' = [row EXCEPT ![index] = r]
  /\ index' = IF index + 2 < Capacity THEN index + 1 ELSE 0
  /\ size' = AtMost(size + 1)

Insert(r) ==
  /\ InRange
  /\ row' = [row EXCEPT ![index] = r]
  /\ index' = (index + 1) % Capacity
  /\ size' = AtMost(size + 1)

(***************************************************************************)
(* bulk_insert: the assertion, the slices of every column at the index     *)
(* read before, then the index, which is not taken modulo the capacity.    *)
(***************************************************************************)
Fits(n) == index + n <= Capacity

BulkWrite(at, rs) ==
  row' = [i \in Slots |->
            IF i \in at..(at + Len(rs) - 1) THEN rs[i - at + 1] ELSE row[i]]

BulkAdvance(n) ==
  /\ index' = index + n
  /\ size' = AtMost(size + n)

BulkInsert(rs) ==
  /\ Fits(Len(rs))
  /\ BulkWrite(index, rs)
  /\ BulkAdvance(Len(rs))

Next ==
  \/ \E r \in Rows : Insert(r)
  \/ \E n \in 1..MaxBulk : \E rs \in [1..n -> Rows] : BulkInsert(rs)

Spec == Init /\ [][Next]_vars

-----------------------------------------------------------------------------
\* sample draws from range(len(self)), with replacement.
Sampleable == 0..(size - 1)

(***************************************************************************)
(* The rows that can be sampled, oldest first.  A ring that is not full    *)
(* has never wrapped; a bulk_insert may leave a full one at its end.       *)
(***************************************************************************)
Position(k) ==
  LET p == index + Capacity - size + k - 1
  IN  IF p < Capacity THEN p ELSE p - Capacity

Live == [k \in 1..size |-> row[Position(k)]]

TypeOK ==
  /\ row \in [Slots -> Rows \cup {NoRow}]
  /\ index \in 0..Capacity
  /\ size \in 0..Capacity

(***************************************************************************)
(* No sample returns a slot np.empty left behind: what is below the size   *)
(* was inserted, whatever mix of insert and bulk_insert filled the ring.   *)
(***************************************************************************)
SampledWasInserted == \A i \in Sampleable : row[i] \in Rows

(***************************************************************************)
(* insert and bulk_insert slide one window over the history: no row is     *)
(* lost, repeated or reordered at a wrap, and only the oldest give way.    *)
(***************************************************************************)
Log == INSTANCE ReplayLog
         WITH Transitions <- Rows, MaxEvict <- MaxBulk, Batches <- 1..MaxBulk,
              log <- Live

SlidesAsLog == Log!Spec
==============================================================================
