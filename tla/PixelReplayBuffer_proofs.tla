---------------------- MODULE PixelReplayBuffer_proofs ----------------------
(***************************************************************************)
(* The pixel replay buffer for every capacity, stack depth, set of images  *)
(* and sequence of insertions: types, termination of the rejection loop of *)
(* sample, the window theorem, and the refinement of the log.              *)
(***************************************************************************)
EXTENDS PixelReplayBuffer, FiniteSetTheorems, SequenceTheorems, TLAPS

-----------------------------------------------------------------------------
(***************************************************************************)
(* The inductive invariant.  Slots are spoken of by their distance ahead   *)
(* of the insert index: the next raw write goes to the slot with Ahead 0,  *)
(* the newest row is at Ahead = Capacity - 1.                              *)
(***************************************************************************)

\* Every slot whose window the next raw write would break is not correct.
Horizon ==
  /\ size = Capacity => \A i \in Slots : Ahead(i) < NumStack => ~correct[i]
  /\ size < Capacity =>
       /\ index = size
       /\ \A i \in Slots : i >= size \/ i < NumStack => ~correct[i]

\* The newest row is there, and can be sampled.
NewestThere ==
  /\ ~first => size > 0
  /\ size > 0 => /\ size > NumStack
                 /\ \A i \in Slots : Ahead(i) = Capacity - 1 =>
                      rows[i] \in Rows /\ correct[i]
  /\ \A i \in Slots : correct[i] => rows[i] \in Rows

\* The open episode's last NumStack frames are the newest row's.
TailFrames ==
  ~first /\ Newest.inStep =>
    \A i \in Slots : Ahead(i) >= Capacity - NumStack =>
      frames[i] = Newest.pix[Ahead(i) + NumStack + 1 - Capacity]

Windows ==
  \A i \in Slots :
    correct[i] /\ i >= NumStack /\ rows[i].inStep =>
      \A k \in 0..NumStack : frames[i - NumStack + k] = rows[i].pix[k]

IInv == TypeOK /\ Horizon /\ NewestThere /\ TailFrames /\ Windows

-----------------------------------------------------------------------------
(***************************************************************************)
(* Going round the ring once: the only fact about % the proofs use.        *)
(***************************************************************************)
LEMMA RoundOnce ==
  \A n \in Nat \ {0} : \A x \in 0..(2 * n - 1) :
    x % n = IF x < n THEN x ELSE x - n
  <1> SUFFICES ASSUME NEW n \in Nat \ {0}, NEW x \in 0..(2 * n - 1)
               PROVE  x % n = IF x < n THEN x ELSE x - n
    OBVIOUS
  <1>1. CASE x < n
    BY <1>1, SMT
  <1>2. CASE x >= n
    <2>1. x = n * 1 + (x - n) /\ x - n \in 0..(n - 1)
      BY <1>2, SMT
    <2> QED
      BY <1>2, <2>1, SMT
  <1> QED
    BY <1>1, <1>2, SMT

(***************************************************************************)
(* Distances and slots without %, for any insert index.                    *)
(***************************************************************************)
LEMMA RingFacts ==
  /\ \A idx, i \in Slots :
       (i + Capacity - idx) % Capacity =
         IF i >= idx THEN i - idx ELSE i + Capacity - idx
  /\ \A idx \in Slots : \A k \in 0..Capacity :
       (idx + k) % Capacity =
         IF idx + k < Capacity THEN idx + k ELSE idx + k - Capacity
  /\ \A idx \in Slots :
       (idx + Capacity - 1) % Capacity =
         IF idx = 0 THEN Capacity - 1 ELSE idx - 1
  <1> USE SizesAssumption DEF Slots
  <1>0. \A x \in 0..(2 * Capacity - 1) :
          x % Capacity = IF x < Capacity THEN x ELSE x - Capacity
    <2>1. Capacity \in Nat \ {0}
      OBVIOUS
    <2> QED
      BY <2>1, RoundOnce, Zenon
  <1>1. ASSUME NEW idx \in Slots, NEW i \in Slots
        PROVE  (i + Capacity - idx) % Capacity =
                 IF i >= idx THEN i - idx ELSE i + Capacity - idx
    <2>1. i + Capacity - idx \in 0..(2 * Capacity - 1)
      OBVIOUS
    <2> QED
      BY <2>1, <1>0
  <1>2. ASSUME NEW idx \in Slots, NEW k \in 0..Capacity
        PROVE  (idx + k) % Capacity =
                 IF idx + k < Capacity THEN idx + k ELSE idx + k - Capacity
    <2>1. idx + k \in 0..(2 * Capacity - 1)
      OBVIOUS
    <2> QED
      BY <2>1, <1>0
  <1>3. ASSUME NEW idx \in Slots
        PROVE  (idx + Capacity - 1) % Capacity =
                 IF idx = 0 THEN Capacity - 1 ELSE idx - 1
    <2>1. idx + Capacity - 1 \in 0..(2 * Capacity - 1)
      OBVIOUS
    <2> QED
      BY <2>1, <1>0
  <1> QED
    BY <1>1, <1>2, <1>3

(***************************************************************************)
(* Which slots an insert takes out of the sample: the NumStack next ones   *)
(* once the ring is full, the lead frames at its front before that.        *)
(***************************************************************************)
LEMMA SpoiledFacts ==
  ASSUME NEW idx \in Slots, NEW len \in (NumStack + 1)..Capacity,
         len < Capacity => idx = len,
         NEW i \in Slots
  PROVE  i \in Spoiled(idx, len) <=>
           IF len = Capacity
           THEN (IF i >= idx THEN i - idx ELSE i + Capacity - idx) < NumStack
           ELSE i < NumStack
  <1> USE SizesAssumption DEF Slots
  <1>0. \A x \in 0..(2 * len - 1) : x % len = IF x < len THEN x ELSE x - len
    <2>1. len \in Nat \ {0}
      OBVIOUS
    <2> QED
      BY <2>1, RoundOnce
  <1>1. CASE len = Capacity
    <2>1. ASSUME NEW k \in 0..(NumStack - 1)
          PROVE  (idx + k) % len = IF idx + k < len THEN idx + k ELSE idx + k - len
      <3>1. len \in Nat \ {0} /\ idx + k \in 0..(2 * len - 1)
        BY <1>1
      <3> QED
        BY <3>1, <1>0
    <2>2. i \in Spoiled(idx, len) <=>
            \E k \in 0..(NumStack - 1) :
              i = IF idx + k < len THEN idx + k ELSE idx + k - len
      BY <2>1 DEF Spoiled
    <2>3. ASSUME i >= idx, i - idx < NumStack PROVE i \in Spoiled(idx, len)
      <3>1. i - idx \in 0..(NumStack - 1) /\ i = idx + (i - idx) /\ i < len
        BY <1>1, <2>3
      <3> QED
        BY <2>2, <3>1
    <2>4. ASSUME i < idx, i + Capacity - idx < NumStack PROVE i \in Spoiled(idx, len)
      <3>1. /\ i + Capacity - idx \in 0..(NumStack - 1)
            /\ i = (idx + (i + Capacity - idx)) - len
            /\ ~(idx + (i + Capacity - idx) < len)
        BY <1>1, <2>4
      <3> QED
        BY <2>2, <3>1
    <2>5. i \in Spoiled(idx, len) =>
            (IF i >= idx THEN i - idx ELSE i + Capacity - idx) < NumStack
      BY <1>1, <2>2
    <2> QED
      BY <1>1, <2>3, <2>4, <2>5
  <1>2. CASE len < Capacity
    <2>1. ASSUME NEW k \in 0..(NumStack - 1)
          PROVE  (idx + k) % len = k
      <3>1. len \in Nat \ {0} /\ idx + k \in 0..(2 * len - 1)
        BY <1>2
      <3>2. (idx + k) % len = IF idx + k < len THEN idx + k ELSE idx + k - len
        BY <3>1, <1>0
      <3> QED
        BY <1>2, <3>2
    <2>2. i \in Spoiled(idx, len) <=> \E k \in 0..(NumStack - 1) : i = k
      BY <2>1 DEF Spoiled
    <2> QED
      BY <1>2, <2>2
  <1> QED
    BY <1>1, <1>2

-----------------------------------------------------------------------------
(***************************************************************************)
(* Where one insert leaves the ring: how far it moves, and what that does  *)
(* to every slot's distance.                                               *)
(***************************************************************************)
LEMMA InsertMoves ==
  ASSUME TypeOK, Horizon, NewestThere, NEW tr \in Transitions, Insert(tr)
  PROVE  /\ Lead \in {0, NumStack}
         /\ index' \in Slots
         /\ size' \in (NumStack + 1)..Capacity
         /\ size' < Capacity => index' = size' /\ size' = size + Lead + 1
         /\ \A i \in Slots : Ahead(i) = IF i >= index THEN i - index
                                        ELSE i + Capacity - index
         /\ \A i \in Slots : Ahead(i) \in 0..(Capacity - 1)
         /\ \A i \in Slots :
              Ahead(i)' = IF Ahead(i) > Lead THEN Ahead(i) - Lead - 1
                          ELSE Ahead(i) + Capacity - Lead - 1
         /\ \A i \in Slots :
              i \in Spoiled(index', size') <=>
                IF size' = Capacity THEN Ahead(i)' < NumStack ELSE i < NumStack
  <1> USE SizesAssumption DEF TypeOK, Slots
  <1>1. Lead \in {0, NumStack} /\ (first => Lead = NumStack)
    BY DEF Lead
  <1>2. index' = IF index + (Lead + 1) < Capacity THEN index + (Lead + 1)
                 ELSE index + (Lead + 1) - Capacity
    <2>1. Lead + 1 \in 0..Capacity
      BY <1>1
    <2>2. index' = (index + (Lead + 1)) % Capacity
      BY DEF Insert, Slot
    <2> QED
      BY <2>1, <2>2, RingFacts, Zenon
  <1>3. index' \in Slots
    BY <1>1, <1>2
  <1>4. size' \in (NumStack + 1)..Capacity
    BY <1>1 DEF Insert, NewSize, NewestThere
  <1>5. size' < Capacity => index' = size' /\ size' = size + Lead + 1
    <2>1. size' = IF size + Lead + 1 < Capacity THEN size + Lead + 1 ELSE Capacity
      BY DEF Insert, NewSize
    <2>2. size < Capacity => index = size
      BY DEF Horizon
    <2> HIDE DEF TypeOK
    <2>3. size \in 0..Capacity /\ index \in 0..(Capacity - 1)
      BY DEF TypeOK
    <2>4. ASSUME size' < Capacity PROVE size + Lead + 1 < Capacity
      BY <2>1, <2>4
    <2> QED
      BY <1>1, <1>2, <2>1, <2>2, <2>3, <2>4
  <1>6. \A i \in Slots : Ahead(i) = IF i >= index THEN i - index
                                    ELSE i + Capacity - index
    BY RingFacts, Zenon DEF Ahead
  <1>7. \A i \in Slots : Ahead(i)' = IF i >= index' THEN i - index'
                                     ELSE i + Capacity - index'
    BY <1>3, RingFacts, Zenon DEF Ahead
  <1>8. ASSUME NEW i \in Slots
        PROVE  Ahead(i)' = IF Ahead(i) > Lead THEN Ahead(i) - Lead - 1
                           ELSE Ahead(i) + Capacity - Lead - 1
    <2> HIDE DEF Slots
    <2>1. Ahead(i) = IF i >= index THEN i - index ELSE i + Capacity - index
      BY <1>6
    <2>2. Ahead(i)' = IF i >= index' THEN i - index' ELSE i + Capacity - index'
      BY <1>7
    <2> QED
      BY <2>1, <2>2, <1>1, <1>2 DEF Slots
  <1>9. ASSUME NEW i \in Slots
        PROVE  i \in Spoiled(index', size') <=>
                 IF size' = Capacity THEN Ahead(i)' < NumStack ELSE i < NumStack
    <2> HIDE DEF Slots
    <2>1. i \in Spoiled(index', size') <=>
            IF size' = Capacity
            THEN (IF i >= index' THEN i - index' ELSE i + Capacity - index') < NumStack
            ELSE i < NumStack
      BY <1>3, <1>4, <1>5, SpoiledFacts
    <2> QED
      BY <2>1, <1>7
  <1>10. \A i \in Slots : Ahead(i) \in 0..(Capacity - 1)
    BY <1>6
  <1> QED
    BY <1>1, <1>3, <1>4, <1>5, <1>6, <1>8, <1>9, <1>10

(***************************************************************************)
(* The slots of one insert: which stay, which hold the new transition.     *)
(***************************************************************************)
LEMMA InsertWrites ==
  ASSUME IInv, NEW tr \in Transitions, Insert(tr), NEW i \in Slots
  PROVE  /\ Ahead(i) > Lead => /\ frames'[i] = frames[i]
                               /\ rows'[i] = rows[i]
                               /\ correct'[i] => correct[i]
         /\ Ahead(i) = Lead =>
              /\ frames'[i] = tr.pix[NumStack]
              /\ rows'[i] = [pix |-> tr.pix, done |-> tr.done, inStep |-> InStep(tr)]
              /\ rows'[i] \in Rows
         /\ Ahead(i) < Lead => ~correct'[i]
         /\ correct'[i] => i \notin Spoiled(index', size')
         /\ i \notin Spoiled(index', size') /\ Ahead(i) = Lead => correct'[i]
  <1> USE SizesAssumption
  <1>1. Lead \in Nat /\ Ahead(i) \in Nat
    BY InsertMoves DEF IInv
  <1>2. /\ frames'[i] = IF Ahead(i) <= Lead THEN FrameWritten(tr, Ahead(i)) ELSE frames[i]
        /\ rows'[i] = IF Ahead(i) <= Lead THEN RowWritten(tr, Ahead(i)) ELSE rows[i]
        /\ correct'[i] <=> /\ i \notin Spoiled(index', size')
                           /\ Ahead(i) = Lead \/ (Ahead(i) > Lead /\ correct[i])
    BY DEF Insert
  <1>3. [pix |-> tr.pix, done |-> tr.done, inStep |-> InStep(tr)] \in Rows
    <2>1. tr.pix \in [0..NumStack -> Frames] /\ tr.done \in BOOLEAN
      BY TransitionsAssumption
    <2>2. InStep(tr) \in BOOLEAN
      BY DEF InStep
    <2> QED
      BY <2>1, <2>2 DEF Rows
  <1> QED
    BY <1>1, <1>2, <1>3 DEF FrameWritten, RowWritten

(***************************************************************************)
(* One insert keeps the invariant, conjunct by conjunct.                   *)
(***************************************************************************)
LEMMA InsertKeepsTypeOK ==
  ASSUME IInv, NEW tr \in Transitions, Insert(tr)
  PROVE  TypeOK'
  <1> USE SizesAssumption DEF IInv
  <1>1. tr.pix \in [0..NumStack -> Frames] /\ tr.done \in BOOLEAN
    BY TransitionsAssumption
  <1>2. ASSUME NEW k \in 0..Lead
        PROVE  /\ FrameWritten(tr, k) \in Frames \cup {NoFrame}
               /\ RowWritten(tr, k) \in Rows \cup {NoRow}
    <2>1. Lead \in {0, NumStack}
      BY InsertMoves
    <2>2. k # Lead => Capacity - NumStack + k \in Slots /\ k \in 0..NumStack
      BY <2>1 DEF Slots
    <2>3. InStep(tr) \in BOOLEAN
      BY DEF InStep
    <2>4. FrameWritten(tr, k) \in Frames \cup {NoFrame}
      BY <1>1, <2>2 DEF FrameWritten, TypeOK
    <2>5. RowWritten(tr, k) \in Rows \cup {NoRow}
      BY <1>1, <2>1, <2>2, <2>3 DEF RowWritten, TypeOK, Rows
    <2> QED
      BY <2>4, <2>5
  <1>3. \A i \in Slots : Ahead(i) <= Lead => Ahead(i) \in 0..Lead
    BY InsertMoves DEF TypeOK, Slots
  <1>4. frames' \in [Slots -> Frames \cup {NoFrame}]
    BY <1>2, <1>3 DEF Insert, TypeOK
  <1>5. rows' \in [Slots -> Rows \cup {NoRow}]
    BY <1>2, <1>3 DEF Insert, TypeOK
  <1>6. correct' \in [Slots -> BOOLEAN]
    BY DEF Insert
  <1>7. index' \in Slots /\ size' \in 0..Capacity /\ first' \in BOOLEAN
    BY <1>1, InsertMoves DEF Insert
  <1> QED
    BY <1>4, <1>5, <1>6, <1>7 DEF TypeOK

(***************************************************************************)
(* insert leaves no sampleable slot whose window the next raw write breaks. *)
(***************************************************************************)
LEMMA InsertKeepsHorizon ==
  ASSUME IInv, NEW tr \in Transitions, Insert(tr)
  PROVE  Horizon'
  <1> USE SizesAssumption DEF IInv
  <1>1. ASSUME size' = Capacity, NEW i \in Slots, Ahead(i)' < NumStack
        PROVE  ~correct'[i]
    BY <1>1, InsertMoves, InsertWrites
  <1>2. ASSUME size' < Capacity
        PROVE  index' = size'
    BY <1>2, InsertMoves
  <1>3. ASSUME size' < Capacity, NEW i \in Slots, i < NumStack
        PROVE  ~correct'[i]
    <2>1. i \in Spoiled(index', size')
      BY <1>3, InsertMoves
    <2> QED
      BY <2>1, InsertWrites
  <1>4. ASSUME size' < Capacity, NEW i \in Slots, i >= size'
        PROVE  ~correct'[i]
    <2>1. /\ index = size /\ size' = size + Lead + 1 /\ Lead \in {0, NumStack}
          /\ size \in Nat /\ size < Capacity
      BY <1>4, InsertMoves DEF TypeOK, Horizon
    <2>2. Ahead(i) = IF i >= index THEN i - index ELSE i + Capacity - index
      BY InsertMoves
    <2>3. Ahead(i) > Lead /\ i >= size
      BY <1>4, <2>1, <2>2 DEF Slots
    <2> QED
      BY <2>1, <2>3, InsertWrites DEF Horizon
  <1> QED
    BY <1>1, <1>2, <1>3, <1>4 DEF Horizon

(***************************************************************************)
(* The transition just inserted is there and can be sampled.               *)
(***************************************************************************)
LEMMA InsertKeepsNewest ==
  ASSUME IInv, NEW tr \in Transitions, Insert(tr)
  PROVE  NewestThere'
  <1> USE SizesAssumption DEF IInv
  <1>1. size' > NumStack /\ size' > 0
    BY InsertMoves
  <1>2. ASSUME NEW i \in Slots, Ahead(i)' = Capacity - 1
        PROVE  rows'[i] \in Rows /\ correct'[i]
    <2>0. /\ Lead \in {0, NumStack} /\ Ahead(i) \in 0..(Capacity - 1)
          /\ size' \in (NumStack + 1)..Capacity
      BY InsertMoves
    <2>1. Ahead(i) = Lead
      <3>1. Ahead(i)' = IF Ahead(i) > Lead THEN Ahead(i) - Lead - 1
                        ELSE Ahead(i) + Capacity - Lead - 1
        BY InsertMoves
      <3> QED
        BY <1>2, <2>0, <3>1
    <2>2. i \notin Spoiled(index', size')
      <3>1. CASE size' = Capacity
        BY <1>2, <2>0, <3>1, InsertMoves
      <3>2. CASE size' < Capacity
        <4>1. /\ index = size /\ size \in Nat /\ size < Capacity
              /\ size' = size + Lead + 1
          BY <3>2, InsertMoves DEF TypeOK, Horizon
        <4>2. Ahead(i) = IF i >= index THEN i - index ELSE i + Capacity - index
          BY InsertMoves
        <4>3. size > NumStack \/ Lead = NumStack
          BY <4>1 DEF NewestThere, Lead
        <4>4. i >= NumStack
          BY <2>0, <2>1, <3>2, <4>1, <4>2, <4>3 DEF Slots
        <4> QED
          BY <2>0, <3>2, <4>4, InsertMoves DEF Slots
      <3> QED
        BY <2>0, <3>1, <3>2
    <2> QED
      BY <2>1, <2>2, InsertWrites
  <1>3. ASSUME NEW i \in Slots, correct'[i]
        PROVE  rows'[i] \in Rows
    <2>1. Lead \in Nat /\ Ahead(i) \in Nat
      BY InsertMoves
    <2>2. CASE Ahead(i) > Lead
      BY <1>3, <2>2, InsertWrites DEF NewestThere
    <2>3. CASE Ahead(i) = Lead
      BY <2>3, InsertWrites
    <2>4. CASE Ahead(i) < Lead
      BY <1>3, <2>4, InsertWrites
    <2> QED
      BY <2>1, <2>2, <2>3, <2>4
  <1> QED
    BY <1>1, <1>2, <1>3 DEF NewestThere

(***************************************************************************)
(* What the next insert and the next samples rely on: the rows and frames  *)
(* this insert leaves just behind the new index.                           *)
(***************************************************************************)
LEMMA NewestIsInserted ==
  ASSUME IInv, NEW tr \in Transitions, Insert(tr)
  PROVE  Newest' = [pix |-> tr.pix, done |-> tr.done, inStep |-> InStep(tr)]
  <1> USE SizesAssumption DEF IInv
  <1>1. index' \in Slots /\ Lead \in {0, NumStack} /\ Capacity \in Nat \ {0}
    BY InsertMoves
  <1>2. PICK idx \in Slots : idx = index'
    BY <1>1
  <1>3. PICK n \in Slots : n = IF idx = 0 THEN Capacity - 1 ELSE idx - 1
    <2>1. CASE idx = 0
      BY <2>1 DEF Slots
    <2>2. CASE idx # 0
      BY <2>2 DEF Slots
    <2> QED
      BY <2>1, <2>2
  <1>4. Newest' = rows'[n]
    <2>1. (idx + Capacity - 1) % Capacity = n
      BY <1>3, RingFacts, Zenon
    <2> QED
      BY <1>2, <2>1 DEF Newest
  <1>5. Ahead(n)' = Capacity - 1
    <2>1. Ahead(n)' = IF n >= idx THEN n - idx ELSE n + Capacity - idx
      BY <1>2, RingFacts, Zenon DEF Ahead
    <2> QED
      BY <1>3, <2>1 DEF Slots
  <1>6. Ahead(n) = Lead
    <2>1. /\ Ahead(n)' = IF Ahead(n) > Lead THEN Ahead(n) - Lead - 1
                         ELSE Ahead(n) + Capacity - Lead - 1
          /\ Ahead(n) \in 0..(Capacity - 1)
      BY InsertMoves
    <2> QED
      BY <1>1, <1>5, <2>1
  <1> QED
    BY <1>4, <1>6, InsertWrites

(***************************************************************************)
(* Inside an episode the frames behind the insert index are those the next *)
(* transition starts with, also after the tail was copied to the front.    *)
(***************************************************************************)
LEMMA InsertKeepsTail ==
  ASSUME IInv, NEW tr \in Transitions, Insert(tr)
  PROVE  TailFrames'
  <1> USE SizesAssumption DEF IInv
  <1>1. Newest'.inStep = InStep(tr) /\ Newest'.pix = tr.pix
    BY NewestIsInserted
  <1>2. SUFFICES ASSUME InStep(tr), NEW i \in Slots, Ahead(i)' >= Capacity - NumStack
                 PROVE  frames'[i] = tr.pix[Ahead(i)' + NumStack + 1 - Capacity]
    BY <1>1 DEF TailFrames
  <1>3. /\ Lead \in {0, NumStack} /\ Ahead(i) \in 0..(Capacity - 1)
        /\ Ahead(i)' = IF Ahead(i) > Lead THEN Ahead(i) - Lead - 1
                       ELSE Ahead(i) + Capacity - Lead - 1
    BY InsertMoves
  <1>4. CASE Ahead(i) = Lead
    <2>1. Ahead(i)' + NumStack + 1 - Capacity = NumStack
      BY <1>3, <1>4
    <2> QED
      BY <1>4, <2>1, InsertWrites
  <1>5. CASE Ahead(i) < Lead
    <2>1. /\ Lead = NumStack
          /\ Ahead(i)' + NumStack + 1 - Capacity = Ahead(i)
          /\ Ahead(i) \in 0..(NumStack - 1)
      BY <1>3, <1>5
    <2>2. frames'[i] = FrameWritten(tr, Ahead(i))
      BY <1>3, <1>5 DEF Insert
    <2>3. CASE first
      BY <1>5, <2>1, <2>2, <2>3 DEF FrameWritten
    <2>4. CASE ~first
      <3>1. index = 0
        BY <2>1, <2>4 DEF Lead, CopiesTail
      <3>2. frames'[i] = frames[Capacity - NumStack + Ahead(i)]
        BY <1>3, <1>5, <2>2, <2>4 DEF FrameWritten
      <3>3. PICK j \in Slots : j = Capacity - NumStack + Ahead(i)
        BY <2>1 DEF Slots
      <3>4. Ahead(j) = j
        <4>1. Ahead(j) = IF j >= index THEN j - index ELSE j + Capacity - index
          BY InsertMoves
        <4> QED
          BY <3>1, <4>1 DEF Slots
      <3>5. frames[j] = Newest.pix[Ahead(i) + 1]
        <4>1. Ahead(j) >= Capacity - NumStack /\
              Ahead(j) + NumStack + 1 - Capacity = Ahead(i) + 1
          BY <2>1, <3>3, <3>4
        <4> QED
          BY <1>2, <2>4, <4>1 DEF TailFrames, InStep
      <3>6. tr.pix[Ahead(i)] = Newest.pix[Ahead(i) + 1]
        <4>1. Ahead(i) + 1 \in 1..NumStack /\ (Ahead(i) + 1) - 1 = Ahead(i)
          BY <2>1
        <4> QED
          BY <1>2, <2>4, <4>1 DEF InStep
      <3> QED
        BY <2>1, <3>2, <3>3, <3>5, <3>6
    <2> QED
      BY <2>3, <2>4
  <1>6. CASE Ahead(i) > Lead
    <2>1. /\ Lead = 0
          /\ Ahead(i) >= Capacity - NumStack
          /\ Ahead(i)' = Ahead(i) - 1
      BY <1>2, <1>3, <1>6
    <2>2. ~first
      BY <2>1 DEF Lead
    <2>3. frames'[i] = frames[i]
      BY <1>6, InsertWrites
    <2>4. frames[i] = Newest.pix[Ahead(i) + NumStack + 1 - Capacity]
      BY <1>2, <2>1, <2>2 DEF TailFrames, InStep
    <2>5. /\ Ahead(i) + NumStack + 1 - Capacity \in 1..NumStack
          /\ (Ahead(i) + NumStack + 1 - Capacity) - 1
               = Ahead(i)' + NumStack + 1 - Capacity
      BY <1>3, <2>1
    <2> QED
      BY <1>2, <2>2, <2>3, <2>4, <2>5 DEF InStep
  <1> QED
    BY <1>3, <1>4, <1>5, <1>6

(***************************************************************************)
(* No insert leaves a window it has broken in the sample, and the window   *)
(* it adds is the transition's own.                                        *)
(***************************************************************************)
LEMMA InsertKeepsWindows ==
  ASSUME IInv, NEW tr \in Transitions, Insert(tr)
  PROVE  Windows'
  <1> USE SizesAssumption DEF IInv
  <1>1. SUFFICES ASSUME NEW i \in Slots, NEW k \in 0..NumStack,
                        correct'[i], i >= NumStack, rows'[i].inStep
                 PROVE  frames'[i - NumStack + k] = rows'[i].pix[k]
    BY DEF Windows
  <1>2. PICK j \in Slots : j = i - NumStack + k
    BY <1>1 DEF Slots
  <1>3. /\ Lead \in {0, NumStack}
        /\ Ahead(i) \in 0..(Capacity - 1) /\ Ahead(j) \in 0..(Capacity - 1)
        /\ Ahead(i) = IF i >= index THEN i - index ELSE i + Capacity - index
        /\ Ahead(j) = IF j >= index THEN j - index ELSE j + Capacity - index
        /\ Ahead(i)' = IF Ahead(i) > Lead THEN Ahead(i) - Lead - 1
                       ELSE Ahead(i) + Capacity - Lead - 1
        /\ index \in 0..(Capacity - 1)
    BY InsertMoves DEF TypeOK, Slots
  <1>4. i \in 0..(Capacity - 1) /\ j \in 0..(Capacity - 1)
    BY DEF Slots
  <1>5. i \notin Spoiled(index', size') /\ ~(Ahead(i) < Lead)
    BY <1>1, InsertWrites
  <1>6. CASE Ahead(i) > Lead
    <2>1. correct[i] /\ rows'[i] = rows[i]
      BY <1>1, <1>6, InsertWrites
    <2>2. Ahead(j) > Lead
      <3>1. CASE size' = Capacity
        <4>1. ~(Ahead(i)' < NumStack)
          BY <1>5, <3>1, InsertMoves
        <4> QED
          BY <1>1, <1>2, <1>3, <1>4, <1>6, <4>1
      <3>2. CASE size' # Capacity
        <4>1. /\ index = size /\ size' = size + Lead + 1 /\ size' < Capacity
              /\ size \in Nat /\ size < Capacity
          BY <3>2, InsertMoves DEF TypeOK, Horizon
        <4>2. i < size
          BY <2>1, <4>1, <1>4 DEF Horizon
        <4> QED
          BY <1>1, <1>2, <1>3, <1>4, <4>1, <4>2
      <3> QED
        BY <3>1, <3>2
    <2>3. frames'[j] = frames[j]
      BY <2>2, InsertWrites
    <2>4. frames[j] = rows[i].pix[k]
      BY <1>1, <1>2, <2>1 DEF Windows
    <2> QED
      BY <1>2, <2>1, <2>3, <2>4
  <1>7. CASE Ahead(i) = Lead
    <2>1. rows'[i].pix = tr.pix /\ InStep(tr)
      <3>1. rows'[i] = [pix |-> tr.pix, done |-> tr.done, inStep |-> InStep(tr)]
        BY <1>7, InsertWrites
      <3>2. rows'[i].pix = tr.pix /\ rows'[i].inStep = InStep(tr)
        BY <3>1
      <3> QED
        BY <1>1, <3>2
    <2>2. CASE k = NumStack
      <3>1. j = i
        BY <1>2, <1>4, <2>2
      <3>2. frames'[i] = tr.pix[NumStack]
        BY <1>7, InsertWrites
      <3> QED
        BY <1>2, <2>1, <2>2, <3>1, <3>2
    <2>3. CASE k # NumStack /\ Lead = NumStack
      <3>1. Ahead(j) = k
        BY <1>1, <1>2, <1>3, <1>4, <1>7, <2>3
      <3>2. frames'[j] = FrameWritten(tr, k)
        BY <1>3, <2>3, <3>1 DEF Insert
      <3>3. CASE first
        BY <1>2, <2>1, <2>3, <3>2, <3>3 DEF FrameWritten
      <3>4. CASE ~first
        <4>1. index = 0
          BY <2>3, <3>4 DEF Lead, CopiesTail
        <4>2. PICK t \in Slots : t = Capacity - NumStack + k
          BY <2>3 DEF Slots
        <4>3. /\ Ahead(t) >= Capacity - NumStack
              /\ Ahead(t) + NumStack + 1 - Capacity = k + 1
          <5>1. Ahead(t) = IF t >= index THEN t - index ELSE t + Capacity - index
            BY InsertMoves
          <5> QED
            BY <4>1, <4>2, <5>1 DEF Slots
        <4>4. frames[t] = Newest.pix[k + 1]
          BY <2>1, <3>4, <4>3 DEF TailFrames, InStep
        <4>5. tr.pix[k] = Newest.pix[k + 1]
          <5>1. k + 1 \in 1..NumStack /\ (k + 1) - 1 = k
            BY <2>3
          <5> QED
            BY <2>1, <3>4, <5>1 DEF InStep
        <4> QED
          BY <1>2, <2>1, <2>3, <3>2, <3>4, <4>2, <4>4, <4>5 DEF FrameWritten
      <3> QED
        BY <3>3, <3>4
    <2>4. CASE k # NumStack /\ Lead # NumStack
      <3>1. Lead = 0 /\ ~first
        BY <1>3, <2>4 DEF Lead
      <3>2. i = index /\ Ahead(j) = Capacity - NumStack + k
        BY <1>1, <1>2, <1>3, <1>4, <1>7, <2>4, <3>1
      <3>3. frames'[j] = frames[j]
        <4>1. Ahead(j) > Lead
          BY <3>1, <3>2
        <4> QED
          BY <4>1, InsertWrites
      <3>4. frames[j] = Newest.pix[k + 1]
        <4>1. /\ Ahead(j) >= Capacity - NumStack
              /\ Ahead(j) + NumStack + 1 - Capacity = k + 1
          BY <3>2
        <4> QED
          BY <2>1, <3>1, <4>1 DEF TailFrames, InStep
      <3>5. k + 1 \in 1..NumStack /\ (k + 1) - 1 = k
        BY <2>4
      <3> QED
        BY <1>2, <2>1, <3>1, <3>3, <3>4, <3>5 DEF InStep
    <2> QED
      BY <2>2, <2>3, <2>4
  <1> QED
    BY <1>3, <1>5, <1>6, <1>7

-----------------------------------------------------------------------------
(***************************************************************************)
(* An empty buffer at the start of an episode.                             *)
(***************************************************************************)
LEMMA InitIInv == Init => IInv
  <1> SUFFICES ASSUME Init PROVE IInv
    OBVIOUS
  <1> USE SizesAssumption DEF Init
  <1>1. TypeOK /\ Horizon /\ NewestThere /\ TailFrames /\ Windows
    BY DEF TypeOK, Horizon, NewestThere, TailFrames, Windows, Slots
  <1> QED
    BY <1>1 DEF IInv

(***************************************************************************)
(* One insert keeps all five parts.                                        *)
(***************************************************************************)
LEMMA NextIInv == IInv /\ [Next]_vars => IInv'
  <1> SUFFICES ASSUME IInv, [Next]_vars PROVE IInv'
    OBVIOUS
  <1>1. ASSUME NEW tr \in Transitions, Insert(tr) PROVE IInv'
    BY <1>1, InsertKeepsTypeOK, InsertKeepsHorizon, InsertKeepsNewest,
       InsertKeepsTail, InsertKeepsWindows DEF IInv
  <1>2. CASE UNCHANGED vars
    BY <1>2 DEF vars, IInv, TypeOK, Horizon, NewestThere, TailFrames, Windows,
                Ahead, Newest
  <1> QED
    BY <1>1, <1>2 DEF Next

(***************************************************************************)
(* The inductive invariant holds of every sequence of insertions.          *)
(***************************************************************************)
THEOREM Invariance == Spec => []IInv
  BY InitIInv, NextIInv, PTL DEF Spec

(***************************************************************************)
(* The ring's bookkeeping keeps its types, whatever the callers insert.    *)
(***************************************************************************)
THEOREM TypeCorrect == Spec => []TypeOK
  <1>1. IInv => TypeOK
    BY DEF IInv
  <1> QED
    BY <1>1, Invariance, PTL

(***************************************************************************)
(* The rejection loop of sample has an index to stop at as soon as one     *)
(* transition was inserted: the newest one, which the NumStack slots ahead *)
(* of the insert index never reach.                                        *)
(***************************************************************************)
THEOREM SampleStops == Spec => []SampleTerminates
  <1>1. IInv => SampleTerminates
    <2> SUFFICES ASSUME IInv, size > 0 PROVE \E i \in Slots : i < size /\ correct[i]
      BY DEF SampleTerminates, Sampleable, IInv, TypeOK, Slots
    <2> USE SizesAssumption DEF IInv
    <2>1. PICK i \in Slots : i = IF index = 0 THEN Capacity - 1 ELSE index - 1
      BY DEF TypeOK, Slots
    <2>2. Ahead(i) = Capacity - 1
      <3>1. Ahead(i) = IF i >= index THEN i - index ELSE i + Capacity - index
        BY RingFacts, Zenon DEF Ahead, TypeOK
      <3> QED
        BY <2>1, <3>1 DEF TypeOK, Slots
    <2>3. correct[i]
      BY <2>2 DEF NewestThere
    <2>4. i < size
      BY <2>1, <2>3 DEF TypeOK, Slots, Horizon
    <2> QED
      BY <2>3, <2>4
  <1> QED
    BY <1>1, Invariance, PTL

(***************************************************************************)
(* A sampled window outside the first NumStack slots is the transition's   *)
(* own NumStack + 1 frames, for every capacity and stack depth and every   *)
(* sequence of insert calls.                                               *)
(***************************************************************************)
THEOREM WindowsCorrect == Spec => []WindowMatchesRow
  <1>1. IInv => WindowMatchesRow
    <2> SUFFICES ASSUME IInv, NEW i \in Sampleable, i >= NumStack, rows[i].inStep
                 PROVE  Window(i) = rows[i].pix
      BY DEF WindowMatchesRow
    <2> USE SizesAssumption DEF IInv
    <2>1. i \in Slots /\ correct[i]
      BY DEF Sampleable, TypeOK, Slots
    <2>2. rows[i].pix \in [0..NumStack -> Frames]
      BY <2>1 DEF NewestThere, Rows
    <2>3. \A k \in 0..NumStack : frames[i - NumStack + k] = rows[i].pix[k]
      BY <2>1 DEF Windows
    <2> QED
      BY <2>2, <2>3 DEF Window, WindowStart
  <1> QED
    BY <1>1, Invariance, PTL

-----------------------------------------------------------------------------
(***************************************************************************)
(* Sets of numbers in order: how many members are below one.               *)
(***************************************************************************)
UpTo(S, c) == c \in Nat /\ S \subseteq 0..c

Below(S, a) == {b \in S : b < a}

\* Members in order have ever more members below them.
LEMMA RankIs ==
  ASSUME NEW c, NEW S, UpTo(S, c)
  PROVE  /\ IsFiniteSet(S) /\ Cardinality(S) \in Nat
         /\ \A a \in Int : /\ IsFiniteSet(Below(S, a))
                           /\ Cardinality(Below(S, a)) \in 0..Cardinality(S)
         /\ \A a \in S : \A b \in Int :
              a < b => Cardinality(Below(S, a)) < Cardinality(Below(S, b))
         /\ \A a \in S : Cardinality(Below(S, a)) < Cardinality(S)
  <1>0. c \in Nat /\ S \subseteq 0..c
    BY DEF UpTo
  <1>1. IsFiniteSet(0..c)
    BY <1>0, FS_Interval
  <1>2. IsFiniteSet(S) /\ Cardinality(S) \in Nat
    BY <1>0, <1>1, FS_Subset, FS_CardinalityType
  <1>3. ASSUME NEW a \in Int
        PROVE  /\ IsFiniteSet(Below(S, a)) /\ Cardinality(Below(S, a)) \in Nat
               /\ Cardinality(Below(S, a)) <= Cardinality(S)
    <2>1. Below(S, a) \in SUBSET S
      BY DEF Below
    <2> QED
      BY <1>2, <2>1, FS_Subset, FS_CardinalityType
  <1>4. ASSUME NEW a \in S, NEW U, IsFiniteSet(U), Below(S, a) \cup {a} \subseteq U
        PROVE  Cardinality(Below(S, a)) < Cardinality(U)
    <2>1. a \in Int /\ a \notin Below(S, a)
      BY <1>0 DEF Below
    <2>2. Cardinality(Below(S, a) \cup {a}) = Cardinality(Below(S, a)) + 1
      BY <1>3, <2>1, FS_AddElement
    <2>3. Cardinality(Below(S, a) \cup {a}) <= Cardinality(U) /\ Cardinality(U) \in Nat
      BY <1>4, FS_Subset, FS_CardinalityType
    <2> QED
      BY <1>3, <2>1, <2>2, <2>3
  <1>5. ASSUME NEW a \in S, NEW b \in Int, a < b
        PROVE  Below(S, a) \cup {a} \subseteq Below(S, b)
    <2>1. a \in Int
      BY <1>0
    <2>2. ASSUME NEW x \in Below(S, a) PROVE x \in S /\ x \in Int /\ x < b
      BY <1>0, <1>5, <2>1 DEF Below
    <2> QED
      BY <1>5, <2>1, <2>2 DEF Below
  <1>6. ASSUME NEW a \in S PROVE Below(S, a) \cup {a} \subseteq S
    BY DEF Below
  <1> QED
    BY <1>2, <1>3, <1>4, <1>5, <1>6

\* The k-th smallest is there, and there is only one.
LEMMA NthIs ==
  ASSUME NEW c, NEW S, UpTo(S, c), NEW k \in 1..Cardinality(S)
  PROVE  /\ Nth(S, k) \in S /\ Cardinality(Below(S, Nth(S, k))) = k - 1
         /\ \A a \in S : Cardinality(Below(S, a)) = k - 1 => a = Nth(S, k)
  <1> DEFINE n == Cardinality(S)
             rank == [a \in S |-> Cardinality(Below(S, a))]
  <1>1. /\ IsFiniteSet(S) /\ n \in Nat
        /\ \A a \in S : Cardinality(Below(S, a)) \in 0..(n - 1)
        /\ \A a, b \in S : a < b => Cardinality(Below(S, a)) < Cardinality(Below(S, b))
    <2>1. \A a \in S : a \in Int
      BY DEF UpTo
    <2> QED
      BY <2>1, RankIs
  <1>2. ASSUME NEW a \in S, NEW b \in S, Cardinality(Below(S, a)) = Cardinality(Below(S, b))
        PROVE  a = b
    <2>1. a \in Int /\ b \in Int
      BY DEF UpTo
    <2>2. ~(a < b) /\ ~(b < a)
      BY <1>1, <1>2
    <2> QED
      BY <2>1, <2>2
  <1>3. rank \in Injection(S, 0..(n - 1))
    BY <1>1, <1>2 DEF Injection, IsInjective
  <1>4. IsFiniteSet(0..(n - 1)) /\ Cardinality(0..(n - 1)) = n
    <2>1. n \in Nat /\ 0 \in Int /\ n - 1 \in Int
      BY <1>1
    <2> HIDE DEF n
    <2> QED
      BY <2>1, FS_Interval
  <1>5. rank \in Surjection(S, 0..(n - 1))
    BY <1>3, <1>4, FS_Injection
  <1>6. k - 1 \in 0..(n - 1)
    BY <1>1
  <1>7. PICK a \in S : rank[a] = k - 1
    BY <1>5, <1>6 DEF Surjection
  <1>8. Nth(S, k) \in S /\ Cardinality(Below(S, Nth(S, k))) = k - 1
    BY <1>7 DEF Nth, Below
  <1> QED
    BY <1>2, <1>8

\* Moving a set along changes nothing about its size.
LEMMA ShiftCard ==
  ASSUME NEW S \in SUBSET Int, IsFiniteSet(S), NEW m \in Int
  PROVE  /\ IsFiniteSet({a - m : a \in S})
         /\ Cardinality({a - m : a \in S}) = Cardinality(S)
  <1> DEFINE T == {a - m : a \in S}
             move == [a \in S |-> a - m]
  <1>1. move \in [S -> T] /\ \A t \in T : \E a \in S : move[a] = t
    OBVIOUS
  <1>2. ASSUME NEW a \in S, NEW b \in S, move[a] = move[b] PROVE a = b
    BY <1>2
  <1>3. move \in Injection(S, T) /\ move \in Surjection(S, T)
    BY <1>1, <1>2 DEF Injection, IsInjective, Surjection
  <1>4. IsFiniteSet(T) /\ (Cardinality(T) = Cardinality(S) <=> move \in Injection(S, T))
    BY <1>3, FS_Surjection
  <1> QED
    BY <1>3, <1>4

\* T gives up the members of S below d, moves the others down by m, and
\* gains a new greatest one.
Moved(S, T, m, d, c) == T = {a - m : a \in S \ Below(S, d)} \cup {c}

\* The order of such a set is that of the other, further on.
LEMMA Shifted ==
  ASSUME NEW c, NEW S, UpTo(S, c), NEW m \in Nat, NEW d \in Nat, 0 < m, m <= d,
         NEW T, Moved(S, T, m, d, c)
  PROVE  \A n, l \in Nat : n = Cardinality(Below(S, d)) /\ l = Cardinality(S) =>
           /\ UpTo(T, c)
           /\ Cardinality(T) = (l - n) + 1
           /\ \A k \in 1..(l - n) : /\ k + n \in 1..l /\ Nth(S, k + n) >= d
                                    /\ Nth(T, k) = Nth(S, k + n) - m
           /\ Nth(T, (l - n) + 1) = c
  <1> DEFINE B == Below(S, d)
             K == S \ B
             G == {a - m : a \in K}
             n == Cardinality(B)
             l == Cardinality(S)
  <1>0. c \in Nat /\ \A a \in S : a \in Int /\ 0 <= a /\ a <= c
    BY DEF UpTo
  <1>1. /\ IsFiniteSet(S) /\ l \in Nat /\ IsFiniteSet(B) /\ n \in Nat /\ n <= l
    BY RankIs
  <1>2. B \subseteq S /\ \A a \in K : a \in Int /\ d <= a /\ a <= c
    BY <1>0 DEF Below
  <1>3. IsFiniteSet(K) /\ Cardinality(K) = l - n
    <2>1. S \cap B = B
      BY <1>2
    <2> QED
      BY <1>1, <2>1, FS_Difference
  <1>4. IsFiniteSet(G) /\ Cardinality(G) = l - n
    BY <1>2, <1>3, ShiftCard
  <1>5. c \notin G /\ \A g \in G : g \in 0..c /\ g < c
    BY <1>0, <1>2
  <1>6. UpTo(T, c) /\ Cardinality(T) = (l - n) + 1
    BY <1>0, <1>4, <1>5, FS_AddElement DEF UpTo, Moved
  <1>7. T = G \cup {c}
    BY DEF Moved
  <1>8. ASSUME NEW a \in K
        PROVE  /\ a - m \in T
               /\ Cardinality(Below(T, a - m)) = Cardinality(Below(S, a)) - n
    <2>1. a \in S /\ a \in Int /\ d <= a /\ a <= c
      BY <1>2
    <2>2. Below(T, a - m) = {x - m : x \in Below(S, a) \ B}
      <3>1. ASSUME NEW t \in Below(T, a - m) PROVE t \in {x - m : x \in Below(S, a) \ B}
        <4>0. t \in T /\ t < a - m
          BY DEF Below
        <4>1. t \in G /\ t < a - m
          BY <1>0, <1>7, <2>1, <4>0
        <4>2. PICK x \in K : t = x - m
          BY <4>1
        <4>3. x \in Int /\ x < a /\ x \in S /\ x \notin B
          BY <1>2, <2>1, <4>1, <4>2
        <4> QED
          BY <4>2, <4>3 DEF Below
      <3>2. ASSUME NEW x \in Below(S, a) \ B PROVE x - m \in Below(T, a - m)
        <4>1. x \in K /\ x < a /\ x \in Int
          BY <1>0 DEF Below
        <4>2. x - m \in T /\ x - m < a - m
          BY <1>7, <2>1, <4>1
        <4> QED
          BY <4>2 DEF Below
      <3> QED
        BY <3>1, <3>2
    <2>3. IsFiniteSet(Below(S, a)) /\ Cardinality(Below(S, a)) \in Nat
      BY <2>1, <1>1, RankIs
    <2>4. Below(S, a) \cap B = B
      <3>1. ASSUME NEW x \in B PROVE x \in Below(S, a)
        <4>1. x \in S /\ x < d /\ x \in Int
          BY <1>0 DEF Below
        <4> QED
          BY <2>1, <4>1 DEF Below
      <3> QED
        BY <3>1
    <2>5. /\ IsFiniteSet(Below(S, a) \ B)
          /\ Cardinality(Below(S, a) \ B) = Cardinality(Below(S, a)) - n
      BY <2>3, <2>4, FS_Difference
    <2>6. Below(S, a) \ B \subseteq Int
      BY <1>0 DEF Below
    <2>7. Cardinality({x - m : x \in Below(S, a) \ B}) = Cardinality(Below(S, a) \ B)
      <3> DEFINE D == Below(S, a) \ B
      <3>1. IsFiniteSet(D) /\ D \in SUBSET Int /\ m \in Int
        BY <2>5, <2>6
      <3> HIDE DEF D
      <3>2. Cardinality({x - m : x \in D}) = Cardinality(D)
        BY <3>1, ShiftCard, Zenon
      <3> QED
        BY <3>2 DEF D
    <2> QED
      BY <1>7, <2>2, <2>5, <2>7
  <1>9. ASSUME NEW k \in 1..(l - n)
        PROVE  /\ k + n \in 1..l /\ k \in 1..Cardinality(T)
               /\ Nth(S, k + n) >= d /\ Nth(T, k) = Nth(S, k + n) - m
    <2>1. k + n \in 1..l /\ k \in 1..Cardinality(T)
      BY <1>1, <1>6
    <2>2. PICK a \in S : a = Nth(S, k + n) /\ Cardinality(Below(S, a)) = (k + n) - 1
      BY <2>1, NthIs
    <2>3. a >= d
      <3>1. a \in Int /\ (a < d => Cardinality(Below(S, a)) < n)
        BY <1>0, RankIs
      <3> QED
        BY <1>1, <2>2, <3>1
    <2>4. a \in K
      BY <1>0, <2>3 DEF Below
    <2>5. a - m \in T /\ Cardinality(Below(T, a - m)) = k - 1
      BY <1>1, <1>8, <2>2, <2>4
    <2>6. a - m = Nth(T, k)
      BY <1>6, <2>1, <2>5, NthIs
    <2> QED
      BY <2>1, <2>2, <2>3, <2>6
  <1>10. Nth(T, (l - n) + 1) = c
    <2>1. Below(T, c) = G /\ c \in T
      <3>1. ASSUME NEW t \in Below(T, c) PROVE t \in G
        <4>1. t \in T /\ t < c
          BY DEF Below
        <4> QED
          BY <1>0, <1>7, <4>1
      <3>2. ASSUME NEW g \in G PROVE g \in Below(T, c)
        BY <1>5, <1>7, <3>2 DEF Below
      <3> QED
        BY <1>7, <3>1, <3>2
    <2>2. (l - n) + 1 \in 1..Cardinality(T) /\ Cardinality(Below(T, c)) = ((l - n) + 1) - 1
      <3>1. Cardinality(Below(T, c)) = l - n
        BY <1>4, <2>1
      <3> QED
        BY <1>1, <1>6, <3>1
    <2> QED
      BY <1>6, <2>1, <2>2, NthIs
  <1> QED
    BY <1>6, <1>9, <1>10

\* A sequence that loses its n oldest rows and gains one.
LEMMA SlideIs ==
  ASSUME NEW S, NEW L \in Seq(S), NEW M \in Seq(S), NEW n \in Nat, n <= Len(L),
         NEW r \in S, Len(M) = Len(L) - n + 1,
         \A k \in 1..Len(M) : M[k] = IF k <= Len(L) - n THEN L[k + n] ELSE r
  PROVE  M = SubSeq(L, n + 1, Len(L)) \o [j \in 1..1 |-> r]
  <1> DEFINE T == SubSeq(L, n + 1, Len(L))
             R == [j \in 1..1 |-> r]
  <1>0. Len(L) \in Nat /\ Len(M) \in Nat /\ n + 1 \in Int /\ Len(L) \in Int
    BY LenProperties
  <1>1. \A k \in (n + 1)..Len(L) : L[k] \in S
    BY <1>0, ElementOfSeq
  <1>2. /\ T \in Seq(S) /\ Len(T) = Len(L) - n
        /\ \A k \in 1..(Len(L) - n) : T[k] = L[k + n]
    <2>1. /\ T \in Seq(S) /\ Len(T) = IF n + 1 <= Len(L) THEN Len(L) - (n + 1) + 1 ELSE 0
          /\ \A k \in 1..(Len(L) - (n + 1) + 1) : T[k] = L[n + 1 + k - 1]
      BY <1>0, <1>1, SubSeqProperties
    <2>2. \A k \in 1..(Len(L) - n) : n + 1 + k - 1 = k + n
      BY <1>0
    <2>3. Len(L) - (n + 1) + 1 = Len(L) - n
      BY <1>0
    <2>4. Len(T) = Len(L) - n
      BY <1>0, <2>1
    <2> QED
      BY <2>1, <2>2, <2>3, <2>4
  <1>3. R \in Seq(S) /\ Len(R) = 1 /\ R[1] = r
    <2>1. R \in [1..1 -> S] /\ R[1] = r
      OBVIOUS
    <2>2. R = <<r>>
      OBVIOUS
    <2>3. <<r>> \in Seq(S) /\ Len(<<r>>) = 1 /\ <<r>>[1] = r
      OBVIOUS
    <2> HIDE DEF R
    <2> QED
      BY <2>2, <2>3
  <1> HIDE DEF T, R
  <1>4. /\ T \o R \in Seq(S) /\ Len(T \o R) = Len(T) + Len(R)
        /\ \A k \in 1..(Len(T) + Len(R)) :
             (T \o R)[k] = IF k <= Len(T) THEN T[k] ELSE R[k - Len(T)]
    BY <1>2, <1>3, ConcatProperties
  <1>5. Len(T \o R) = Len(M)
    BY <1>0, <1>2, <1>3, <1>4
  <1>6. ASSUME NEW k \in 1..Len(M) PROVE M[k] = (T \o R)[k]
    <2>1. CASE k <= Len(L) - n
      <3>1. k \in 1..(Len(T) + Len(R)) /\ k <= Len(T) /\ k \in 1..(Len(L) - n)
        BY <1>0, <1>2, <1>3, <2>1
      <3> QED
        BY <1>2, <1>4, <2>1, <3>1
    <2>2. CASE ~(k <= Len(L) - n)
      <3>1. k \in 1..(Len(T) + Len(R)) /\ ~(k <= Len(T)) /\ k - Len(T) = 1
        <4>1. Len(T) = Len(L) - n /\ Len(R) = 1
          BY <1>2, <1>3
        <4>2. Len(T) \in Nat /\ Len(M) = Len(T) + 1
          BY <1>0, <4>1
        <4>3. k \in Nat /\ 1 <= k /\ k <= Len(T) + 1
          BY <1>0, <4>2
        <4>4. ~(k <= Len(T))
          BY <2>2, <4>1
        <4>5. k \in 1..(Len(T) + Len(R))
          BY <4>1, <4>2, <4>3
        <4>6. k - Len(T) = 1
          BY <4>2, <4>3, <4>4
        <4> QED
          BY <4>4, <4>5, <4>6
      <3> QED
        BY <1>3, <1>4, <2>2, <3>1
    <2> QED
      BY <2>1, <2>2
  <1>7. M = T \o R
    BY <1>4, <1>5, <1>6, SeqEqual
  <1> QED
    BY <1>7 DEF T, R

-----------------------------------------------------------------------------
(***************************************************************************)
(* Distances and slots are two names of the same.                          *)
(***************************************************************************)
SlotFrom(idx, a) == (idx + a) % Capacity
AheadFrom(idx, i) == (i + Capacity - idx) % Capacity

\* Round from an index to a slot and back.
LEMMA RoundTrip ==
  ASSUME NEW idx \in Slots
  PROVE  /\ \A a \in 0..(Capacity - 1) :
              SlotFrom(idx, a) \in Slots /\ AheadFrom(idx, SlotFrom(idx, a)) = a
         /\ \A i \in Slots :
              AheadFrom(idx, i) \in 0..(Capacity - 1) /\ SlotFrom(idx, AheadFrom(idx, i)) = i
  <1> USE SizesAssumption DEF Slots
  <1>0. /\ \A i \in Slots : AheadFrom(idx, i) = IF i >= idx THEN i - idx
                                                ELSE i + Capacity - idx
        /\ \A a \in 0..Capacity : SlotFrom(idx, a) = IF idx + a < Capacity THEN idx + a
                                                     ELSE idx + a - Capacity
    BY RingFacts, Zenon DEF AheadFrom, SlotFrom
  <1>1. ASSUME NEW a \in 0..(Capacity - 1)
        PROVE  SlotFrom(idx, a) \in Slots /\ AheadFrom(idx, SlotFrom(idx, a)) = a
    <2>1. a \in 0..Capacity
      OBVIOUS
    <2>2. SlotFrom(idx, a) \in Slots
      BY <1>0, <2>1
    <2>3. PICK i \in Slots : i = SlotFrom(idx, a)
      BY <2>2
    <2>4. AheadFrom(idx, i) = a
      BY <1>0, <2>1, <2>3
    <2> QED
      BY <2>3, <2>4
  <1>2. ASSUME NEW i \in Slots
        PROVE  AheadFrom(idx, i) \in 0..(Capacity - 1) /\ SlotFrom(idx, AheadFrom(idx, i)) = i
    <2>1. AheadFrom(idx, i) \in 0..(Capacity - 1)
      BY <1>0
    <2>2. PICK a \in 0..(Capacity - 1) : a = AheadFrom(idx, i)
      BY <2>1
    <2>3. SlotFrom(idx, a) = i
      BY <1>0, <2>2
    <2> QED
      BY <2>2, <2>3
  <1> QED
    BY <1>1, <1>2

(***************************************************************************)
(* The slots that can be sampled are beyond the next NumStack raw writes.  *)
(***************************************************************************)
LEMMA AgesFrom ==
  ASSUME IInv
  PROVE  /\ UpTo(Ages, Capacity - 1)
         /\ \A a \in Ages : a >= NumStack /\ Slot(a) \in Slots /\ correct[Slot(a)]
  <1> USE SizesAssumption DEF IInv
  <1>1. index \in Slots /\ size \in 0..Capacity /\ Capacity - 1 \in Nat
    BY DEF TypeOK
  <1>2. ASSUME NEW a \in 0..(Capacity - 1)
        PROVE  Slot(a) \in Slots /\ Ahead(Slot(a)) = a
    BY <1>1, RoundTrip DEF Slot, Ahead, SlotFrom, AheadFrom
  <1>3. ASSUME NEW i \in Slots PROVE Ahead(i) = IF i >= index THEN i - index
                                               ELSE i + Capacity - index
    BY <1>1, RingFacts, Zenon DEF Ahead
  <1>4. ASSUME NEW a \in Ages
        PROVE  a >= NumStack /\ Slot(a) \in Slots /\ correct[Slot(a)]
    <2>1. a \in 0..(Capacity - 1) /\ correct[Slot(a)]
      BY DEF Ages
    <2>2. PICK i \in Slots : i = Slot(a) /\ Ahead(i) = a /\ correct[i]
      BY <1>2, <2>1
    <2>3. CASE size = Capacity
      BY <2>1, <2>2, <2>3 DEF Horizon
    <2>4. CASE size # Capacity
      <3>1. index = size /\ i < size /\ i >= NumStack
        BY <1>1, <2>2, <2>4 DEF Horizon, Slots
      <3>2. a = i + Capacity - size
        BY <1>1, <1>3, <2>2, <3>1 DEF Slots
      <3> QED
        BY <1>1, <2>2, <3>1, <3>2 DEF Slots
    <2> QED
      BY <2>2, <2>3, <2>4
  <1>5. Ages \subseteq 0..(Capacity - 1)
    BY DEF Ages
  <1> QED
    BY <1>1, <1>4, <1>5 DEF UpTo

(***************************************************************************)
(* What insert does to them: all move closer by the rows it wrote, the     *)
(* nearest drop out, and the transition is the farthest.                   *)
(***************************************************************************)
LEMMA AgesMove ==
  ASSUME IInv, NEW tr \in Transitions, Insert(tr)
  PROVE  \E d \in Nat :
           /\ Lead + 1 <= d /\ d <= NumStack + (Lead + 1)
           /\ Ages' = {a - (Lead + 1) : a \in Ages \ Below(Ages, d)} \cup {Capacity - 1}
           /\ \A a \in Ages \ Below(Ages, d) :
                rows'[SlotFrom(index', a - (Lead + 1))] = rows[Slot(a)]
           /\ rows'[SlotFrom(index', Capacity - 1)] =
                [pix |-> tr.pix, done |-> tr.done, inStep |-> InStep(tr)]
  <1> USE SizesAssumption DEF IInv
  <1> DEFINE m == Lead + 1
             d == IF size' = Capacity THEN NumStack + m ELSE m
  <1>1. /\ Lead \in {0, NumStack} /\ m \in Nat /\ d \in Nat /\ m <= d /\ d <= NumStack + m
        /\ index \in Slots /\ index' \in Slots /\ size' \in (NumStack + 1)..Capacity
        /\ size \in 0..Capacity /\ Capacity - 1 \in 0..(Capacity - 1)
    BY InsertMoves DEF TypeOK
  <1>0. /\ \A i : Ahead(i) = AheadFrom(index, i) /\ Ahead(i)' = AheadFrom(index', i)
        /\ \A a : Slot(a) = SlotFrom(index, a) /\ Slot(a)' = SlotFrom(index', a)
    BY DEF Slot, Ahead, SlotFrom, AheadFrom
  <1>2. ASSUME NEW a \in 0..(Capacity - 1)
        PROVE  Slot(a) \in Slots /\ Ahead(Slot(a)) = a
    BY <1>0, <1>1, RoundTrip
  <1>3. ASSUME NEW a \in 0..(Capacity - 1)
        PROVE  Slot(a)' \in Slots /\ \A i \in Slots : i = Slot(a)' => Ahead(i)' = a
    BY <1>0, <1>1, RoundTrip
  <1>4. ASSUME NEW i \in Slots PROVE Ahead(i) \in 0..(Capacity - 1) /\ Slot(Ahead(i)) = i
    BY <1>0, <1>1, RoundTrip
  <1>5. ASSUME NEW i \in Slots, NEW a, a = Ahead(i)' PROVE Slot(a)' = i
    BY <1>0, <1>1, <1>5, RoundTrip
  <1>6. ASSUME NEW i \in Slots
        PROVE  /\ Ahead(i) > Lead => Ahead(i)' = Ahead(i) - m
               /\ Ahead(i) = Lead => Ahead(i)' = Capacity - 1
    BY <1>1, <1>4, InsertMoves
  <1>7. ASSUME NEW i \in Slots
        PROVE  correct'[i] <=> Ahead(i) = Lead \/ (Ahead(i) >= d /\ correct[i])
    <2>1. Ahead(i) \in Int /\ Lead \in Int
      BY <1>1, <1>4
    <2>2. Ahead(i) = Lead => correct'[i]
      BY <1>1, <1>6, InsertKeepsNewest DEF NewestThere
    <2>3. ASSUME correct'[i], Ahead(i) # Lead PROVE Ahead(i) >= d /\ correct[i]
      <3>1. Ahead(i) > Lead /\ correct[i] /\ i \notin Spoiled(index', size')
        <4>1. ~(Ahead(i) < Lead)
          BY <2>3, InsertWrites
        <4>2. Ahead(i) > Lead
          BY <2>1, <2>3, <4>1
        <4> QED
          BY <2>3, <4>2, InsertWrites
      <3>2. size' = Capacity => Ahead(i)' >= NumStack
        BY <1>1, <1>6, <2>1, <3>1, InsertMoves
      <3> QED
        BY <1>1, <1>6, <2>1, <3>1, <3>2
    <2>4. ASSUME Ahead(i) >= d, correct[i] PROVE correct'[i]
      <3>1. Ahead(i) > Lead
        BY <1>1, <2>1, <2>4
      <3>2. i \notin Spoiled(index', size')
        <4>1. CASE size' = Capacity
          BY <1>1, <1>6, <2>1, <2>4, <3>1, <4>1, InsertMoves
        <4>2. CASE size' # Capacity
          <5>1. size' < Capacity /\ size' = size + Lead + 1
            BY <1>1, <4>2, InsertMoves
          <5>2. size < Capacity
            BY <1>1, <5>1
          <5>3. i >= NumStack
            BY <2>4, <5>2 DEF Horizon, Slots
          <5> QED
            BY <4>2, <5>3, InsertMoves DEF Slots
        <4> QED
          BY <4>1, <4>2
      <3> QED
        BY <2>4, <3>1, <3>2 DEF Insert
    <2> QED
      BY <2>2, <2>3, <2>4
  <1>8. ASSUME NEW a \in Ages \ Below(Ages, d)
        PROVE  /\ a \in Int /\ a >= d /\ a - m \in 0..(Capacity - 1) /\ correct'[Slot(a)]
               /\ Slot(a) \in Slots /\ SlotFrom(index', a - m) = Slot(a) /\ rows'[Slot(a)] = rows[Slot(a)]
    <2>1. a \in 0..(Capacity - 1) /\ correct[Slot(a)] /\ a >= d
      BY <1>1 DEF Ages, Below
    <2>2. PICK i \in Slots : i = Slot(a) /\ Ahead(i) = a
      BY <1>2, <2>1
    <2>3. a > Lead /\ Ahead(i)' = a - m /\ correct'[i]
      BY <1>1, <1>6, <1>7, <2>1, <2>2
    <2>4. SlotFrom(index', a - m) = i
      BY <1>0, <1>1, <2>3, RoundTrip
    <2>5. rows'[i] = rows[i]
      BY <2>2, <2>3, InsertWrites
    <2> QED
      BY <1>1, <2>1, <2>2, <2>3, <2>4, <2>5
  <1>9. /\ Ahead(Slot(Lead)) = Lead /\ Slot(Lead) \in Slots
        /\ SlotFrom(index', Capacity - 1) = Slot(Lead)
    <2>1. Lead \in 0..(Capacity - 1)
      BY <1>1
    <2>2. PICK i \in Slots : i = Slot(Lead) /\ Ahead(i) = Lead
      BY <1>2, <2>1
    <2>3. SlotFrom(index', Capacity - 1) = i
      BY <1>0, <1>1, <1>6, <2>2, RoundTrip
    <2> QED
      BY <2>2, <2>3
  <1>10. rows'[SlotFrom(index', Capacity - 1)] =
           [pix |-> tr.pix, done |-> tr.done, inStep |-> InStep(tr)]
    BY <1>9, InsertWrites
  <1>11. Ages' = {a - m : a \in Ages \ Below(Ages, d)} \cup {Capacity - 1}
    <2>1. ASSUME NEW x \in Ages', x # Capacity - 1
          PROVE  x \in {a - m : a \in Ages \ Below(Ages, d)}
      <3>1. x \in 0..(Capacity - 1) /\ correct'[Slot(x)']
        BY DEF Ages
      <3>2. PICK i \in Slots : i = Slot(x)' /\ Ahead(i)' = x /\ correct'[i]
        BY <1>3, <3>1
      <3>3. Ahead(i) >= d /\ correct[i]
        BY <1>6, <1>7, <2>1, <3>2
      <3>4. PICK a \in 0..(Capacity - 1) : a = Ahead(i) /\ Slot(a) = i
        BY <1>4
      <3>5. a \in Ages /\ ~(a < d)
        BY <1>1, <3>3, <3>4 DEF Ages
      <3>6. x = a - m
        BY <1>1, <1>6, <3>2, <3>3, <3>4
      <3> QED
        BY <3>5, <3>6 DEF Below
    <2>2. ASSUME NEW a \in Ages \ Below(Ages, d) PROVE a - m \in Ages'
      <3>1. PICK x \in 0..(Capacity - 1) : x = a - m
        BY <1>8
      <3>2. correct'[Slot(x)']
        <4>1. Slot(x)' = SlotFrom(index', x)
          BY DEF Slot, SlotFrom
        <4> QED
          BY <1>8, <3>1, <4>1
      <3> QED
        BY <3>1, <3>2 DEF Ages
    <2>3. Capacity - 1 \in Ages'
      <3>1. PICK x \in 0..(Capacity - 1) : x = Capacity - 1
        BY <1>1
      <3>2. Slot(x)' = SlotFrom(index', x)
        BY DEF Slot, SlotFrom
      <3>3. correct'[Slot(x)']
        BY <1>7, <1>9, <3>1, <3>2
      <3> QED
        BY <3>1, <3>3 DEF Ages
    <2> QED
      BY <2>1, <2>2, <2>3
  <1>12. \A a \in Ages \ Below(Ages, d) : rows'[SlotFrom(index', a - m)] = rows[Slot(a)]
    BY <1>8
  <1> HIDE DEF d
  <1> QED
    BY <1>1, <1>10, <1>11, <1>12

(***************************************************************************)
(* The log, row by row, for any rows, insert index and ages.               *)
(***************************************************************************)
RowsAt(rw, idx, A) == [k \in 1..Cardinality(A) |-> rw[SlotFrom(idx, Nth(A, k))]]

\* The log of a ring, entry by entry.
LEMMA RowsIs ==
  ASSUME NEW rw, NEW idx, NEW A, UpTo(A, Capacity - 1),
         \A a \in A : rw[SlotFrom(idx, a)] \in Rows
  PROVE  /\ RowsAt(rw, idx, A) \in Seq(Rows)
         /\ Len(RowsAt(rw, idx, A)) = Cardinality(A) /\ Cardinality(A) \in Nat
         /\ \A k \in 1..Cardinality(A) : RowsAt(rw, idx, A)[k] = rw[SlotFrom(idx, Nth(A, k))]
  <1> DEFINE l == Cardinality(A)
             L == RowsAt(rw, idx, A)
  <1>1. l \in Nat
    BY RankIs
  <1>2. ASSUME NEW k \in 1..l PROVE rw[SlotFrom(idx, Nth(A, k))] \in Rows
    <2>1. Nth(A, k) \in A
      BY NthIs
    <2> QED
      BY <2>1
  <1>3. L = [k \in 1..l |-> rw[SlotFrom(idx, Nth(A, k))]]
    BY DEF RowsAt
  <1> HIDE DEF l, L
  <1>4. L \in [1..l -> Rows]
    BY <1>2, <1>3
  <1>5. L \in Seq(Rows) /\ Len(L) = l
    BY <1>1, <1>4, IsASeq, LenProperties
  <1>6. \A k \in 1..l : L[k] = rw[SlotFrom(idx, Nth(A, k))]
    BY <1>3
  <1> QED
    BY <1>1, <1>5, <1>6 DEF l, L

(***************************************************************************)
(* One insert slides the log: it gives up its oldest rows, and gains one.  *)
(***************************************************************************)
LEMMA InsertSlides ==
  ASSUME IInv, NEW tr \in Transitions, Insert(tr)
  PROVE  Log!Next
  <1> USE SizesAssumption
  <1> DEFINE r == [pix |-> tr.pix, done |-> tr.done, inStep |-> InStep(tr)]
             L == LiveRows
             M == LiveRows'
             S == Ages
             T == Ages'
             l == Cardinality(S)
  <1>1. PICK d \in Nat :
           /\ Lead + 1 <= d /\ d <= NumStack + (Lead + 1)
           /\ T = {a - (Lead + 1) : a \in S \ Below(S, d)} \cup {Capacity - 1}
           /\ \A a \in S \ Below(S, d) :
                rows'[SlotFrom(index', a - (Lead + 1))] = rows[Slot(a)]
           /\ rows'[SlotFrom(index', Capacity - 1)] = r
    BY AgesMove
  <1>2. Lead \in {0, NumStack}
    BY DEF Lead
  <1>3. PICK m \in Nat : m = Lead + 1
    BY <1>2
  <1>4. /\ 0 < m /\ m <= NumStack + 1 /\ m <= d /\ d <= NumStack + m
        /\ T = {a - m : a \in S \ Below(S, d)} \cup {Capacity - 1}
        /\ \A a \in S \ Below(S, d) : rows'[SlotFrom(index', a - m)] = rows[SlotFrom(index, a)]
        /\ Capacity - 1 \in Nat
    BY <1>1, <1>2, <1>3 DEF Slot, SlotFrom
  <1>5. /\ UpTo(S, Capacity - 1)
        /\ \A a \in S : a >= NumStack /\ rows[SlotFrom(index, a)] \in Rows
    BY AgesFrom DEF Slot, SlotFrom, IInv, NewestThere
  <1>6. r \in Rows /\ r \in Inserted
    <2>1. InStep(tr) \in BOOLEAN
      BY DEF InStep
    <2> QED
      BY <2>1, TransitionsAssumption DEF Rows, Inserted
  <1>7. L = RowsAt(rows, index, S) /\ M = RowsAt(rows', index', T)
    BY DEF LiveRows, RowsAt, Slot, SlotFrom
  <1> HIDE DEF L, M, S, T, r
  <1>8. /\ L \in Seq(Rows) /\ Len(L) = l /\ l \in Nat
        /\ \A k \in 1..l : L[k] = rows[SlotFrom(index, Nth(S, k))]
    BY <1>5, <1>7, RowsIs
  <1>9. PICK n \in Nat : n = Cardinality(Below(S, d)) /\ n <= l
    BY <1>5, RankIs
  <1>10. /\ UpTo(T, Capacity - 1) /\ Cardinality(T) = (l - n) + 1
         /\ \A k \in 1..(l - n) : k + n \in 1..l /\ Nth(T, k) = Nth(S, k + n) - m
         /\ \A k \in 1..(l - n) : Nth(S, k + n) >= d
         /\ Nth(T, (l - n) + 1) = Capacity - 1
    <2>1. PICK c \in Nat : c = Capacity - 1
      BY <1>4
    <2>2. PICK x \in Nat : x = l
      BY <1>8
    <2>3. UpTo(S, c) /\ Moved(S, T, m, d, c)
      BY <1>4, <1>5, <2>1 DEF Moved
    <2>4. /\ UpTo(T, c) /\ Cardinality(T) = (x - n) + 1
          /\ \A k \in 1..(x - n) : /\ k + n \in 1..x /\ Nth(S, k + n) >= d
                                   /\ Nth(T, k) = Nth(S, k + n) - m
          /\ Nth(T, (x - n) + 1) = c
      <3>1. /\ m \in Nat /\ d \in Nat /\ c \in Nat /\ 0 < m /\ m <= d
            /\ n = Cardinality(Below(S, d)) /\ x = Cardinality(S)
        BY <1>4, <1>9, <2>2
      <3>2. UpTo(T, c) /\ Cardinality(T) = (x - n) + 1
        BY <2>3, <3>1, Shifted
      <3>3. \A k \in 1..(x - n) : k + n \in 1..x /\ Nth(S, k + n) >= d
        BY <2>3, <3>1, Shifted
      <3>4. \A k \in 1..(x - n) : Nth(T, k) = Nth(S, k + n) - m
        BY <2>3, <3>1, Shifted
      <3>5. Nth(T, (x - n) + 1) = c
        BY <2>3, <3>1, Shifted
      <3> QED
        BY <3>2, <3>3, <3>4, <3>5
    <2> HIDE DEF l
    <2> QED
      BY <2>1, <2>2, <2>4
  <1>11. \A t \in T : rows'[SlotFrom(index', t)] \in Rows
    <2>1. ASSUME NEW a \in S \ Below(S, d) PROVE rows'[SlotFrom(index', a - m)] \in Rows
      BY <1>4, <1>5
    <2>2. rows'[SlotFrom(index', Capacity - 1)] \in Rows
      BY <1>1, <1>6
    <2> QED
      BY <1>4, <2>1, <2>2
  <1>12. /\ M \in Seq(Rows) /\ Len(M) = (l - n) + 1
         /\ \A k \in 1..((l - n) + 1) : M[k] = rows'[SlotFrom(index', Nth(T, k))]
    BY <1>7, <1>10, <1>11, RowsIs
  <1>13. ASSUME NEW k \in 1..Len(M) PROVE M[k] = IF k <= Len(L) - n THEN L[k + n] ELSE r
    <2>1. k \in 1..((l - n) + 1)
      BY <1>12
    <2>2. CASE k <= l - n
      <3>1. k \in 1..(l - n)
        BY <2>1, <2>2, <1>8, <1>9
      <3>2. PICK a \in S : a = Nth(S, k + n) /\ a >= d
        BY <1>5, <1>10, <3>1, NthIs
      <3>3. a \in S \ Below(S, d)
        <4>1. a \in Int
          BY <1>5 DEF UpTo
        <4> QED
          BY <3>2, <4>1 DEF Below
      <3>4. M[k] = rows'[SlotFrom(index', a - m)]
        BY <1>10, <1>12, <2>1, <3>1, <3>2
      <3>5. L[k + n] = rows[SlotFrom(index, a)]
        BY <1>8, <1>10, <3>1, <3>2
      <3> QED
        BY <1>4, <1>8, <2>2, <3>3, <3>4, <3>5
    <2>3. CASE ~(k <= l - n)
      <3>1. k = (l - n) + 1
        BY <1>8, <1>9, <2>1, <2>3
      <3>2. M[k] = r
        BY <1>1, <1>10, <1>12, <2>1, <3>1
      <3> QED
        BY <1>8, <2>3, <3>2
    <2> QED
      BY <2>2, <2>3
  <1>14. n \in 0..(NumStack + 1)
    <2>1. Below(S, d) \subseteq NumStack..(d - 1)
      <3>1. ASSUME NEW a \in Below(S, d) PROVE a \in NumStack..(d - 1)
        <4>1. a \in S /\ a < d
          BY DEF Below
        <4>2. a \in Int /\ a >= NumStack
          BY <1>5, <4>1 DEF UpTo
        <4> QED
          BY <4>1, <4>2
      <3> QED
        BY <3>1
    <2>2. /\ IsFiniteSet(NumStack..(d - 1))
          /\ Cardinality(NumStack..(d - 1)) = IF NumStack > d - 1 THEN 0 ELSE (d - 1) - NumStack + 1
      <3>1. NumStack \in Int /\ d - 1 \in Int
        OBVIOUS
      <3> QED
        BY <3>1, FS_Interval
    <2>3. n <= Cardinality(NumStack..(d - 1))
      BY <1>9, <2>1, <2>2, FS_Subset
    <2> QED
      BY <1>4, <2>2, <2>3
  <1>15. M = SubSeq(L, n + 1, Len(L)) \o [j \in 1..1 |-> r]
    <2>1. n <= Len(L) /\ Len(M) = Len(L) - n + 1
      BY <1>8, <1>9, <1>12
    <2> QED
      BY <1>6, <1>8, <1>12, <1>13, <2>1, SlideIs
  <1>16. PICK trs \in [1..1 -> Inserted] : trs = [j \in 1..1 |-> r]
    BY <1>6
  <1> QED
    BY <1>8, <1>9, <1>14, <1>15, <1>16 DEF Log!Next, Log!Add, L, M

(***************************************************************************)
(* What the image ring samples is a log that slides over the history of    *)
(* insert calls, for every capacity and stack depth: every call adds its   *)
(* transition once, as the newest, and gives up at most NumStack + 1.      *)
(***************************************************************************)
THEOREM SlidesAsLogCorrect == Spec => SlidesAsLog
  <1>1. Init => Log!Init
    <2> SUFFICES ASSUME Init PROVE LiveRows = <<>>
      BY DEF Log!Init
    <2>1. Ages = {}
      BY SizesAssumption, RoundTrip DEF Init, Ages, Slot, SlotFrom, Slots
    <2>2. Cardinality(Ages) = 0
      BY <2>1, FS_EmptySet
    <2>3. LiveRows = [k \in 1..0 |-> rows[Slot(Nth(Ages, k))]]
      BY <2>2 DEF LiveRows
    <2> QED
      BY <2>3
  <1>2. IInv /\ [Next]_vars => [Log!Next]_LiveRows
    <2>1. ASSUME IInv, NEW tr \in Transitions, Insert(tr) PROVE Log!Next
      BY <2>1, InsertSlides
    <2>2. ASSUME UNCHANGED vars PROVE LiveRows' = LiveRows
      <3>1. Ages' = Ages
        BY <2>2 DEF vars, Ages, Slot
      <3> QED
        BY <2>2, <3>1 DEF vars, LiveRows, Slot
    <2> QED
      BY <2>1, <2>2 DEF Next
  <1> QED
    BY <1>1, <1>2, Invariance, PTL DEF Spec, SlidesAsLog, Log!Spec
===============================================================================
