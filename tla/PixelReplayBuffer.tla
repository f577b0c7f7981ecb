-------------------------- MODULE PixelReplayBuffer --------------------------
(***************************************************************************)
(* MemoryEfficientReplayBuffer, the ring buffer Session uses for pixel     *)
(* observations.  It keeps ONE frame per slot.  A sample of slot i returns *)
(* a window of NumStack + 1 consecutive frames that ends at i; its first   *)
(* NumStack frames are the observation, its last NumStack frames the next  *)
(* observation.  The other columns of the transition are kept per slot.    *)
(*                                                                         *)
(* insert and sample run under the lock of the data store, so each is one  *)
(* step here.  One insert is up to NumStack + 1 raw row writes:            *)
(*   - the first transition of an episode is preceded by its NumStack      *)
(*     observation frames, in slots that cannot be sampled;                *)
(*   - when the ring is full and starts over inside an episode, the last   *)
(*     NumStack rows are copied to the front first;                        *)
(*   - the NumStack slots ahead of the new index lose a frame of their     *)
(*     window to the next insert, and can no longer be sampled.            *)
(***************************************************************************)
EXTENDS Naturals, Sequences, FiniteSets

CONSTANTS Capacity,     \* slots of the ring
          NumStack,     \* frames per observation
          Frames,       \* images
          Transitions,  \* what the callers insert
          NoFrame,      \* contents of a slot never written (np.empty)
          NoRow

ASSUME SizesAssumption ==
  /\ NumStack \in Nat \ {0}
  /\ Capacity \in Nat
  /\ Capacity >= 2 * NumStack

\* pix: the NumStack frames of the observation, then the newest frame.
ASSUME TransitionsAssumption ==
  Transitions \subseteq [pix : [0..NumStack -> Frames], done : BOOLEAN]

VARIABLES frames,   \* dataset_dict["observations"][pixel_key]
          rows,     \* the other columns of dataset_dict
          correct,  \* _is_correct_index
          index,    \* _insert_index
          size,     \* _size
          first     \* _first: the next transition starts an episode

vars == <<frames, rows, correct, index, size, first>>

Slots == 0..(Capacity - 1)

(***************************************************************************)
(* A row is the transition it came from.  inStep is a history of the       *)
(* calls, not a column: since the episode began, every transition inserted *)
(* here started with the frames its predecessor ended with.                *)
(***************************************************************************)
Rows == [pix : [0..NumStack -> Frames], done : BOOLEAN, inStep : BOOLEAN]

Init ==
  /\ frames = [i \in Slots |-> NoFrame]
  /\ rows = [i \in Slots |-> NoRow]
  /\ correct = [i \in Slots |-> FALSE]
  /\ index = 0
  /\ size = 0
  /\ first = TRUE

-----------------------------------------------------------------------------
\* Mutant: the ring does not start over.
SlotUnwrapped(k) == index + k

\* The slot of the k-th raw row write of a call, counted from 0.
Slot(k) == (index + k) % Capacity

\* How many raw row writes from now slot i is written.
Ahead(i) == (i + Capacity - index) % Capacity

\* The row the previous call left behind the insert index.
Newest == rows[(index + Capacity - 1) % Capacity]

\* tr takes up where the previous transition of its episode stopped.
InStep(tr) ==
  \/ first
  \/ Newest.inStep /\ \A j \in 1..NumStack : tr.pix[j - 1] = Newest.pix[j]

\* The ring starts over inside an episode.
CopiesTail == index = 0 /\ size = Capacity /\ ~first

\* Raw row writes before the transition's own.
Lead == IF first \/ CopiesTail THEN NumStack ELSE 0

\* Frame and columns of the k-th raw row write.
FrameWritten(tr, k) ==
  IF k = Lead THEN tr.pix[NumStack]
  ELSE IF first THEN tr.pix[k] ELSE frames[Capacity - NumStack + k]

RowWritten(tr, k) ==
  IF k < Lead /\ CopiesTail
  THEN rows[Capacity - NumStack + k]
  ELSE [pix |-> tr.pix, done |-> tr.done, inStep |-> InStep(tr)]

\* Mutants: one slot too many, one too few.
SpoiledOneMore(idx, len) == {(idx + k) % len : k \in 0..NumStack}

SpoiledOneLess(idx, len) == {(idx + k) % len : k \in 1..(NumStack - 1)}

\* (self._insert_index + i) % len(self), after the writes of the call.
Spoiled(idx, len) == {(idx + k) % len : k \in 0..(NumStack - 1)}

NewSize == IF size + Lead + 1 < Capacity THEN size + Lead + 1 ELSE Capacity

\* Mutant: the rows in front of the transition can be sampled too.
InsertAllCorrect(tr) ==
  /\ frames' = [i \in Slots |-> IF Ahead(i) <= Lead
                                THEN FrameWritten(tr, Ahead(i)) ELSE frames[i]]
  /\ rows' = [i \in Slots |-> IF Ahead(i) <= Lead
                              THEN RowWritten(tr, Ahead(i)) ELSE rows[i]]
  /\ index' = Slot(Lead + 1)
  /\ size' = NewSize
  /\ correct' = [i \in Slots |->
                   /\ i \notin Spoiled(Slot(Lead + 1), NewSize)
                   /\ Ahead(i) <= Lead \/ correct[i]]
  /\ first' = tr.done

(***************************************************************************)
(* insert, the whole call.                                                 *)
(***************************************************************************)
Insert(tr) ==
  /\ frames' = [i \in Slots |-> IF Ahead(i) <= Lead
                                THEN FrameWritten(tr, Ahead(i)) ELSE frames[i]]
  /\ rows' = [i \in Slots |-> IF Ahead(i) <= Lead
                              THEN RowWritten(tr, Ahead(i)) ELSE rows[i]]
  /\ index' = Slot(Lead + 1)
  /\ size' = NewSize
  /\ correct' = [i \in Slots |->
                   /\ i \notin Spoiled(Slot(Lead + 1), NewSize)
                   /\ Ahead(i) = Lead \/ (Ahead(i) > Lead /\ correct[i])]
  /\ first' = tr.done

Next == \E tr \in Transitions : Insert(tr)

Spec == Init /\ [][Next]_vars

-----------------------------------------------------------------------------
(***************************************************************************)
(* sample: an index is drawn again until it is correct; the window is      *)
(* sliding_window_view(frames, NumStack + 1)[i - NumStack], and a negative *)
(* index counts from the last of the Capacity - NumStack windows.          *)
(***************************************************************************)
Sampleable == {i \in 0..(size - 1) : correct[i]}

WindowStart(i) ==
  IF i >= NumStack THEN i - NumStack ELSE (Capacity - NumStack) + (i - NumStack)

Window(i) == [k \in 0..NumStack |-> frames[WindowStart(i) + k]]

-----------------------------------------------------------------------------
TypeOK ==
  /\ frames \in [Slots -> Frames \cup {NoFrame}]
  /\ rows \in [Slots -> Rows \cup {NoRow}]
  /\ correct \in [Slots -> BOOLEAN]
  /\ index \in Slots
  /\ size \in 0..Capacity
  /\ first \in BOOLEAN

(***************************************************************************)
(* The rejection loop of sample can stop: once something was inserted,     *)
(* some index below len(self) is correct.  The loop holds the data store's *)
(* lock, so otherwise learner and actors would hang.                       *)
(***************************************************************************)
SampleTerminates == size > 0 => Sampleable # {}

(***************************************************************************)
(* A sampled window holds the transition's own frames, for every slot      *)
(* outside the first NumStack and every transition of an episode that was  *)
(* inserted in step: no raw write of any later call, no wrap and no other  *)
(* episode has changed one of its NumStack + 1 frames.                     *)
(***************************************************************************)
WindowMatchesRow ==
  \A i \in Sampleable :
    i >= NumStack /\ rows[i].inStep => Window(i) = rows[i].pix

(***************************************************************************)
(* pack_obs_and_next_obs packs "img and next_img into one image"           *)
(* (memory_efficient_replay_buffer.py:106): the window of EVERY index the  *)
(* buffer holds correct is the image and the next image of its row.        *)
(***************************************************************************)
PackedIsImgAndNextImg ==
  \A i \in Sampleable : rows[i].inStep => Window(i) = rows[i].pix

(***************************************************************************)
(* "s = decision obs ... d(s,a)=s' exact" (dataset_loader.py:119): the     *)
(* sampled pixels are those of the inserted transition, also when the      *)
(* caller thins an episode out or ends it without done.                    *)
(***************************************************************************)
PixelsExact ==
  \A i \in Sampleable : i >= NumStack => Window(i) = rows[i].pix

\* The raw row writes until a slot that can be sampled is overwritten.
Ages == {a \in 0..(Capacity - 1) : correct[Slot(a)]}

\* The k-th smallest of a set of numbers: k - 1 others are smaller.
Nth(S, k) == CHOOSE a \in S : Cardinality({b \in S : b < a}) = k - 1

\* The rows that can be sampled, oldest first.
LiveRows == LET ages == Ages
            IN  [k \in 1..Cardinality(ages) |-> rows[Slot(Nth(ages, k))]]

\* The rows that insert makes of its argument.
Inserted ==
  {[pix |-> tr.pix, done |-> tr.done, inStep |-> b] : tr \in Transitions, b \in BOOLEAN}

Log == INSTANCE ReplayLog
         WITH Transitions <- Inserted, MaxEvict <- NumStack + 1, Batches <- {1},
              log <- LiveRows

(***************************************************************************)
(* The rows that can be sampled, oldest first, slide over the history of   *)
(* insert calls as a ReplayLog: each call adds its transition exactly once *)
(* and gives up at most the NumStack + 1 oldest.                           *)
(***************************************************************************)
SlidesAsLog == Log!Spec
==============================================================================
