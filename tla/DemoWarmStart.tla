---------------------------- MODULE DemoWarmStart ----------------------------
(***************************************************************************)
(* The demonstrations a pixel session starts from: residual_transitions of *)
(* envs/dataset_loader.py cuts chunk transitions from the recorded demos,  *)
(* preload_demos inserts them, in order, into the demo buffer.             *)
(* An image is named by the dataset step that recorded it.                 *)
(***************************************************************************)
EXTENDS Integers, FiniteSets

CONSTANTS DemoOf,        \* demo_of_step, by dataset step
          Dones,         \* the dataset steps recorded as done
          Horizon,       \* H, actions per chunk
          MaxTransitions,\* max_transitions, or None
          Capacity, None, NoFrame, NoRow

N == Cardinality(DOMAIN DemoOf)

VARIABLES frames, rows, correct, index, size, first,  \* the demo buffer
          todo                                        \* starts still to insert

buffer == <<frames, rows, correct, index, size, first>>

\* A chunk starts where its H steps belong to one demo.
ValidStarts == {s \in 0..(N - Horizon) : DemoOf[s] = DemoOf[s + Horizon - 1]}

\* A transition needs the next chunk too.
Starts ==
  {s \in ValidStarts : s + 2 * Horizon - 1 < N /\ DemoOf[s + 2 * Horizon - 1] = DemoOf[s]}

\* One image of the observation at s, one of the observation H steps on.
Transition(s) ==
  [pix  |-> [k \in 0..1 |-> s + k * Horizon],
   done |-> \E d \in Dones : d \in s..(s + Horizon - 1)]

Buffer == INSTANCE PixelReplayBuffer
            WITH NumStack <- 1, Frames <- 0..(N - 1),
                 Transitions <- {Transition(s) : s \in Starts}

Init ==
  /\ Buffer!Init
  /\ todo \in SUBSET Starts
  /\ IF MaxTransitions = None \/ Cardinality(Starts) <= MaxTransitions
     THEN todo = Starts ELSE Cardinality(todo) = MaxTransitions

Preload ==
  \E s \in todo :
    /\ \A r \in todo : s <= r
    /\ Buffer!Insert(Transition(s))
    /\ todo' = todo \ {s}

Next == Preload

Spec == Init /\ [][Next]_<<buffer, todo>>

-----------------------------------------------------------------------------
(***************************************************************************)
(* "the stored full actions stays the demo chunk (so d(s,a)=s' is exact)"  *)
(* (dataset_loader.py:119): a sampled demo transition shows the image at   *)
(* the start s of its own chunk and the image H steps later.               *)
(***************************************************************************)
DemoImagesExact == Buffer!PixelsExact
==============================================================================
