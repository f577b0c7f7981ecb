------------------------------- MODULE Diffusion -------------------------------
(***************************************************************************)
(* The base policies trained by behaviour cloning (DiffusionPolicy and     *)
(* FlowPolicy) and the batches they are shown.  A dataset is               *)
(* demonstrations laid end to end, and its steps are 0 .. NSteps - 1.  A   *)
(* policy is the set of steps its weights and its moving average learned   *)
(* from, and the path of its random key (see Agents).                      *)
(***************************************************************************)
EXTENDS Agents

CONSTANTS NSteps,      \* N: steps of the dataset
          DemoEnds,    \* where in it a demonstration has ended
          Horizon,     \* H, Tp: actions of a window
          ObsHistory   \* obs_history: frames of a flow policy's observation

ASSUME DemoAssumption ==
  /\ NSteps \in Nat \ {0}
  /\ DemoEnds \subseteq 1 .. NSteps /\ NSteps \in DemoEnds
  /\ Horizon \in Nat \ {0} /\ ObsHistory \in Nat \ {0}

Trainers == {"dp", "flow", "flow_state"}

-------------------------------------------------------------------------------
(* The dataset *)

Steps == 0 .. NSteps - 1
DemoOfStep == [s \in Steps |-> Cardinality({e \in DemoEnds : e <= s})]
SameDemo(s) == {t \in Steps : DemoOfStep[t] = DemoOfStep[s]}
DemoStart(s) == Min(SameDemo(s))
DemoEnd(s) == Max(SameDemo(s))
ValidStarts == {s \in 0 .. NSteps - Horizon : DemoOfStep[s] = DemoOfStep[s + (Horizon - 1)]}

Clip(x, lo, hi) == IF x < lo THEN lo ELSE IF x > hi THEN hi ELSE x

(* A sample: the steps whose frames are observed, and those whose actions  *)
(* are learned.                                                            *)
\* Mutant: the history is clamped to the first step of the dataset.
FlowSampleFromZero(s) ==
  [frames  |-> [o \in 1 .. ObsHistory |-> Clip((s - ObsHistory) + o, 0, s)],
   actions |-> [k \in 1 .. Horizon |-> Clip(s + (k - 1), 0, DemoEnd(s))]]
FlowSample(s) ==
  [frames  |-> [o \in 1 .. ObsHistory |-> Clip((s - ObsHistory) + o, DemoStart(s), s)],
   actions |-> [k \in 1 .. Horizon |-> Clip(s + (k - 1), 0, DemoEnd(s))]]

FlowStateSample(s) == FlowSample(s)   \* the state dataset has a copy of its own

DPSample(s) == [frames |-> <<s>>, actions |-> [k \in 1 .. Horizon |-> s + (k - 1)]]

Samples(t) == CASE t = "dp" -> {DPSample(s) : s \in ValidStarts}
                [] t = "flow" -> {FlowSample(s) : s \in Steps}
                [] t = "flow_state" -> {FlowStateSample(s) : s \in Steps}

-------------------------------------------------------------------------------
(* The policies *)

DPCreate(k) == [learned |-> {}, ema |-> {}, rng |-> Split(k, 2), step |-> 0]
FlowCreate(k) == [learned |-> {}, ema |-> {}, rng |-> Split(k, 2), step |-> 0]
CreatePolicy(t, seed) == IF t = "dp" THEN DPCreate(Root(seed)) ELSE FlowCreate(Root(seed))

DPDraws(k) == Draw("t", 0, Split(k, 0)) \cup Draw("noise", 0, Split(k, 1))
                \cup Draw("noise", 1, FoldIn(Split(k, 2)))
DPUpdate(p, w) ==
  [policy |-> [p EXCEPT !.learned = @ \cup Range(w.actions), !.step = @ + 1,
                        !.rng = Split(@, 0)],
   draws |-> DPDraws(Split(p.rng, 1))]

FlowDraws(k) == Draw("noise", 0, Split(k, 0)) \cup Draw("t", 0, Split(k, 1))
(* One key per camera, two cameras. *)
FlowAugmentDraws(k) ==
  CropDraws("camera_1", Split(k, 1)) \cup CropDraws("camera_2", Split(Split(k, 0), 1))

FlowUpdate(p, w, images) ==
  LET learned == p.learned \cup Range(w.actions)
  IN [policy |-> [p EXCEPT !.learned = learned, !.ema = @ \cup learned, !.step = @ + 1,
                           !.rng = Split(@, 0)],
      draws |-> FlowDraws(Split(p.rng, 1))
                  \cup IF images THEN FlowAugmentDraws(Split(p.rng, 2)) ELSE {}]

UpdatePolicy(t, p, w) == IF t = "dp" THEN DPUpdate(p, w) ELSE FlowUpdate(p, w, t = "flow")

(* An evaluation rolls the average out, then the weights themselves; one   *)
(* chunk stands for an episode.  It returns the keys it drew.              *)
SampleChunkDraws(use, k) == Draw(use, 0, k)
ColdRolloutDraws(use, k) == SampleChunkDraws(use, Split(k, 1))
EvaluationDraws(k) == ColdRolloutDraws("ema", Split(k, 1))
                        \cup ColdRolloutDraws("online", Split(k, 2))

===============================================================================
