------------------------------- MODULE ChunkEnv -------------------------------
(***************************************************************************)
(* A robomimic environment under the ActionChunkWrapper: episodes of at    *)
(* most MaxEpisodeSteps steps, chunks of up to h steps that stop early,    *)
(* and the history of frames that base policies are shown.  A frame names  *)
(* the episode and the step it was taken at, so a stale one is known.      *)
(***************************************************************************)
EXTENDS Naturals, Sequences, FiniteSets

CONSTANTS MaxEpisodeSteps,
          FrameHistory   \* frames a base policy is shown (maxlen of _fh)

ASSUME ChunkEnvAssumption ==
  /\ MaxEpisodeSteps \in Nat \ {0}
  /\ FrameHistory \in Nat \ {0}

VARIABLES env,  \* [ep, t]: the episode and _elapsed
          fh    \* _fh: the last frames, at most FrameHistory of them

envVars == <<env, fh>>

\* Mutant: a deque without a maxlen.
AllFrames(frames) == frames

LastFrames(frames) ==
  SubSeq(frames, 1 + (IF Len(frames) > FrameHistory THEN Len(frames) - FrameHistory ELSE 0),
         Len(frames))

(***************************************************************************)
(* RoboMimicPixelEnv.step and RoboMimicStateEnv.step: success is the done  *)
(* flag, the step limit truncates, and neither stops the simulator: a step *)
(* after the end is a step like any other.                                 *)
(***************************************************************************)
Truncated(t) == t >= MaxEpisodeSteps

(***************************************************************************)
(* ActionChunkWrapper.step: what a chunk of h steps may come to.  n is the *)
(* number of steps taken: the first that is done or truncated is the last. *)
(***************************************************************************)
OutcomesPastTruncation(h) ==
  {o \in [n : 1..h, done : BOOLEAN, trunc : BOOLEAN] :
     /\ o.trunc = Truncated(env.t + o.n)
     /\ o.n < h => o.done}

Outcomes(h) ==
  {o \in [n : 1..h, done : BOOLEAN, trunc : BOOLEAN] :
     /\ o.trunc = Truncated(env.t + o.n)
     /\ \A i \in 1..(o.n - 1) : ~Truncated(env.t + i)
     /\ o.n < h => o.done \/ o.trunc}

StepChunk(o) ==
  /\ env' = [env EXCEPT !.t = @ + o.n]
  /\ fh' = LastFrames(fh \o [i \in 1..o.n |-> [env EXCEPT !.t = @ + i]])

\* Mutant: the frames of the last episode stay.
ResetKeepsFrames ==
  /\ env' = [ep |-> env.ep + 1, t |-> 0]
  /\ fh' = LastFrames(Append(fh, env'))

\* ActionChunkWrapper.reset.
Reset ==
  /\ env' = [ep |-> env.ep + 1, t |-> 0]
  /\ fh' = <<env'>>

\* base_obs: FrameHistory frames, the oldest repeated in front.
BaseObs ==
  [i \in 1..FrameHistory |->
     IF i + Len(fh) <= FrameHistory THEN fh[1] ELSE fh[i + Len(fh) - FrameHistory]]

(***************************************************************************)
(* A rollout that is not stored: a reset and chunks until the episode is   *)
(* done or truncated, after t steps in all.                                *)
(***************************************************************************)
RolloutTo(t) ==
  /\ env' = [ep |-> env.ep + 1, t |-> t]
  /\ fh' = LastFrames([i \in 1..(t + 1) |-> [ep |-> env.ep + 1, t |-> i - 1]])

\* The history of a frame, as the training data of the base policies has it.
HistoryOf(f) ==
  [i \in 1..FrameHistory |->
     [f EXCEPT !.t = IF @ + i >= FrameHistory THEN @ + i - FrameHistory ELSE 0]]
==============================================================================
