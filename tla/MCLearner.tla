------------------------------ MODULE MCLearner ------------------------------
(***************************************************************************)
(* Sessions small enough to check: a pretraining one, one whose learner is *)
(* capped, one that may start on empty buffers, one that never warms up.   *)
(***************************************************************************)
EXTENDS Learner

CONSTANTS t1, t2

Session(pretrain, starts, steps, utd, cta) ==
  [pretrain_steps |-> pretrain, training_starts |-> starts,
   max_steps |-> steps, max_utd |-> utd, cta_ratio |-> cta]

MCConfigs == {Session(1, 2, 2, 0, 1), Session(0, 2, 0, 2, 2), Session(0, 0, 2, 0, 1)}

\* The documented loop's session: it stops after two updates.
MCMaxSteps == {Session(0, 1, 1, 0, 1)}
==============================================================================
