----------------------------- MODULE MCActorLoop -----------------------------
(* A session that stops after one update, paced at two updates a step.     *)
EXTENDS ActorLoop

CONSTANTS t1

MCConfigs == {[pretrain_steps |-> 0, training_starts |-> 1, max_steps |-> 1,
               max_utd |-> 0, cta_ratio |-> 2]}
==============================================================================
