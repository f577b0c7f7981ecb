-------------------------------- MODULE Rollout --------------------------------
(***************************************************************************)
(* The actor scripts, each the main thread of its process, over ChunkEnv:  *)
(* residual training (train.py), RLPD (train_rlpd.py), latent steering     *)
(* (train_dsrl.py), gated interventions (train_qoil.py), the collection of *)
(* demonstrations (collect_state_dp_demos.py) and the evaluation of        *)
(* checkpoints.  One action per stretch between the points where the       *)
(* learner, which may end at any moment, makes a difference.               *)
(***************************************************************************)
EXTENDS ChunkEnv

CONSTANTS Scripts,        \* subset of AllScripts
          Horizon,        \* H, Ta: steps of a chunk
          RandomChunks,   \* random_chunks, random_steps
          EvalEvery,      \* eval_every
          PamK,           \* pam_k: the window of the stagnation gate
          TargetSuccesses,
          EpisodeBound    \* bound: no step is taken in a later episode

Trainers == {"residual", "rlpd", "dsrl", "qoil"}
Evaluators == {"eval_base", "eval_dsrl", "eval_flow"}
AllScripts == Trainers \cup Evaluators \cup {"collect"}

ASSUME RolloutAssumption ==
  /\ Scripts \subseteq AllScripts
  /\ Horizon \in Nat \ {0} /\ EvalEvery \in Nat \ {0} /\ PamK \in Nat \ {0}
  /\ RandomChunks \in Nat /\ TargetSuccesses \in Nat \ {0} /\ EpisodeBound \in Nat

VARIABLES script, pc, learning,
          waits,       \* min_utd > 0, and the learner has stepped
          obs, base,   \* the loop's obs and a_base, base by the frames shown
          vhist, gate, \* V* history, by frames, and intervene_next
          chunk_step, last_eval,
          ep, kept,    \* collect: the episode so far and the arrays kept
          last,        \* history: the last transition added
          streams,     \* history: the last transition of each buffer
          evaluated    \* history: the environment ran evaluations since obs

loopVars == <<obs, base, vhist, gate, chunk_step, last_eval>>
history == <<last, streams, evaluated>>
vars == <<script, pc, learning, waits, env, fh, loopVars, ep, kept, history>>

None == [seq |-> 0]
Rings == {"online", "demo"}

Init ==
  /\ script \in Scripts
  /\ pc = "loop" /\ learning = TRUE /\ waits \in BOOLEAN
  /\ env = [ep |-> 1, t |-> 0] /\ fh = <<env>>
  /\ obs = env /\ base = BaseObs
  /\ vhist = <<>> /\ gate = FALSE
  /\ chunk_step = 0 /\ last_eval = 0
  /\ ep = <<>> /\ kept = <<>>
  /\ last = None /\ streams = [r \in Rings |-> None] /\ evaluated = FALSE

-----------------------------------------------------------------------------
Running == pc = "loop" /\ learning /\ env.ep <= EpisodeBound

\* One pass of a loop: what the policies were shown, and what came of it.
Passed(o) ==
  last' = [obs |-> obs, at |-> env, next |-> env', base |-> base, nextBase |-> BaseObs',
           n |-> o.n, done |-> o.done, trunc |-> o.trunc, evaluated |-> evaluated,
           seq |-> chunk_step + 1]

\* session.buffer.add of the transition, into one of the two buffers.
AddTransition(o, ring) ==
  /\ Passed(o)
  /\ streams' = [streams EXCEPT ![ring] = last']
  /\ evaluated' = FALSE

\* Mutant: the next pass acts on the observation of this one.
GoOnKeepsObs(o) ==
  IF o.done \/ o.trunc
  THEN pc' = "boundary" /\ UNCHANGED <<obs, base>>
  ELSE pc' = "loop" /\ UNCHANGED obs /\ base' = BaseObs'

\* obs, a_base = next_obs, next_a_base, unless the episode is over.
GoOn(o) ==
  IF o.done \/ o.trunc
  THEN pc' = "boundary" /\ UNCHANGED <<obs, base>>
  ELSE pc' = "loop" /\ obs' = env' /\ base' = BaseObs'

(***************************************************************************)
(* train.py: the base chunk is queried once per frame, right after the     *)
(* step, and stored as next_base_actions and as the next base_actions.     *)
(***************************************************************************)
ResidualStep ==
  /\ script = "residual" /\ Running
  /\ \E o \in Outcomes(Horizon) :
       /\ StepChunk(o)
       /\ AddTransition(o, "online")
       /\ GoOn(o)
  /\ chunk_step' = chunk_step + 1
  /\ UNCHANGED <<script, learning, waits, vhist, gate, last_eval, ep, kept>>

(***************************************************************************)
(* train_dsrl.py over LatentDecodeEnv: the latent is decoded from the      *)
(* frame history the wrapper holds at the moment of the step.              *)
(***************************************************************************)
DsrlStep ==
  /\ script = "dsrl" /\ Running
  /\ \E o \in Outcomes(Horizon) :
       /\ StepChunk(o)
       /\ AddTransition(o, "online")
       /\ GoOn(o)
  /\ chunk_step' = chunk_step + 1
  /\ UNCHANGED <<script, learning, waits, vhist, gate, last_eval, ep, kept>>

\* stagnating: the window is full, and its values decide.
Stagnating(h) == Len(h) > PamK

(***************************************************************************)
(* train_qoil.py: the gate computed after a chunk picks who acts in the    *)
(* next one, and the expert's transitions go to the demo buffer.           *)
(***************************************************************************)
QoilStep ==
  /\ script = "qoil" /\ Running
  /\ \E o \in Outcomes(Horizon) :
       /\ StepChunk(o)
       /\ AddTransition(o, IF chunk_step >= RandomChunks /\ gate THEN "demo" ELSE "online")
       /\ GoOn(o)
       /\ LET h == vhist \o [i \in 1..o.n |-> [env EXCEPT !.t = @ + i]]
          IN  vhist' = SubSeq(h, 1 + (IF Len(h) > PamK + 1 THEN Len(h) - PamK - 1 ELSE 0), Len(h))
  /\ gate' \in (IF Stagnating(vhist') THEN BOOLEAN ELSE {FALSE})
  /\ chunk_step' = chunk_step + 1
  /\ UNCHANGED <<script, learning, waits, last_eval, ep, kept>>

EvalDue == chunk_step - last_eval >= EvalEvery

(***************************************************************************)
(* The end of an episode in the three chunk scripts: wait for the UTD (not *)
(* in train_qoil.py), evaluate in the same environment if it is time, and  *)
(* reset.  A learner that has ended never raises the UTD.                  *)
(***************************************************************************)
\* Mutant: the wait does not look at min_utd.
WaitedAlways == learning

Waited == waits /\ script # "qoil" => learning

\* Mutant: the gate outlives the episode.
BoundaryKeepsGate ==
  /\ pc = "boundary" /\ script \in {"residual", "dsrl", "qoil"} /\ Waited /\ ~EvalDue
  /\ Reset
  /\ obs' = env' /\ base' = BaseObs'
  /\ vhist' = <<>>
  /\ pc' = "loop"
  /\ UNCHANGED <<script, learning, waits, gate, chunk_step, last_eval, ep, kept, history>>

Boundary ==
  /\ pc = "boundary" /\ script \in {"residual", "dsrl", "qoil"} /\ Waited /\ ~EvalDue
  /\ Reset
  /\ obs' = env' /\ base' = BaseObs'
  /\ vhist' = <<>> /\ gate' = FALSE
  /\ pc' = "loop"
  /\ UNCHANGED <<script, learning, waits, chunk_step, last_eval, ep, kept, history>>

\* evaluate: rollouts in the training environment; train_qoil.py clears vhist.
Evaluate ==
  /\ pc = "boundary" /\ script \in {"residual", "dsrl", "qoil"} /\ Waited /\ EvalDue
  /\ \E t \in 1..MaxEpisodeSteps : RolloutTo(t)
  /\ vhist' = IF script = "qoil" THEN <<>> ELSE vhist
  /\ last_eval' = chunk_step
  /\ UNCHANGED <<script, pc, learning, waits, obs, base, gate, chunk_step, ep, kept, history>>

(***************************************************************************)
(* train_rlpd.py: single steps, the end of the episode in the same pass.   *)
(***************************************************************************)
RlpdStep ==
  /\ script = "rlpd" /\ Running /\ ~EvalDue
  /\ \E o \in Outcomes(1) :
       /\ StepChunk(o)
       /\ AddTransition(o, "online")
       /\ GoOn(o)
  /\ chunk_step' = chunk_step + 1
  /\ UNCHANGED <<script, learning, waits, vhist, gate, last_eval, ep, kept>>

RlpdReset ==
  /\ script = "rlpd" /\ pc = "boundary" /\ Waited
  /\ Reset
  /\ obs' = env' /\ base' = BaseObs'
  /\ pc' = "loop"
  /\ UNCHANGED <<script, learning, waits, vhist, gate, chunk_step, last_eval, ep, kept, history>>

(***************************************************************************)
(* The evaluation every eval_every steps, wherever the episode stands: it  *)
(* leaves the environment at the end of its last rollout, and obs as is.   *)
(***************************************************************************)
RlpdEvaluate ==
  /\ script = "rlpd" /\ pc = "loop" /\ EvalDue
  /\ \E t \in 1..MaxEpisodeSteps : RolloutTo(t)
  /\ last_eval' = chunk_step
  /\ evaluated' = TRUE
  /\ UNCHANGED <<script, pc, learning, waits, obs, base, vhist, gate, chunk_step,
                 ep, kept, last, streams>>

\* The learner reaches max_steps, or fails.
LearnerEnds ==
  /\ script \in Trainers /\ learning
  /\ learning' = FALSE
  /\ UNCHANGED <<script, pc, waits, envVars, loopVars, ep, kept, history>>

\* The loop polls learner_running; a last evaluation, stop_learner and close.
Leave ==
  /\ script \in Trainers /\ pc = "loop" /\ ~learning
  /\ script = "rlpd" => ~EvalDue
  /\ \/ UNCHANGED envVars
     \/ script \in {"residual", "dsrl"} /\ \E t \in 1..MaxEpisodeSteps : RolloutTo(t)
  /\ pc' = "done"
  /\ UNCHANGED <<script, learning, waits, loopVars, ep, kept, history>>

-----------------------------------------------------------------------------
(***************************************************************************)
(* The evaluators: EpisodeBound episodes, each from its own seed.          *)
(* eval_base.py acts on the observation alone, eval_dsrl.py decodes from   *)
(* the wrapper's frames, eval_flow.py keeps deques of its own that a reset *)
(* fills with the first frame.                                             *)
(***************************************************************************)
unchangedByEvaluator == <<script, learning, waits, vhist, gate, last_eval, ep, kept,
                          streams, evaluated>>

EvalBaseStep ==
  /\ script = "eval_base" /\ pc = "loop"
  /\ \E o \in Outcomes(Horizon) : StepChunk(o) /\ Passed(o) /\ GoOn(o)
  /\ chunk_step' = chunk_step + 1
  /\ UNCHANGED unchangedByEvaluator

EvalDsrlStep ==
  /\ script = "eval_dsrl" /\ pc = "loop"
  /\ \E o \in Outcomes(Horizon) : StepChunk(o) /\ Passed(o) /\ GoOn(o)
  /\ chunk_step' = chunk_step + 1
  /\ UNCHANGED unchangedByEvaluator

EvalFlowStep ==
  /\ script = "eval_flow" /\ pc = "loop"
  /\ \E h \in 1..Horizon : \E o \in Outcomes(h) : StepChunk(o) /\ Passed(o) /\ GoOn(o)
  /\ chunk_step' = chunk_step + 1
  /\ UNCHANGED unchangedByEvaluator

ResetDeques ==
  /\ env' = [ep |-> env.ep + 1, t |-> 0]
  /\ fh' = [i \in 1..FrameHistory |-> env']

EvalNext ==
  /\ script \in Evaluators /\ pc = "boundary"
  /\ IF env.ep < EpisodeBound
     THEN /\ pc' = "loop"
          /\ IF script = "eval_flow" THEN ResetDeques ELSE Reset
          /\ obs' = env' /\ base' = BaseObs'
     ELSE pc' = "done" /\ UNCHANGED <<envVars, obs, base>>
  /\ UNCHANGED <<unchangedByEvaluator, chunk_step, last>>

-----------------------------------------------------------------------------
(***************************************************************************)
(* collect_state_dp_demos.py: the transitions of an episode are kept if it *)
(* succeeds; a step that succeeds ends it.  The files are written to one   *)
(* side and renamed, so kept is what a reader finds.                       *)
(***************************************************************************)
Steps(o) ==
  [i \in 1..o.n |-> [obs |-> [env EXCEPT !.t = @ + i - 1], next |-> [env EXCEPT !.t = @ + i],
                     done |-> o.done /\ i = o.n]]

CollectStep ==
  /\ script = "collect" /\ pc = "loop" /\ env.ep <= EpisodeBound
  /\ \E o \in Outcomes(Horizon) : StepChunk(o) /\ Passed(o) /\ GoOn(o) /\ ep' = ep \o Steps(o)
  /\ chunk_step' = chunk_step + 1
  /\ UNCHANGED <<script, learning, waits, vhist, gate, last_eval, kept, streams, evaluated>>

Successes(trs) == Cardinality({i \in DOMAIN trs : trs[i].done})

\* Mutant: an episode cut off by the step limit is kept too.
KeptTruncated == kept \o ep

\* The arrays after an episode.
Kept == IF Successes(ep) > 0 THEN kept \o ep ELSE kept

CollectNext ==
  /\ script = "collect" /\ pc = "boundary"
  /\ kept' = Kept
  /\ ep' = <<>>
  /\ IF Successes(kept') < TargetSuccesses
     THEN pc' = "loop" /\ ResetDeques /\ obs' = env' /\ base' = BaseObs'
     ELSE pc' = "done" /\ UNCHANGED <<envVars, obs, base>>
  /\ UNCHANGED <<script, learning, waits, vhist, gate, chunk_step, last_eval, history>>

-----------------------------------------------------------------------------
ScriptStep ==
  \/ ResidualStep \/ DsrlStep \/ QoilStep \/ Boundary \/ Evaluate
  \/ RlpdStep \/ RlpdReset \/ RlpdEvaluate \/ Leave
  \/ EvalBaseStep \/ EvalDsrlStep \/ EvalFlowStep \/ EvalNext
  \/ CollectStep \/ CollectNext

Next == ScriptStep \/ LearnerEnds

Spec == Init /\ [][Next]_vars /\ WF_vars(ScriptStep)

-----------------------------------------------------------------------------
Frames == [ep : 1..(2 * EpisodeBound + 4), t : 0..(2 * MaxEpisodeSteps)]

TypeOK ==
  /\ script \in Scripts /\ pc \in {"loop", "boundary", "done"}
  /\ learning \in BOOLEAN /\ waits \in BOOLEAN /\ gate \in BOOLEAN
  /\ env \in Frames /\ obs \in Frames
  /\ fh \in Seq(Frames) /\ Len(fh) \in 1..FrameHistory
  /\ base \in [1..FrameHistory -> Frames]
  /\ vhist \in Seq(Frames) /\ Len(vhist) <= PamK + 1
  /\ chunk_step \in Nat /\ last_eval \in 0..chunk_step

(***************************************************************************)
(* A pass starts at the frame the policy was shown and ends at the frame   *)
(* its steps later: in one episode, within its limit, and, unless it is    *)
(* done or truncated, a whole chunk, as the bootstrap with discount ** H   *)
(* assumes.  The one exception: the pass of train_rlpd.py that follows an  *)
(* evaluation in mid-episode steps an environment that has moved on.       *)
(***************************************************************************)
TransitionReal ==
  last # None =>
    /\ last.at = last.obs \/ (script = "rlpd" /\ last.evaluated)
    /\ last.next = [last.at EXCEPT !.t = @ + last.n]
    /\ last.at = last.obs => last.next.t <= MaxEpisodeSteps
    /\ last.done \/ last.trunc \/ last.n = Horizon
       \/ script \in {"rlpd", "eval_flow"}

(***************************************************************************)
(* The base policy, the flow decoder and the demonstrator are shown, for   *)
(* either end of a transition, the frames that lead up to it in its own    *)
(* episode: what an evaluation or the last episode left in the history is  *)
(* gone, and the base chunk carried over is the one for the frame.         *)
(***************************************************************************)
BaseFromOwnHistory ==
  last # None /\ script # "rlpd" =>
    /\ last.base = HistoryOf(last.obs)
    /\ last.nextBase = HistoryOf(last.next)

(***************************************************************************)
(* What the pixel buffer assumes of the stream of transitions it is given, *)
(* and where the scripts do not keep to it: a transition goes on where the *)
(* one before it in the same buffer ended, unless that one was done; but a *)
(* truncated one is stored as not done, and with interventions the one in  *)
(* between may have gone to the other buffer.                              *)
(***************************************************************************)
InStep(p, q) == p = None \/ p.done \/ q.obs = p.next

StreamInStep ==
  [][\A r \in Rings : streams'[r] # streams[r] =>
       \/ InStep(streams[r], streams'[r])
       \/ streams[r].trunc
       \/ script = "qoil" /\ streams[r].seq + 1 < streams'[r].seq]_vars

(***************************************************************************)
(* The expert takes over on the evidence of a full window of values, one   *)
(* per step, all of the running episode and up to the frame it acts on.    *)
(***************************************************************************)
GateFresh ==
  gate /\ pc = "loop" =>
    vhist = [i \in 1..(PamK + 1) |-> [obs EXCEPT !.t = @ + i - PamK - 1]]

(***************************************************************************)
(* The demonstrations collected are whole successful episodes, one after   *)
(* the other: each starts at a reset, goes on without a gap and ends with  *)
(* its only success.                                                       *)
(***************************************************************************)
KeptWhole ==
  \A i \in 1..Len(kept) :
    /\ i = 1 \/ kept[i - 1].done => kept[i].obs.t = 0
    /\ i < Len(kept) /\ ~kept[i].done => kept[i + 1].obs = kept[i].next
    /\ i = Len(kept) => kept[i].done

(***************************************************************************)
(* A training script that does not pace itself by the UTD ends when its    *)
(* learner has, from wherever it is, and an evaluator ends by itself.      *)
(***************************************************************************)
ScriptStops ==
  /\ (script \in Trainers /\ ~learning /\ (~waits \/ script = "qoil")) ~> pc = "done"
  /\ (script \in Evaluators) ~> pc = "done"
==============================================================================
