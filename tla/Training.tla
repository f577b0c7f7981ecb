-------------------------------- MODULE Training -------------------------------
(***************************************************************************)
(* Processes that train: an actor script with the learner thread of its    *)
(* Session (train.py, train_rlpd.py, train_dsrl.py, train_qoil.py), or a   *)
(* behaviour-cloning script (train_dp.py, train_flow.py,                   *)
(* train_flow_state.py), the checkpoints they write, and the death of the  *)
(* process at any moment, after which it is started again from nothing but *)
(* the files.  Pacing and the buffers are in Learner and Rollout: here the *)
(* learner may step whenever it runs.                                      *)
(***************************************************************************)
EXTENDS Diffusion

CONSTANTS Jobs,        \* the jobs to choose from
          CtaRatio,    \* cta_ratio
          UpdateBound, \* bound: gradient steps of a run
          ChunkBound,  \* bound: chunks an actor script runs
          RunBound     \* bound: runs, the first and those after a death

BCJob == [kind : Trainers]

(* bc_only is an option of the residual agent, and the other agents make   *)
(* their encoder without being asked for a type.                           *)
ASSUME TrainingAssumption ==
  /\ Jobs \subseteq Job \cup BCJob
  /\ \A j \in Jobs \cap Job :
       /\ j.bc = "only" => j.kind = "residual"
       /\ j.encoder = "resnet-pretrained" => j.kind \in {"sac", "residual"}
  /\ CtaRatio \in Nat \ {0} /\ UpdateBound \in Nat \ {0}
  /\ ChunkBound \in Nat /\ RunBound \in Nat \ {0}

VARIABLES job, pc,        \* pc: of the script
          agent,          \* the agent the learner is updating, or the policy
          ratio,          \* critic-only updates left in this train_step
          sessionRng,     \* session._rng
          evalRng,        \* eval_rng
          chunks, round,  \* of an actor script; evaluations so far
          todo, writing,  \* files still to save; the file being written
          files,
          window,         \* history: the sample of the last update
          drawn, reused,  \* history: keys drawn from; if two draws had one key
          run

scriptVars == <<pc, chunks, round, todo, writing>>
learnVars == <<agent, ratio, window>>
keyVars == <<sessionRng, evalRng, drawn, reused>>
vars == <<job, scriptVars, learnVars, keyVars, files, run>>

IsAgent == job.kind \in Kinds
None == "none"
Torn == "torn"
Whole == "whole"

(* A file is its name, the step in the name, and what follows it.          *)
File(name) == [name |-> name, step |-> 0, suffix |-> ""]
NoFile == File(None)
Resnet10 == File("resnet10_params")
Out == File("out")
Best == File("best")
AtStep(r) == [name |-> "step", step |-> r, suffix |-> ""]
Checkpoints == {Out, Best} \cup {AtStep(r) : r \in 1 .. UpdateBound}
Temporary(f) == [f EXCEPT !.suffix = ".tmp"]
Files == Checkpoints \cup {Temporary(f) : f \in Checkpoints} \cup {Resnet10}

Drawing(draws) ==
  LET keys == {d[3] : d \in draws}
  IN /\ drawn' = drawn \cup keys
     /\ reused' = \/ reused \/ keys \cap drawn # {}
                   \/ \E d, e \in draws : d # e /\ d[3] = e[3] /\ ~SameCrop(d, e)

-------------------------------------------------------------------------------
(* Starting *)

NoWindow == [frames |-> <<>>, actions |-> <<>>]

Init ==
  /\ job \in Jobs
  /\ pc = "start"
  /\ agent = [step |-> 0] /\ ratio = 0
  /\ sessionRng = Root(0) /\ evalRng = Root(1)
  /\ chunks = 0 /\ round = 0 /\ todo = <<>> /\ writing = NoFile
  /\ window = NoWindow /\ drawn = {} /\ reused = FALSE
  /\ files = [f \in Files |-> None]
  /\ run = 1

NeedsWeights == IsAgent /\ job.encoder = "resnet-pretrained"

(* The weights are downloaded into place ...                               *)
DownloadWeights ==
  /\ pc = "start" /\ NeedsWeights /\ files[Resnet10] = None
  /\ pc' = "download"
  /\ files' = [files EXCEPT ![Resnet10] = Torn]
  /\ UNCHANGED <<job, chunks, round, todo, writing, learnVars, keyVars, run>>

Downloaded ==
  /\ pc = "download"
  /\ pc' = "start"
  /\ files' = [files EXCEPT ![Resnet10] = Whole]
  /\ UNCHANGED <<job, chunks, round, todo, writing, learnVars, keyVars, run>>

(* ... and a file that exists is not downloaded again, even if it is torn. *)
WeightsUnreadable ==
  /\ pc = "start" /\ NeedsWeights /\ files[Resnet10] = Torn
  /\ pc' = "dead"
  /\ UNCHANGED <<job, chunks, round, todo, writing, learnVars, keyVars, files, run>>

StartSession ==
  /\ pc = "start" /\ IsAgent
  /\ NeedsWeights => files[Resnet10] = Whole
  /\ agent' = CreateAgent(job, 0)
  /\ ratio' = CtaRatio - 1
  /\ Drawing(InitDraws(Root(0)))
  /\ pc' = "act"
  /\ UNCHANGED <<job, window, chunks, round, todo, writing, sessionRng, evalRng, files, run>>

StartPolicy ==
  /\ pc = "start" /\ ~IsAgent
  /\ agent' = CreatePolicy(job.kind, 0)
  /\ Drawing(InitDraws(Root(0)))
  /\ pc' = "train"
  /\ UNCHANGED <<job, ratio, window, chunks, round, todo, writing, sessionRng, evalRng,
                 files, run>>

-------------------------------------------------------------------------------
(* The learner thread *)

Learning == IsAgent /\ pc \in {"act", "evaluate"} /\ agent.step < UpdateBound

(* Half of a batch is online, half from the demonstrations, if there are both. *)
Online == Transition \ job.demos
SampleBatch == IF Online # {} /\ job.demos # {} THEN {{i, d} : i \in Online, d \in job.demos}
               ELSE {{i} : i \in Transition}

LearnFrom(batch, nets) ==
  LET r == Update(job, agent, batch, nets)
  IN agent' = r.agent /\ Drawing(r.draws)

(* train_step: cta_ratio - 1 updates of the critics alone ... *)
CriticUpdate ==
  /\ Learning /\ CriticNetworks(job.kind) # {} /\ ratio > 0
  /\ \E batch \in SampleBatch : LearnFrom(batch, CriticNetworks(job.kind))
  /\ ratio' = ratio - 1
  /\ UNCHANGED <<job, scriptVars, window, sessionRng, evalRng, files, run>>

(* ... and one of every network. *)
FullUpdate ==
  /\ Learning
  /\ CriticNetworks(job.kind) # {} => ratio = 0
  /\ \E batch \in SampleBatch : LearnFrom(batch, AllNetworks(job.kind))
  /\ ratio' = CtaRatio - 1
  /\ UNCHANGED <<job, scriptVars, window, sessionRng, evalRng, files, run>>

(* _pretrain_step, before any train_step; bound: one such step *)
PretrainStep ==
  /\ Learning /\ job.demos # {} /\ agent.step = 0
  /\ \E d \in job.demos : LearnFrom({d}, AllNetworks(job.kind))
  /\ UNCHANGED <<job, scriptVars, ratio, window, sessionRng, evalRng, files, run>>

-------------------------------------------------------------------------------
(* The script of an agent *)

Script == CASE job.kind = "sac" /\ job.encoder = "none" -> "train_rlpd"
            [] job.kind = "sac" /\ job.encoder # "none" -> "train_dsrl"
            [] job.kind = "qoil" -> "train_qoil"
            [] job.kind = "residual" -> "train"
            [] job.kind = "dsrl" -> "library"     \* train_dsrl_faithful cannot start
            [] OTHER -> job.kind

\* Mutant: the key that is split is drawn from too.
NextKeyOfPath == /\ sessionRng' = Split(sessionRng, 0)
                 /\ Drawing(ActionDraws(job, sessionRng))

(* Session._next_rng_key *)
NextKey == /\ sessionRng' = Split(sessionRng, 0)
           /\ Drawing(ActionDraws(job, Split(sessionRng, 1)))

Saved == todo = <<>> /\ writing = NoFile

Act ==
  /\ pc = "act" /\ Saved /\ chunks < ChunkBound
  /\ NextKey
  /\ chunks' = chunks + 1
  /\ pc' = "evaluate"
  /\ UNCHANGED <<job, round, todo, writing, learnVars, evalRng, files, run>>

(* Scripts that save after an evaluation; the best so far goes to _best.   *)
SavesAfter ==
  CASE Script = "train_rlpd" \/ Script = "train_dsrl" ->
         IF round = 0 THEN {<<Out, Best>>} ELSE {<<Out>>, <<Out, Best>>}
    [] Script = "train_qoil" -> {<<Out>>}
    [] Script = "flow_state" -> IF round = 0 THEN {<<Best>>} ELSE {<<>>, <<Best>>}
    [] OTHER -> {<<>>}

Evaluate ==
  /\ pc = "evaluate" /\ IsAgent
  /\ NextKey
  /\ todo' \in SavesAfter
  /\ round' = round + 1
  /\ pc' = "act"
  /\ UNCHANGED <<job, chunks, writing, learnVars, evalRng, files, run>>

SavesAtEnd == CASE Script \in Trainers \cup {"train_rlpd"} -> <<Out>>
                [] OTHER -> <<>>

Finish ==
  /\ \/ pc = "act" /\ chunks = ChunkBound
     \/ pc = "train" /\ agent.step = UpdateBound
  /\ Saved
  /\ todo' = SavesAtEnd
  /\ pc' = "end"
  /\ UNCHANGED <<job, chunks, round, writing, learnVars, keyVars, files, run>>

-------------------------------------------------------------------------------
(* The script of a policy *)

SavesBefore == CASE Script = "flow" -> <<Out, AtStep(round + 1)>>
                 [] Script = "flow_state" -> <<Out>>
                 [] Script = "dp" -> <<Out>>

TrainPolicy ==
  /\ pc = "train" /\ Saved /\ agent.step < UpdateBound
  /\ \E w \in Samples(job.kind) :
       LET r == UpdatePolicy(job.kind, agent, w)
       IN agent' = r.policy /\ Drawing(r.draws) /\ window' = w
  /\ \E due \in BOOLEAN :   \* step % eval_every = 0, step % save_every = 0
       /\ todo' = IF due THEN SavesBefore ELSE <<>>
       /\ pc' = IF due THEN "evaluate" ELSE "train"
  /\ UNCHANGED <<job, ratio, chunks, round, writing, sessionRng, evalRng, files, run>>

EvaluatePolicy ==
  /\ pc = "evaluate" /\ ~IsAgent /\ Saved
  /\ IF job.kind = "dp" THEN UNCHANGED <<evalRng, drawn, reused>>
     ELSE evalRng' = Split(evalRng, 0) /\ Drawing(EvaluationDraws(evalRng))
  /\ todo' \in SavesAfter
  /\ round' = round + 1
  /\ pc' = "train"
  /\ UNCHANGED <<job, chunks, writing, learnVars, sessionRng, files, run>>

-------------------------------------------------------------------------------
(* Checkpoints *)

\* Mutant: no temporary file.
InPlace(f) == f

(* The actor scripts save to one side and replace, the trainers in place. *)
Target(f) == IF IsAgent THEN Temporary(f) ELSE f

(* open(..., "wb") empties the file. *)
OpenFile ==
  /\ pc # "dead" /\ todo # <<>> /\ writing = NoFile
  /\ writing' = Head(todo)
  /\ todo' = Tail(todo)
  /\ files' = [files EXCEPT ![Target(Head(todo))] = Torn]
  /\ UNCHANGED <<job, pc, chunks, round, learnVars, keyVars, run>>

Dump ==
  /\ pc # "dead" /\ writing # NoFile /\ files[Target(writing)] = Torn
  /\ files' = [files EXCEPT ![Target(writing)] = Whole]
  /\ writing' = IF Target(writing) = writing THEN NoFile ELSE writing
  /\ UNCHANGED <<job, pc, chunks, round, todo, learnVars, keyVars, run>>

Replace ==
  /\ pc # "dead" /\ writing # NoFile
  /\ Target(writing) # writing /\ files[Target(writing)] = Whole
  /\ files' = [files EXCEPT ![writing] = Whole, ![Target(writing)] = None]
  /\ writing' = NoFile
  /\ UNCHANGED <<job, pc, chunks, round, todo, learnVars, keyVars, run>>

(* train_qoil.py goes on after an OSError, and leaves the temporary file. *)
SkipSave ==
  /\ pc # "dead" /\ Script = "train_qoil" /\ writing # NoFile
  /\ writing' = NoFile
  /\ UNCHANGED <<job, pc, chunks, round, todo, learnVars, keyVars, files, run>>

-------------------------------------------------------------------------------
(* The process dies at any moment, and is started again. *)

Crash ==
  /\ pc # "dead"
  /\ pc' = "dead"
  /\ UNCHANGED <<job, chunks, round, todo, writing, learnVars, keyVars, files, run>>

Restart ==
  /\ pc = "dead" /\ run < RunBound
  /\ pc' = "start"
  /\ agent' = [step |-> 0] /\ ratio' = 0
  /\ sessionRng' = Root(0) /\ evalRng' = Root(1)
  /\ chunks' = 0 /\ round' = 0 /\ todo' = <<>> /\ writing' = NoFile
  /\ window' = NoWindow /\ drawn' = {} /\ reused' = FALSE
  /\ run' = run + 1
  /\ UNCHANGED <<job, files>>

Next ==
  \/ DownloadWeights \/ Downloaded \/ WeightsUnreadable \/ StartSession \/ StartPolicy
  \/ CriticUpdate \/ FullUpdate \/ PretrainStep
  \/ Act \/ Evaluate \/ Finish
  \/ TrainPolicy \/ EvaluatePolicy
  \/ OpenFile \/ Dump \/ Replace \/ SkipSave
  \/ Crash \/ Restart

Spec == Init /\ [][Next]_vars

-------------------------------------------------------------------------------
(* Properties *)

(* A sample that a behaviour-cloning step learned from lies in one         *)
(* demonstration: frames clamped to its start, actions held at its end.    *)
OneDemo(w) == \A s, t \in Range(w.frames) \cup Range(w.actions) :
                s \in Steps /\ DemoOfStep[s] = DemoOfStep[t]

(* Types, and every window of a batch inside its own demonstration         *)
(* (dataset_loader.py flow_sample and dp_sample).                          *)
TypeOK ==
  /\ job \in Jobs
  /\ pc \in {"start", "download", "act", "evaluate", "train", "end", "dead"}
  /\ agent.step \in 0 .. UpdateBound /\ ratio \in 0 .. CtaRatio - 1
  /\ chunks \in 0 .. ChunkBound /\ run \in 1 .. RunBound
  /\ round \in 0 .. UpdateBound + ChunkBound
  /\ todo \in BoundedSeq(Checkpoints, 2) /\ writing \in Checkpoints \cup {NoFile}
  /\ files \in [Files -> {None, Torn, Whole}]
  /\ reused \in BOOLEAN
  /\ OneDemo(window)

(* What transition i may be credited with: the rewards ahead of it, up to  *)
(* the first transition that was done.                                     *)
Ahead(i) == {k \in i .. N : \A m \in i .. k - 1 : m \notin job.done}
TaskCredit(s) == {<<"reward", k>> : k \in IF s \in Transition THEN Ahead(s) ELSE {}}

(* qoil.py:11 "This confines the bonus to intervention states (it can't    *)
(* propagate back": over any number of updates of any networks with any    *)
(* batches, an optimistic critic holds no bonus but the state's own, task  *)
(* critics and their targets none at all and no reward from behind a done, *)
(* targets follow the critics, the actor imitates interventions only, and  *)
(* the image encoder is taught by critics alone, a frozen one by nobody.   *)
CreditConfined ==
  IsAgent /\ pc \notin {"start", "download"} /\ "params" \in DOMAIN agent =>
    /\ \A s \in State :
         /\ \A n \in Critics(job.kind) :
              /\ agent.params[n][s] \subseteq
                   TaskCredit(s) \cup IF n = "opt_critic" THEN Bonus(job, s) ELSE {}
              /\ agent.target[n][s] \subseteq agent.params[n][s]
         /\ agent.actor[s] \subseteq
              (IF job.bc = "only" THEN {} ELSE TaskCredit(s))
                \cup (IF job.kind = "qoil" THEN Bonus(job, s) ELSE {}) \cup BcLoss(job, s)
    /\ agent.taught["backbone"] \cup agent.taught["pooling"] \subseteq Critics(job.kind)
    /\ job.encoder = "resnet-pretrained" =>
         /\ agent.taught["backbone"] = {}
         /\ agent.backbone = "imagenet" /\ agent.targetBackbone = "imagenet"

(* No two draws of a run, in the initial weights, the losses, the crops,   *)
(* the dropout, the actions of the policy or the evaluations, use the same *)
(* key, but for the crops of one frame in the two cameras (launcher.py     *)
(* data_augmentation_fn).  Of keys that are split, nothing is said here.   *)
DrawKeysDistinct == ~reused

(* A key that was drawn from is not split or folded into a key of another  *)
(* draw, by whatever path the two were reached, but for what the code does *)
(* itself: it gives dropout and sampler one key (_compute_next_actions),   *)
(* the actor's sample_rng is the key that next_obs_rng splits for the      *)
(* crops (sac.py:306), the session's first action has the key of the       *)
(* initial weights and its second one that of the agent, since both start  *)
(* from one seed (session.py:124, launcher.py:57).                         *)
KeyOfDropout(k, l) == l = FoldIn(k)

KeyOfNextCrops(k, l) ==
  /\ Len(k) > 2 /\ k[Len(k) - 1] = 1 /\ k[Len(k)] = 2
  /\ l \in {Split(k, 0), Split(k, 1)}

KeyOfAgent(k) == k \in {StateKey(Root(0)), Split(StateKey(Root(0)), 0)}

DrawnKeysNotSplit ==
  \A k, l \in drawn : IsStrictPrefix(k, l) =>
    KeyOfDropout(k, l) \/ KeyOfNextCrops(k, l) \/ KeyOfAgent(k)

(* Whatever session, learner and evaluations do in between, a key serves   *)
(* one draw and is no other draw's ancestor, but for the cases above: keys *)
(* come from _next_rng_key, update, apply_loss_fns and create, which know  *)
(* nothing of one another.                                                 *)
KeysIndependent == DrawKeysDistinct /\ DrawnKeysNotSplit

(* What a load can read back: a torn file has no end to its pickle. *)
Loads(f) == files[f] = Whole
Final == {f \in Checkpoints : Loads(f)}

(* train_rlpd.py:39 "atomic": whenever the process dies, a checkpoint that *)
(* was ever replaced is whole, over every run; and a flow policy, written  *)
(* in place, keeps a whole copy from its first complete save to the end of *)
(* the first run.                                                          *)
ACopySurvives ==
  /\ IsAgent => \A f \in Checkpoints : files[f] # Torn
  /\ job.kind \in {"flow", "flow_state"} /\ run = 1 /\ round > 0 => Final # {}

===============================================================================
