--------------------------------- MODULE Agents --------------------------------
(***************************************************************************)
(* The agents a Session trains (SAC, residual SAC, Q-OIL, DSRL) as values: *)
(* creating one and updating it are operators, because the code's agents   *)
(* are immutable.  Real-valued networks are abstracted to where their      *)
(* values come from: a network holds, for each state, the CREDIT it was    *)
(* trained towards, a set of signals <<"reward", i>>, <<"bonus", i>>,      *)
(* <<"demo", i>> of the stored transitions i.  Transition i starts in      *)
(* state i and ends in state i + 1, where demonstrations may go on past a  *)
(* transition that was done.  A random key is the path of splits that made *)
(* it: two splits of one key share their i-th child whatever their widths  *)
(* (as jax.random does with partitionable keys, the least favourable case).*)
(***************************************************************************)
EXTENDS Integers, Sequences, FiniteSets, SequencesExt

CONSTANT N   \* the stored transitions are 1 .. N

ASSUME NAssumption == N \in Nat \ {0}

Transition == 1 .. N
State == 1 .. N + 1
Signal == {"reward", "bonus", "demo"} \X Transition
NoCredit == [s \in State |-> {}]

Kinds == {"sac", "residual", "qoil", "dsrl"}

(* A job fixes what agent is made and the data it is shown. *)
Job == [kind : Kinds,
        encoder : {"none", "resnet", "resnet-pretrained"},
        bc : {"off", "on", "only"},        \* bc_weight > 0, bc_only
        redq : BOOLEAN,                    \* critic_subsample_size
        done : SUBSET Transition,          \* masks = 0
        demos : SUBSET Transition,         \* in the demo buffer
        interventions : SUBSET Transition] \* is_intervention

-------------------------------------------------------------------------------
(* Random keys *)

Root(seed) == <<10 + seed>>
Split(k, i) == Append(k, i)
FoldIn(k) == Split(k, 9)   \* the key of a module: its path folded into k

(* A draw names its use, so that two uses of one key are two draws. *)
Draw(use, n, k) == {<<use, n, k>>}
DropoutDraws(j, use, k) ==
  IF j.encoder = "none" THEN {} ELSE Draw(use, 1, FoldIn(k))

NextActionDraws(j, use, k) == Draw(use, 0, k) \cup DropoutDraws(j, use, k)
SubsampleDraws(j, use, k) ==
  IF j.redq THEN Draw(use, 2, Split(Split(k, 0), 1)) ELSE {}

CriticDraws(j, k) ==
  NextActionDraws(j, "critic", Split(k, 1)) \cup SubsampleDraws(j, "critic", k)
OptCriticDraws(j, k) ==
  NextActionDraws(j, "opt_critic", Split(k, 1)) \cup SubsampleDraws(j, "opt_critic", k)
PolicyDraws(j, k) == Draw("actor", 0, Split(k, 2)) \cup DropoutDraws(j, "actor", Split(k, 1))
TemperatureDraws(j, k) == NextActionDraws(j, "temperature", Split(k, 1))

LossDraws(j, net, k) ==
  CASE net = "critic" -> CriticDraws(j, k)
    [] net = "opt_critic" -> OptCriticDraws(j, k)
    [] net = "actor" -> PolicyDraws(j, k)
    [] net = "temperature" -> TemperatureDraws(j, k)

(* One offset per frame.  Two cameras, which are given the same key. *)
CropDraws(use, k) == UNION {Draw(use, f, Split(k, f)) : f \in {0, 1}}
ObsCrops == {"obs_1", "obs_2"}
NextObsCrops == {"next_obs_1", "next_obs_2"}
AugmentDraws(j, k) ==
  IF j.encoder = "none" THEN {}
  ELSE (UNION {CropDraws(use, Split(k, 1)) : use \in ObsCrops})
         \cup (UNION {CropDraws(use, Split(k, 2)) : use \in NextObsCrops})

(* The crops of one frame in the two cameras. *)
SameCrop(d, e) == /\ {d[1], e[1]} \in {ObsCrops, NextObsCrops}
                  /\ d[2] = e[2]

-------------------------------------------------------------------------------
(* Networks, and which parameters the gradient of a loss reaches *)

Critics(kind) == CASE kind = "qoil" -> {"critic", "opt_critic"}
                   [] kind = "dsrl" -> {"critic", "z_critic"}
                   [] OTHER -> {"critic"}

(* loss_fns, in the sorted order in which the keys are handed out *)
Losses(j) == IF j.kind = "qoil" THEN <<"actor", "critic", "opt_critic", "temperature">>
             ELSE <<"actor", "critic", "temperature">>
CriticNetworks(kind) == IF kind = "dsrl" THEN {} ELSE Critics(kind)
AllNetworks(kind) == Critics(kind) \cup {"actor", "temperature"}

(* The image encoder.  A pre-pooled backbone stops the gradient. *)
ResNetParts(prePooling) == IF prePooling THEN {} ELSE {"backbone", "pooling"}
PreTrainedResNetParts == ResNetParts(TRUE) \cup {"pooling"}
EncoderParts(j) == IF j.encoder = "resnet-pretrained" THEN PreTrainedResNetParts
                   ELSE ResNetParts(FALSE)

(* stop_gradient stops the image, not the projected proprioception. *)
EncodingParts(j, stopGradient) ==
  IF j.encoder = "none" THEN {}
  ELSE {"proprio"} \cup IF stopGradient THEN {} ELSE EncoderParts(j)

CriticParts(j) == EncodingParts(j, FALSE)
PolicyParts(j) == EncodingParts(j, TRUE)
ResidualPolicyParts(j) == EncodingParts(j, TRUE)

SharedParts == {"backbone", "pooling", "proprio"}
Reached(j, net) ==
  CASE net = "temperature" -> {}
    [] net = "actor" -> IF j.kind \in {"residual", "qoil"} THEN ResidualPolicyParts(j)
                        ELSE PolicyParts(j)
    [] OTHER -> CriticParts(j)

-------------------------------------------------------------------------------
(* Construction *)

Blank(j, k) == [params |-> [n \in Critics(j.kind) |-> NoCredit],
                target |-> [n \in Critics(j.kind) |-> NoCredit],
                actor  |-> NoCredit,
                taught |-> [p \in SharedParts |-> {}],
                backbone |-> "random", targetBackbone |-> "random",
                rng |-> k, step |-> 0]

(* target_params are the initial params; the state's key is the second of  *)
(* the second split, the first having initialised the networks.            *)
StateKey(k) == Split(Split(k, 0), 1)
InitDraws(k) == Draw("init", 0, FoldIn(Split(k, 1)))
SACCreate(j, k) == Blank(j, StateKey(k))
ResidualCreate(j, k) == Blank(j, StateKey(k))

(* The dictionaries of params are changed in place, and target_params is   *)
(* still the same dictionary.                                              *)
LoadResnet10(a) == [a EXCEPT !.backbone = "imagenet", !.targetBackbone = "imagenet"]

ResidualCreatePixels(j, k) ==
  IF j.encoder = "resnet-pretrained" THEN LoadResnet10(ResidualCreate(j, k))
  ELSE ResidualCreate(j, k)
MakeResidualSacPixelAgent(j, seed) == ResidualCreatePixels(j, Root(seed))
SACCreatePixels(j, k) ==
  IF j.encoder = "resnet-pretrained" THEN LoadResnet10(SACCreate(j, k)) ELSE SACCreate(j, k)
MakeSacPixelAgent(j, seed) == SACCreatePixels(j, Root(seed))
MakeSacStateAgent(j, seed) == SACCreate(j, Root(seed))
QOILCreatePixels(j, k) == Blank(j, StateKey(k))
DSRLCreate(j, seed) == Blank(j, StateKey(Root(seed)))

CreateAgent(j, seed) ==
  CASE j.kind = "sac" /\ j.encoder = "none" -> MakeSacStateAgent(j, seed)
    [] j.kind = "sac" /\ j.encoder # "none" -> MakeSacPixelAgent(j, seed)
    [] j.kind = "residual" -> MakeResidualSacPixelAgent(j, seed)
    [] j.kind = "qoil" -> QOILCreatePixels(j, Root(seed))
    [] j.kind = "dsrl" -> DSRLCreate(j, seed)

-------------------------------------------------------------------------------
(* The losses: the credit that transition i teaches a network *)

Bootstrap(j, critic, i) == IF i \in j.done THEN {} ELSE critic[i + 1]

(* Q_TD: the reward and its own target *)
CriticLoss(j, a, i) == {<<"reward", i>>} \cup Bootstrap(j, a.target["critic"], i)

Bonus(j, i) == IF i \in j.interventions THEN {<<"bonus", i>>} ELSE {}

\* Mutant: bootstrapped from its own target.
OptCriticLossSelf(j, a, i) ==
  {<<"reward", i>>} \cup Bonus(j, i) \cup Bootstrap(j, a.target["opt_critic"], i)

(* Q_Opt: the bonus too, but bootstrapped from the target of Q_TD *)
OptCriticLoss(j, a, i) ==
  {<<"reward", i>>} \cup Bonus(j, i) \cup Bootstrap(j, a.target["critic"], i)

(* Behaviour cloning on is_intervention transitions *)
BcLoss(j, i) == IF j.bc # "off" /\ i \in j.interventions THEN {<<"demo", i>>} ELSE {}
SACPolicyLoss(j, a, i) == a.params["critic"][i] \cup BcLoss(j, i)
ResidualPolicyLoss(j, a, i) ==
  (IF j.bc = "only" THEN {} ELSE a.params["critic"][i]) \cup BcLoss(j, i)
QOILPolicyLoss(j, a, i) == a.params["opt_critic"][i] \cup BcLoss(j, i)

Taught(j, a, net, i) ==
  CASE net = "critic" -> CriticLoss(j, a, i)
    [] net = "opt_critic" -> OptCriticLoss(j, a, i)
    [] net = "actor" -> CASE j.kind = "qoil" -> QOILPolicyLoss(j, a, i)
                          [] j.kind = "residual" -> ResidualPolicyLoss(j, a, i)
                          [] j.kind = "sac" -> SACPolicyLoss(j, a, i)

-------------------------------------------------------------------------------
(* One gradient step *)

Teach(credit, batch, Lesson(_)) ==
  [s \in State |-> IF s \in batch THEN credit[s] \cup Lesson(s) ELSE credit[s]]

(* Every loss reads the parameters before the step; the updates are then   *)
(* applied together.                                                       *)
ApplyGradients(j, a, batch, nets) ==
  [a EXCEPT
     !.params = [n \in DOMAIN @ |->
        IF n \in nets THEN Teach(@[n], batch, LAMBDA i : Taught(j, a, n, i)) ELSE @[n]],
     !.actor = IF "actor" \in nets THEN Teach(@, batch, LAMBDA i : Taught(j, a, "actor", i))
               ELSE @,
     !.taught = [p \in SharedParts |-> @[p] \cup {n \in nets : p \in Reached(j, n)}],
     !.step = @ + 1]

LossKey(j, a, net) == Split(a.rng, CHOOSE n \in DOMAIN Losses(j) : Losses(j)[n] = net)
ApplyLossFns(j, a, batch, nets) ==
  [state |-> ApplyGradients(j, a, batch, nets),
   draws |-> UNION {LossDraws(j, net, LossKey(j, a, net)) : net \in nets}]

TargetUpdate(a) ==
  [a EXCEPT !.target = [n \in DOMAIN @ |-> [s \in State |-> @[n][s] \cup a.params[n][s]]]]

\* Mutant: the state keeps its key.
SACUpdateSameKey(j, a, batch, nets) ==
  LET r == ApplyLossFns(j, a, batch, nets)
  IN [agent |-> IF "critic" \in nets THEN TargetUpdate(r.state) ELSE r.state,
      draws |-> r.draws \cup AugmentDraws(j, Split(a.rng, 1))]

(* SACAgent.update, which the residual and Q-OIL agents inherit *)
SACUpdate(j, a, batch, nets) ==
  LET r == ApplyLossFns(j, a, batch, nets)
      stepped == IF "critic" \in nets THEN TargetUpdate(r.state) ELSE r.state
  IN [agent |-> [stepped EXCEPT !.rng = Split(a.rng, 0)],
      draws |-> r.draws \cup AugmentDraws(j, Split(a.rng, 1))]

(* DSRL: one combined loss; the latent critic is distilled from the action *)
(* critic, the actor follows the latent critic.                            *)
DSRLTotalLoss(j, a, batch, k) ==
  [state |-> [a EXCEPT
     !.params = [n \in DOMAIN @ |-> Teach(@[n], batch, LAMBDA i :
                    IF n = "critic" THEN CriticLoss(j, a, i) ELSE a.params["critic"][i])],
     !.actor = Teach(@, batch, LAMBDA i : a.params["z_critic"][i]),
     !.step = @ + 1],
   draws |-> Draw("actor", 0, Split(k, 1))]

DSRLUpdate(j, a, batch) ==
  LET r == DSRLTotalLoss(j, a, batch, Split(a.rng, 1))
  IN [agent |-> [r.state EXCEPT
        !.target["critic"] = [s \in State |-> @[s] \cup r.state.params["critic"][s]],
        !.rng = Split(a.rng, 0)],
      draws |-> r.draws]

Update(j, a, batch, nets) ==
  IF j.kind = "dsrl" THEN DSRLUpdate(j, a, batch) ELSE SACUpdate(j, a, batch, nets)

-------------------------------------------------------------------------------
(* Acting: what a call of the policy draws from the key it is given.  The  *)
(* latent-steering script asks SAC for the best of n actions.              *)

SACSampleActions(k) == Draw("action", 0, k)
SACSampleBestOfN(k) == Draw("action", 0, Split(k, 0))
ResidualSampleActions(k) == Draw("action", 0, k)
DSRLSampleBestOfN(k) == Draw("action", 0, k)

ActionDraws(j, k) ==
  CASE j.kind = "sac" /\ j.encoder = "none" -> SACSampleActions(k)
    [] j.kind = "sac" /\ j.encoder # "none" -> SACSampleBestOfN(k)
    [] j.kind \in {"residual", "qoil"} -> ResidualSampleActions(k)
    [] j.kind = "dsrl" -> DSRLSampleBestOfN(k)

===============================================================================
