# TLA+ models of wrl

`wrl` trains reinforcement-learning agents next to slow environments: a
`Session` owns an agent, two replay buffers, a learner thread and an optional
HTTP server; actor scripts step environments, add transitions to the session and
pace themselves against the learner; a base policy may run in another process.
This directory holds TLA+ models of its control logic, TLC configurations that
check them on small instances, and TLAPS proofs for every instance.

Run a model with `tlc -config <X>.cfg <MCModule>.tla`, check proofs with
`tlapm <X>_proofs.tla`.

## 1. Inventory

| Part | State | Operations | Interacts with | Hard behaviour |
|---|---|---|---|---|
| Pixel replay buffer (`wrl/data/memory_efficient_replay_buffer.py`, `replay_buffer.py`, `data_store.py`) | frames, columns, `_is_correct_index`, `_insert_index`, `_size`, `_first` | `insert`, `sample` | session threads, under a lock | one frame per slot, wrap-around inside an episode, rejection sampling |
| Plain replay buffer (`replay_buffer.py`, `dataset.py`) | columns, index, size | `insert`, `bulk_insert`, `sample` | the same | unlocked bulk insert, index at the capacity, rows half written |
| Session learner (`wrl/session.py`) | `_agent`, counters, shutdown event, thread reference | `start_learner`, `stop_learner`, `_learner_loop`, `train_step`, `preload_demos`, `wait_for_utd` | main, learner and server threads | publication, joins with a timeout, polling waits, caps on steps and on UTD |
| Parameters endpoint (`session.py`) | `_params_version`, cached bytes and their version | `_publish_agent`, `latest_params_bytes`, `GET /params` | learner thread, server thread, remote clients | several reads of the version while it moves, conditional requests |
| HTTP ingest (`session.py`) | none of its own | `POST /transitions`, `GET /status`, `buffer.add`, `preload_demos_arrays` | server thread, main thread, buffers, counters | batches that fail half-way, retries, routing by `is_intervention` |
| Actor scripts (`examples/`) | observation, base action, gate, counters | training, collection and evaluation loops | session, environment, base policy | waiting for a learner that is gone, evaluation in mid-episode, what the next pass acts on |
| Demonstration loader (`envs/dataset_loader.py`) | arrays, demo boundaries | `residual_transitions`, `flow_sample`, `dp_sample`, `obs_history` | `preload_demos`, policy trainers | boundaries of demos and chunks |
| Chunked environment (`envs/chunk_wrapper.py`, `robomimic_*.py`) | frame history, elapsed steps | `reset`, `step`, `base_obs` | actor scripts | early end of a chunk, histories across resets |
| Base policy client and servers (`wrl/base_policy/`) | connection, random key | `query`, the connection handler, policy functions | actor scripts | reconnects, retries, restarts, threads sharing a key |
| Agents, train state (`wrl/agents/`, `wrl/common/`, encoders) | parameters, targets, random key | `create`, `update`, `sample_actions` | learner thread | which signal, which key and which gradient reach which network |
| Diffusion policies (`wrl/diffusion/`) | parameters, moving average, random key | `create`, `update`, `sample_chunk`, `save`, `load` | trainers, servers | windows at demo boundaries, checkpoints written in place |
| Checkpoints (scripts, `save`, weights) | files | save, replace, download | later runs | death of the process in the middle |
| Vendored DPPO, sweeps, rendering | numeric, batch | | | none that a state machine shows |

What makes each correct: a buffer returns only transitions that were inserted,
with their own images, and counters agree with them; the learner is one thread,
loses no update, respects its caps and stops when told; clients of the parameters
never go backwards and finally catch up; a stored transition joins two frames of
one episode and carries the base chunks of both; the loader emits only windows
inside one demo; a client of the base policy gets the answer to its own question;
rewards and bonuses travel along episodes to the networks meant to have them;
independent draws have independent keys, but where the code shares one on purpose
or by its seeds; a process that dies leaves a checkpoint behind.

## 2. Modules

| Module | What it is |
|---|---|
| `ReplayLog` | abstract: a window that slides over the history of insertions |
| `PixelReplayBuffer` | the image ring, one step per `insert`; refines `ReplayLog` |
| `PixelReplayBuffer_proofs` | types, termination of sampling, the window theorem, the refinement |
| `ReplayBuffer` | the plain ring: `insert`, and `bulk_insert` in its two steps |
| `Ingest` | two plain rings under the session's threads and HTTP clients; the online one refines `ReplayLog` |
| `Ingest_proofs` | types, counters, torn rows, order of posts, the refinement |
| `DemoWarmStart` | `residual_transitions` + `preload_demos` composed with the image ring |
| `Learner` | learner, main and writer threads of a session |
| `Learner_proofs` | one learner, no lost update, both caps, final agent |
| `ActorLoop` | `examples/toolhang/train.py` driving the main thread of `Learner` |
| `ParamsRegister` | abstract: a register of parameters that clients poll |
| `ParamsEndpoint` | publication, cache, `GET /params`, clients; refines `ParamsRegister` |
| `ParamsEndpoint_proofs` | freshness and the refinement |
| `ChunkEnv` | episodes, chunks, frame history of the wrapped environment |
| `Rollout` | eight scripts over `ChunkEnv`: four that train, one that collects, three that evaluate |
| `Rollout_proofs` | what is stored, shown, gated and kept, in every script |
| `PolicyOracle` | abstract: every question is answered at most once, and with its own answer |
| `BasePolicy` | client, connections, threaded server, shared key; refines `PolicyOracle` |
| `BasePolicy_proofs` | types, distinct keys, the refinement |
| `Agents` | SAC, residual SAC, Q-OIL, DSRL: creation, losses, update, acting, as operators |
| `Diffusion` | the policies of `wrl/diffusion` and the batches they learn from, as operators |
| `Training` | a training process around `Agents` or `Diffusion`, its checkpoints, its death and restart |
| `Training_proofs` | checkpoints, credit, keys, windows, types |
| `MC*` | instances for TLC |

Operators introduced as "Mutant" are plausible bugs of the operation below them;
no specification uses them. Substituting one for the operation makes the
property it was written for fail, which shows that the property can fail.

### PixelReplayBuffer

`insert` and `sample` hold the data store's lock, so each is atomic. An
`Insert(tr)` is the whole call: the copy of the tail when the ring starts over
inside an episode (lines 56-61), the lead frames of a new episode (73-79), the
transition's own row (81-87), and the marking of the slots ahead (89-91). All
raw writes go to consecutive slots, so the model describes them at once by the
distance `Ahead(i)` of a slot from the insert index. Images are model values;
the columns are the inserted transition itself, plus the history bit `inStep`,
which says that the caller's transitions have fitted together since the episode
began. `sample` changes nothing, so it is the set `Sampleable` and the function
`Window`.

The claim is deliberately conditional: outside the first `NumStack` slots, and for
episodes inserted in step, a sampled window is the transition's own
(`WindowMatchesRow`). Both conditions are needed, and the two violation runs show
what happens without them.

### Learner

One action per stretch of a thread in which no other thread's doing matters.
`Insert`/`Count` are two actions because the buffer grows before `_env_steps`
does; `Publish`/`CountStep` are two because the agent is replaced before the
counters move; an update spans from the snapshot of the agent (`Update`) to
`Publish`. The counter lock makes each increment atomic. Parameters are numbered
by the updates they went through. `free` is a history variable: updates begun
while `utd()` is 0.0 for want of a counted step, or in pretraining, which no cap
can hold. `config` is chosen once from the set `Configs`. One model update stands
for `cta_ratio` gradient steps, and `utd()` is compared without division.

`ActorLoop` reuses these actions for a script: the script decides when the main
thread inserts, waits and stops.

### ParamsEndpoint

`latest_params_bytes` is cut at every read of `_params_version` and `_agent`: the
check against the client's version and the second read that labels a 304
(`Serve`, `Unchanged`), the test of the cache (`CacheHit`, `CacheMiss`), the read
of `v` (`Label`), the serialization (`Serialize`). The handler does not await in
between, so handlers do not interleave with each other, only with the learner.
The clients are external: they send back the version of the last body, ignore a
304, and may give up at any time, which leaves the handler running for nobody.

### ReplayBuffer and Ingest

`ReplayBuffer` is the ring of `replay_buffer.py`. `Insert` is the copy, index and
size of one call; `bulk_insert` is `BulkWrite` and `BulkAdvance`, because nothing
holds the data store's lock around it. `Ingest` gives each row two halves, the
columns before and after the one that a malformed transition lacks, so that a
row can be torn by an insert that raises and by a bulk load that another thread
overtakes. The main thread adds (`Add`, `CountAdd`) or loads arrays (`BulkHead`,
`BulkTail`, `BulkDone`); the server thread handles one request at a time, a
post transition by transition (`HandlerRaises`, `HandlerInsert`, `HandlerCount`,
`HandlerEnds`), a status in three reads. The clients are external: they give up
and post the same body again, the earlier attempt still in the queue.

### ChunkEnv and Rollout

A frame is a pair of episode and step, so that a frame that is shown, stored or
remembered can be told from the right one. The simulator is a choice: a step may
be done, the limit truncates, and `Outcomes` lists what a chunk may come to. One
action is one pass of a script's loop: the step, what is stored and what is kept
for the next pass. `Boundary` and `Evaluate` are the end of an episode, which in
`train_rlpd.py` belongs to the pass (`RlpdReset`) while its evaluation may come
anywhere. `last` and `streams` remember what was passed to the session. The
learner may end at any moment (`LearnerEnds`); its pacing is in `Learner`.

### BasePolicy

`query` is cut at the lazy connection (`Get`), `Send`, `Recv` and the exception
that starts the next attempt (`Broken`). A server thread reads the request and
the key (`LoadKey`), writes the split key back (`StoreKey`) and answers
(`Reply`): the split is a read and a write without a lock. Connections break with
or without the message in them, and a restart begins from the seed's key.

### Agents, Diffusion and Training

The code's agents are immutable values, so creating and updating one are
operators. Real numbers are abstracted to provenance. A critic holds, for each
state, the set of signals (rewards, bonuses, demonstrated actions, each of one
stored transition) that any sequence of updates could have taught it; a target is
the union of what its critic held; a loss reads parameters and targets before
the step, as `apply_loss_fns` does. A key is the path of splits from its seed and
an update returns the set of draws it made, each with its use, so that two uses of
one key are two draws: two cameras have their own crops. Splits of one key share
their i-th child whatever number they ask for, as jax's partitionable keys do
(the default since jax 0.5). `Drawing` collects the keys drawn from (`drawn`) and
notes a key that is drawn from twice (`reused`); what is split is seen by the draws
below it. A gradient is the set of encoder parts it reaches. `Diffusion` does the same for the base policies, with the
windows of `flow_sample` and `dp_sample` over demonstrations laid end to end
(`NSteps` steps, a demonstration before each of `DemoEnds`).

`Training` puts one trainer, an agent in its script or a policy, into a process: the learner steps
whenever it runs, the script acts, evaluates and saves (open, dump, and for the
scripts that do so replace), and the process may die between any two of these
and start again from its files.

## 3. Runs

| Run | Instance | Shows |
|---|---|---|
| `pixel_buffer` | 6 slots, stacks of 2, 2 images, 8 transitions, unbounded insertions | what a sampled window is, over every sequence of calls |
| `pixel_straddle` | 4 slots, stacks of 1 | finding 1 |
| `demo_images` | two demos of 6 and 5 steps, chunks of 2 | finding 2 |
| `learner` | 2 starts, 2 writers, 3 configurations, 3 transitions, 1 demo, 4 steps | safety and liveness of the session |
| `learner_restart` | the same, joins may time out | finding 3 |
| `actor_loop` | 1 update, UTD of 1 | finding 4 |
| `params` | 2 clients, 2 publications, unbounded requests | freshness, register, catching up |
| `params_304` | the same | finding 5 |
| `ingest` | online ring of 3 rows, demo ring of 2, 2 clients of 2 attempts each, 4 bodies, 1 store of the main thread, arrays of 1 and 2 | what is stored, counted, reported and answered |
| `rollout` | 8 scripts, episodes of 5 steps, chunks and histories of 2, gate of 2, 3 episodes | every transition and history belongs to the episode it says |
| `base_policy` | 2 actors with 2 queries and 1, 1 broken connection, 1 restart | one answer per question, queries end, when keys repeat |
| `training` | 3 transitions, demos of 2 and 3 steps, 22 jobs, 4 updates, 2 chunks, 2 runs | confined credit, draws with keys of their own, a surviving checkpoint |

Bounds. The ring's state space is finite without a bound. Six slots hold three
stacks, so episodes begin, end and wrap at every residue; five slots (not a
multiple of the stack) give the same results. `EnvBound`, `DemoBound`, `StepBound` and `PublishBound`
cap counters that only grow: three transitions reach both sides of the warmup
threshold and of the cap, two updates reach `max_steps`, four let the capped
configuration be held and released twice. Two publications suffice for a version
to be missed, cached and superseded. The safety statements no longer depend on
these bounds where a theorem below covers them, which is all of them but the
liveness properties. Of these, one is about what `EnvBound` cuts off: nothing in
the code bounds the posts, and transitions that arrive faster than the learner
steps keep `utd()` below `min_utd` for ever. `WaitReturnsInTraining` therefore has
`OthersPause` as a premise: from some time on nobody but the main thread, which is
waiting, inserts. In the instance the bound makes the premise true; what the
property shows is the wait from then on.

`Ingest`: an online ring of three rows keeps a log of two, which batches of two
fill, slide and evict from; the demo ring of two is filled and overwritten; two
attempts are one post and one retry that overtakes or follows it; arrays of one
leave room, arrays of two fill the ring to its end. `Rollout`: five steps are
two whole chunks and one that is cut short by the limit; a gate that looks two
steps back spans two chunks; three episodes see an evaluation between two of them
and two successes among failures. `BasePolicy`: each query has the code's retry
(two attempts in the instance, three in the code), one break and one restart
can fall anywhere in it. `Training`: three transitions are the shortest chain on
which a bonus could leak by way of a bootstrapped critic and then travel on; four updates
let a value travel from the last transition to the first and back into a target;
two runs are a death and what the next one finds.

`CHECK_DEADLOCK FALSE` appears where the program really stops: a learner that has
returned with idle writers, a script at its end, a loader with nothing left,
clients without questions, a process that is dead for good.

Fairness. `Learner` assumes weak fairness of each learner thread, of a started
count, of the join and of the poll in `wait_for_utd`: these are running threads
of one process and need nothing from the environment. Nobody is assumed to
insert, start, stop or wait. `ParamsEndpoint` assumes that the learner finishes
a publication it began and that the server thread finishes its handler (weak),
that the server does not starve a client's request and that a client receives an
answer if it is offered one again and again (strong), and that clients keep
polling; `CatchesUp` assumes in its premise that from some time on the clients'
timeouts are long enough for the server to answer. `Ingest` assumes that the
server thread finishes what it began (weak) and that its loop does not pass over
a client's request for ever (strong: other requests may come in between). `Rollout`
assumes that the script, a running thread, goes on (weak). `BasePolicy` assumes
that clients inside a query and server threads inside a request go on (weak);
that the server comes back is a premise of `QueryEnds`, not an assumption.
`Training` has no liveness property and assumes nothing.

### Findings

1. A transition that lands in slot 0 behind its own lead frame in the last slot
   can be sampled, and the negative window index fetches frames from elsewhere
   (`memory_efficient_replay_buffer.py:154`).
2. Demo chunks that overlap lose their observation images in the pixel buffer:
   the sampled observation of the chunk at `s` is the image of `s - 1 + H`
   (`dataset_loader.py:136-149`).
3. After a join that times out, `start_learner` can start a second learner next to
   the first (`session.py:304-305`).
4. `wait_for_utd` without a timeout hangs a script whose learner has finished its
   `max_steps` (`train.py:222`).
5. A 304 may carry a version newer than the one it was asked about
   (`session.py:404-405`); a client that stored it would hold old parameters under
   a new version. Clients that ignore it are safe, as `CatchesUp` shows.

### Observations

What the modules show of the code besides the findings, where a reader of the
code might expect something else:

- `train_rlpd.py:139-141` evaluates in the training environment and keeps `obs`:
  the transition after an evaluation joins an observation of one episode with
  the next frame of another, and may be marked as a success.
  `TransitionReal` has this as its one exception.
- A truncated episode is stored with `dones` False. The image ring therefore
  continues it with the next episode (`StreamInStep`), and its last chunk, which
  may be short, is bootstrapped with the discount of a whole one.
- The agent that was evaluated need not be the agent that is saved: the learner
  goes on between `evaluate` and `snapshot_agent`.
- `data_store.py:11` calls the store a thread-safe `ReplayBuffer`, but
  `bulk_insert` is inherited without the lock: an insert that overlaps it leaves
  mixed rows, and of a demo ring to which that happened `SpoiltOnlyAtIndex` claims
  nothing. A bulk load that fills the demo ring to its
  end freezes it (`FullDemoIsFinal`): a posted intervention then raises in
  `insert`. Without the configured extra fields in the arrays, the rows keep what
  `np.empty` held.
- A post that fails half-way leaves the transitions before the failure in the
  buffer; the client's retry stores them again (`StoredInOrder` bounds this by the
  number of attempts). It counts what was inserted: that an answered post is still
  in the ring is not promised, since later rows evict it.
- `client.py` keeps a `timeout` it never uses: `recv` waits as long as the
  connection stands, for ever on one whose end it never sees. `QueryEnds` is about
  breaks that the client sees. An error status is raised at once and not retried.
- Two threads of the policy server can sample with one key
  (`KeysDistinct` says when), and so do all runs of a restarted server.
- `common.py:180` promises "fresh rng to each loss function", but `update` has
  already split the key of the train state (`sac.py:306`): with keys that share
  their i-th child the actor's loss is given `aug_rng`, whose children cropped the
  images of the batch; with any keys one key is split twice. The residual and Q-OIL
  agents inherit this `update`; DSRL has its own, which splits once.
- No two draws have one key (`DrawKeysDistinct`), except that
  `launcher.py:20-28` crops every camera with the same key, so that the cameras of a
  frame shift together. But a key may be drawn from and split, which
  `DrawnKeysNotSplit` lists (both are parts of `KeysIndependent`): dropout folds its
  module into the key that the sampler draws from (`_compute_next_actions`); the
  actor's `sample_rng` is the key that `launcher.py:32` splits for the crops of the
  next observations; session and agent start from one seed, so the session's first action is drawn
  from the key that initialised the networks and its second one from the key of the
  agent's train state, from which all updates split.
- `Evaluate` always draws from the session's next key, although the evaluations of
  `train.py`, `train_rlpd.py` and `train_qoil.py` take the mode: they split the session's
  key and draw nothing. More draws only make the property harder to keep.
- `train_step` counts critic-only updates as steps of the train state, so the
  curriculum of `edit_scale` counts gradient updates and not learner steps.
  A critic-only update has zero gradients for the other networks, but Adam's
  moments still move them.
- `residual_sac.py:396-397` shares the encoder between actor and critic and says
  that the critic trains it; the projection of the proprioceptive state inside
  the encoder is not behind the stop-gradient and is trained by the actor too.
  `CreditConfined` covers the image parts.
- With one buffer empty or an odd batch size, `_sample_batch` gives other
  proportions than one half each; a batch is a set here.
- The policy trainers save in place. `train_flow.py` and `train_flow_state.py`
  have two files and tear one at a time, so a whole one is left during a first run; a
  second run after a crash can tear the other before it completes one, and
  `train_dp.py` has one file. An `out_path` without `.pkl` makes the two names one.
- `best_sr` is not persisted: after a restart the first evaluation overwrites
  `_best`.
- A download of the ResNet-10 weights that is cut off leaves a file that is never
  downloaded again; every later start fails (`WeightsUnreadable`).
- `train_dsrl.py --state-policy` and `train_dsrl_faithful.py` fail before their
  loop, on the missing `lowdim` of the chunked observation space.

## 4. Proofs

**PixelReplayBuffer_proofs.** For every `NumStack >= 1`, `Capacity >= 2 * NumStack`,
set of images and of transitions. `WindowMatchesRow` alone is not inductive: one
needs that the slots whose window the next write breaks are already marked
(`Horizon`), that the newest row is there and correct (`NewestThere`), and that
the frames behind the index are the newest row's (`TailFrames`), which is also
what makes the tail copy right. Arithmetic modulo the capacity is reduced once
(`RoundOnce`, `RingFacts`) to a comparison.

**Learner_proofs.** For every set of configurations, writers, threads and bounds.
`TypeCorrect` is unconditional; the others assume `~JoinTimesOut`, without which
the run `learner_restart` refutes them. The invariant says that the reference
names every live learner (`Named`) and that the agent is ahead of the count
exactly while a publication is in progress (`InOrder`). `Room` strengthens the cap
by the update in flight, `WithinBudget` gives each thread its share of
`max_steps` and of the pretraining repeated by every start; only the latter needs
finitely many threads.

**ParamsEndpoint_proofs.** For any clients and any number of publications. The
invariant is a chain: what a client has <= what the cache holds <= the agent <=
version + 1, while labels are at most the parameters they stand for. It makes a
304 safe (a client that holds the current version has parameters at least as
new) and every read a read of the register.

**The image ring as a log** (`SlidesAsLogCorrect`, in PixelReplayBuffer_proofs).
Induction over sequences is not available, so the log is described by numbers:
the k-th row that can be sampled is the one whose distance from the index has
`k - 1` smaller ones among the `Ages` of the correct slots (`Nth`, by
cardinality). One insert moves every age down by the rows it wrote, drops those
it overwrote or marked, and adds one greatest age (`AgesMove`); `Shifted` and
`SlideIs` show that ranks then move by the number of ages dropped. That the
dropped ones are at most `NumStack + 1` is an injection into an interval.

**Ingest_proofs.** For any clients, bodies, capacities and numbers of attempts.
`Sized` relates the counter to the two sizes and to the threads between an
insert and its count, which gives `CountsStored` and `StatusPlausible`.
`OnlineWhole` and `DemoWhole` place the half rows: under the index, inside the
slice of a bulk load or, if the arrays lack the extra fields, in the rows it
loaded; for the demo ring as long as no insert overtook a load. `StoredInv`
follows a body: the copies of its j-th transition, together with the attempts in
the inbox or in the handler that may still store it, are no more than the
attempts made (`AtMostPerTry`), and but for the attempt in the handler no
transition has fewer copies than a later one (`InOrder`); `StoredInOrder` is read
off it. The log of the online ring is written without modular arithmetic
(`LogIs`), and one insert slides it, one that raises leaves it alone.
`GarbageAssumption` says that what `np.empty` held is no transition, and
`MaxLength` only that bodies are finite.

**Rollout_proofs.** For any scripts, episodes, chunks, histories and gates of any
length. A history is a function of the frame it ends at, the `k`-th from its end
being `k` steps back or the reset (`LeadsTo`); so one lemma about a pass (`PassIs`)
serves all eight scripts, and the invariant only says where the frames end. `Gated`
bounds the values of the gate to the running episode, `Followed` ties the last
transition of each buffer to the observation in hand, `Collected` says that an
episode under way is a run from its reset. `MadeOrNot` and `NotStored` separate the steps that
store from the others.

**BasePolicy_proofs.** For any actors, connections, attempts and restarts. A
connection has one owner and speaks of one question, the owner's current one, or
is quiet (`Owned`); this makes a late answer to an earlier attempt impossible,
and is the refinement of `PolicyOracle`. Distinct keys need that a thread inside
the split holds the current key, as long as it is alone (`KeyInv`).

**Training_proofs.** For any jobs, transitions, demonstrations, updates, actions
and restarts, in four parts.
*Checkpoints*: an agent's file is only ever replaced by a dumped one
(`Replaced`); a flow policy in its first run always has a whole copy among the
files it is not writing (`FlowCopy`, `StateCopy`).
*Credit*: `Confined` bounds each critic, target and actor by signals of states that
a chain of transitions not done leads to, and each loss by what its targets hold
(`LessonsConfined`); updates of SAC, Q-OIL and DSRL are put in a normal form first
(`SACUpdateIs`, `DSRLUpdateIs`).
*Keys*: every path of splits that a run walks (the session's, the evaluations', the
learner's) goes on with the 0-th child and draws below the others, so a key drawn
from has left a path at a prefix of where the path is now (`KeyInv`); the draws of
one step differ from one another by the forms of their paths, which gives
`DrawKeysDistinct`. For `DrawnKeysNotSplit` the invariant also remembers how each key
left its path (`FormInv`: where, and by which of the finitely many tails that a
loss, a crop, an action or an initialisation can have); one key above another then
leaves the same path at the same place (`SameTurn`), and comparing the tails
leaves the three exceptions (`FormsTell`).
*Windows and types*: steps of later demonstrations are later, so the window that
`flow_sample` or `dp_sample` clips to a demonstration stays in it, for
demonstrations of any lengths.
`TrainingAssumption` restricts the jobs to those a command line of the scripts can
ask for: `--bc-only` exists for the residual agent only, and the pretrained
ResNet for SAC and the residual agent. `DemoAssumption` says that there is a
demonstration and that the last one ends where the arrays do.

**Proved and not.** Every invariant, action property and refinement that a
passing run checks is a theorem, with the one hypothesis stated above for
`Learner`. Only model-checked are the liveness properties (`StopReturns`,
`TrainingCompletes`, `WaitReturnsInTraining`, `CatchesUp`, `PostsAnswered`,
`ScriptStops`, `QueryEnds`): they rest on fairness, whose meaning (`ENABLED`) is
outside the prover. `DemoWarmStart` and `ActorLoop` are there for the
counterexamples of findings 2 and 4 and have no theorem.

## 5. Not modelled

Samplers, losses and layers as arithmetic; optimizer moments, schedules, entropy
and temperature values. Logging, wandb, `record_episode`, `POST /stats` and
`GET /config` are read-only or logging. `download` and `get_iterator` of the
buffers change nothing and have no caller in the scripts. An `insert` into the
image ring that raises is not modelled (the plain ring's is). The mock and DPPO
servers keep no state between requests. The vendored DPPO code, colour
augmentations and vision modules that no agent uses, the sweep scripts and the
rendering of data sets are outside the models. The HDF5 files are taken as they
are read. An actor's choice of its next action is not counted as credit: what
`CreditConfined` follows is the value of rewards, bonuses and demonstrations.

## 6. Plan

Model: a malformed insert into the image ring, whose index is marked before its
row is written; `GET /status` against `stop_learner`. Theorems: that the scripts
of `ActorLoop` inherit the safety of `Learner` step by step; what `demo_images`
refutes, proved for demo chunks that do not overlap; the demo ring of `Ingest` as a
log up to its last bulk load.
