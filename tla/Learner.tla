------------------------------- MODULE Learner -------------------------------
(***************************************************************************)
(* The learner of a Session and everything that paces it: the background   *)
(* thread (_learner_loop), the main thread that starts it, stops it, feeds *)
(* it transitions and waits for it (wait_for_utd), and the HTTP server     *)
(* thread that feeds it too.  Threads share the agent reference, two       *)
(* counters, the sizes of two buffers, the shutdown event and the          *)
(* reference to the learner thread.                                        *)
(*                                                                         *)
(* A step is what a thread does between two points where another thread's  *)
(* doing can matter: insert and count are two steps, so are the assignment *)
(* of the new agent and the counters, and an update runs for a while       *)
(* between the snapshot of the agent and its publication.                  *)
(***************************************************************************)
EXTENDS Naturals, FiniteSets

CONSTANTS Threads,       \* learner threads ever started
          Writers,       \* threads that insert transitions
          Main,          \* the one that also starts, stops and waits
          None,          \* no learner thread
          Configs,       \* the session configurations considered
          MinUtd,        \* what wait_for_utd waits for
          JoinTimesOut,  \* an update may outlast the timeout of stop_learner
          EnvBound,      \* bound: transitions inserted by the writers
          DemoBound,     \* bound: demonstrations preloaded
          StepBound      \* bound: learner steps, where max_steps is no cap

ConfigType == [pretrain_steps : Nat, training_starts : Nat, max_steps : Nat,
               max_utd : Nat, cta_ratio : Nat \ {0}]

ASSUME LearnerAssumption ==
  /\ Main \in Writers
  /\ None \notin Threads
  /\ Configs \subseteq ConfigType
  /\ MinUtd \in Nat
  /\ JoinTimesOut \in BOOLEAN
  /\ EnvBound \in Nat /\ DemoBound \in Nat /\ StepBound \in Nat

VARIABLES config,        \* _config, fixed when the session is made
          agent,         \* _agent: how many updates its parameters went through
          learner_step,  \* _learner_step
          env_steps,     \* _env_steps
          online, demo,  \* len() of the two buffers
          shutdown,      \* _shutdown_event
          thread,        \* _learner_thread
          pc,            \* where each learner thread is
          left,          \* its pretraining steps still to do
          after,         \* where it goes on after publishing
          mine,          \* the agent it is about to publish
          writing,       \* writers between the insertion and its count
          main,          \* what the main thread is blocked in
          free           \* history: updates begun when no cap could hold them

learnerVars == <<pc, left, after, mine>>
sharedVars == <<agent, learner_step, env_steps, online, demo, shutdown, thread>>
vars == <<config, sharedVars, learnerVars, writing, main, free>>

Init ==
  /\ config \in Configs
  /\ agent = 0 /\ learner_step = 0 /\ env_steps = 0
  /\ online = 0 /\ demo = 0
  /\ shutdown = FALSE
  /\ thread = None
  /\ pc = [t \in Threads |-> "new"]
  /\ left = [t \in Threads |-> 0]
  /\ after = [t \in Threads |-> "loop"]
  /\ mine = [t \in Threads |-> 0]
  /\ writing = {}
  /\ main = "idle"
  /\ free = 0

Alive(t) == pc[t] \notin {"new", "done"}

\* The main thread is between two calls.
MainFree == main = "idle" /\ Main \notin writing

-----------------------------------------------------------------------------
(***************************************************************************)
(* Transitions come in: _add_transition_sync, from buffer.add in the main  *)
(* thread and from POST /transitions in the server thread.  The code has   *)
(* no bound here: a liveness property that needs EnvBound says so.         *)
(***************************************************************************)
Insert(w) ==
  /\ w \notin writing
  /\ w = Main => main = "idle"
  /\ env_steps + Cardinality(writing) < EnvBound
  /\ \/ online' = online + 1 /\ UNCHANGED demo
     \/ demo' = demo + 1 /\ UNCHANGED online    \* is_intervention
  /\ writing' = writing \cup {w}
  /\ UNCHANGED <<config, agent, learner_step, env_steps, shutdown, thread,
                 learnerVars, main, free>>

Count(w) ==
  /\ w \in writing
  /\ env_steps' = env_steps + 1
  /\ writing' = writing \ {w}
  /\ UNCHANGED <<config, agent, learner_step, online, demo, shutdown, thread,
                 learnerVars, main, free>>

\* preload_demos: into the demo buffer, without a count.
PreloadDemo ==
  /\ MainFree
  /\ demo < DemoBound
  /\ demo' = demo + 1
  /\ UNCHANGED <<config, agent, learner_step, env_steps, online, shutdown,
                 thread, learnerVars, writing, main, free>>

-----------------------------------------------------------------------------
(***************************************************************************)
(* The main thread starts, stops and waits for the learner.                *)
(***************************************************************************)

\* Mutant: start_learner does not look for a live learner.
StartAnother(t) ==
  /\ MainFree
  /\ pc[t] = "new"
  /\ shutdown' = FALSE
  /\ thread' = t
  /\ pc' = [pc EXCEPT ![t] = "start"]
  /\ UNCHANGED <<config, agent, learner_step, env_steps, online, demo,
                 left, after, mine, writing, main, free>>

\* start_learner; with a live learner it raises and changes nothing.
StartLearner(t) ==
  /\ MainFree
  /\ thread # None => ~Alive(thread)
  /\ pc[t] = "new"
  /\ shutdown' = FALSE
  /\ thread' = t
  /\ pc' = [pc EXCEPT ![t] = "start"]
  /\ UNCHANGED <<config, agent, learner_step, env_steps, online, demo,
                 left, after, mine, writing, main, free>>

\* Mutant: stop_learner does not join.
StopWithoutJoin ==
  /\ MainFree
  /\ thread # None
  /\ shutdown' = TRUE
  /\ thread' = None
  /\ UNCHANGED <<config, agent, learner_step, env_steps, online, demo,
                 learnerVars, writing, main, free>>

\* stop_learner, up to the join.
StopLearner ==
  /\ MainFree
  /\ thread # None
  /\ shutdown' = TRUE
  /\ main' = "join"
  /\ UNCHANGED <<config, agent, learner_step, env_steps, online, demo, thread,
                 learnerVars, writing, free>>

\* Mutant: the join gives up at once.
JoinedAnyway ==
  /\ main = "join"
  /\ thread' = None
  /\ main' = "idle"
  /\ UNCHANGED <<config, agent, learner_step, env_steps, online, demo,
                 shutdown, learnerVars, writing, free>>

\* The join returns, and the reference goes whether or not the thread did.
Joined ==
  /\ main = "join"
  /\ JoinTimesOut \/ ~Alive(thread)
  /\ thread' = None
  /\ main' = "idle"
  /\ UNCHANGED <<config, agent, learner_step, env_steps, online, demo,
                 shutdown, learnerVars, writing, free>>

\* utd() >= u.
UtdAtLeast(u) ==
  IF env_steps = 0 THEN u = 0
  ELSE learner_step * config.cta_ratio >= u * env_steps

WaitForUtd ==
  /\ MainFree
  /\ main' = "wait"
  /\ UNCHANGED <<config, sharedVars, learnerVars, writing, free>>

\* wait_for_utd without a timeout, as every caller has it, returns.
WaitReturn ==
  /\ main = "wait"
  /\ UtdAtLeast(MinUtd) \/ shutdown
  /\ main' = "idle"
  /\ UNCHANGED <<config, sharedVars, learnerVars, writing, free>>

-----------------------------------------------------------------------------
(***************************************************************************)
(* The learner thread.                                                     *)
(***************************************************************************)
Goto(t, where) == pc' = [pc EXCEPT ![t] = where]

\* _learner_loop is entered; it raises if there is nothing to pretrain on.
Begin(t) ==
  /\ pc[t] = "start"
  /\ Goto(t, IF config.pretrain_steps = 0 THEN "warmup"
             ELSE IF demo = 0 THEN "done" ELSE "pretrain")
  /\ left' = [left EXCEPT ![t] = config.pretrain_steps]
  /\ UNCHANGED <<config, sharedVars, after, mine, writing, main, free>>

\* An update starts from the agent of this moment.
Update(t, next) ==
  /\ mine' = [mine EXCEPT ![t] = agent + 1]
  /\ after' = [after EXCEPT ![t] = next]
  /\ Goto(t, "publish")

\* Mutant: only the shutdown event ends pretraining.
PretrainForever(t) ==
  /\ pc[t] = "pretrain"
  /\ ~shutdown
  /\ Update(t, "pretrain")
  /\ left' = [left EXCEPT ![t] = left[t] - 1]
  /\ free' = free + 1
  /\ UNCHANGED <<config, sharedVars, writing, main>>

PretrainStep(t) ==
  /\ pc[t] = "pretrain"
  /\ left[t] > 0 /\ ~shutdown
  /\ Update(t, "pretrain")
  /\ left' = [left EXCEPT ![t] = left[t] - 1]
  /\ free' = free + 1
  /\ UNCHANGED <<config, sharedVars, writing, main>>

PretrainEnds(t) ==
  /\ pc[t] = "pretrain"
  /\ \/ left[t] = 0 /\ Goto(t, "warmup")
     \/ left[t] > 0 /\ shutdown /\ Goto(t, "done")
  /\ UNCHANGED <<config, sharedVars, left, after, mine, writing, main, free>>

WarmedUp == online >= config.training_starts \/ demo # 0

\* Mutants: the warmup poll does not look at the event; nor at the demos.
WarmupDeaf(t) ==
  /\ pc[t] = "warmup"
  /\ WarmedUp /\ Goto(t, "loop")
  /\ UNCHANGED <<config, sharedVars, left, after, mine, writing, main, free>>

WarmupOnlineOnly(t) ==
  /\ pc[t] = "warmup"
  /\ LET enough == online >= config.training_starts
     IN  \/ enough /\ Goto(t, "loop")
         \/ ~enough /\ shutdown /\ Goto(t, "done")
  /\ UNCHANGED <<config, sharedVars, left, after, mine, writing, main, free>>

Warmup(t) ==
  /\ pc[t] = "warmup"
  /\ \/ WarmedUp /\ Goto(t, "loop")
     \/ ~WarmedUp /\ shutdown /\ Goto(t, "done")
  /\ UNCHANGED <<config, sharedVars, left, after, mine, writing, main, free>>

\* Mutant: one step too many.
MaxedOutLate == config.max_steps # 0 /\ learner_step > config.max_steps

MaxedOut == config.max_steps # 0 /\ learner_step >= config.max_steps

\* Mutants: the cap is exceeded before it holds; it is taken over the
\* transitions in the online buffer.
CappedLate ==
  config.max_utd # 0 /\ learner_step * config.cta_ratio > config.max_utd * env_steps

CappedOnline ==
  config.max_utd # 0 /\ learner_step * config.cta_ratio >= config.max_utd * online

\* The learner-side cap; while it holds the thread polls.
Capped == config.max_utd # 0 /\ UtdAtLeast(config.max_utd)

LoopEnds(t) ==
  /\ pc[t] = "loop"
  /\ shutdown \/ MaxedOut
  /\ Goto(t, "done")
  /\ UNCHANGED <<config, sharedVars, left, after, mine, writing, main, free>>

\* train_step; _sample_batch raises when both buffers are empty.
TrainStep(t) ==
  /\ pc[t] = "loop"
  /\ ~shutdown /\ ~MaxedOut /\ ~Capped
  /\ learner_step < StepBound
  /\ IF online = 0 /\ demo = 0
     THEN Goto(t, "done") /\ UNCHANGED <<after, mine, free>>
     ELSE /\ Update(t, "loop")
          /\ free' = IF env_steps = 0 THEN free + 1 ELSE free
  /\ UNCHANGED <<config, sharedVars, left, writing, main>>

\* _publish_agent: the reference first ...
Publish(t) ==
  /\ pc[t] = "publish"
  /\ agent' = mine[t]
  /\ Goto(t, "count")
  /\ UNCHANGED <<config, learner_step, env_steps, online, demo, shutdown,
                 thread, left, after, mine, writing, main, free>>

\* ... the counters under their lock next.
CountStep(t) ==
  /\ pc[t] = "count"
  /\ learner_step' = learner_step + 1
  /\ Goto(t, after[t])
  /\ UNCHANGED <<config, agent, env_steps, online, demo, shutdown, thread,
                 left, after, mine, writing, main, free>>

LearnerStep(t) ==
  \/ Begin(t) \/ PretrainStep(t) \/ PretrainEnds(t) \/ Warmup(t)
  \/ LoopEnds(t) \/ TrainStep(t) \/ Publish(t) \/ CountStep(t)

-----------------------------------------------------------------------------
Next ==
  \/ \E w \in Writers : Insert(w) \/ Count(w)
  \/ PreloadDemo
  \/ \E t \in Threads : StartLearner(t) \/ LearnerStep(t)
  \/ StopLearner \/ Joined
  \/ WaitForUtd \/ WaitReturn

(***************************************************************************)
(* Every thread that can run does: updates end, a poll sees what it polls. *)
(* Nobody has to insert, start, stop or wait.                              *)
(***************************************************************************)
Fairness ==
  /\ \A t \in Threads : WF_vars(LearnerStep(t))
  /\ \A w \in Writers : WF_vars(Count(w))
  /\ WF_vars(Joined)
  /\ WF_vars(WaitReturn)

Spec == Init /\ [][Next]_vars

FairSpec == Spec /\ Fairness

-----------------------------------------------------------------------------
TypeOK ==
  /\ config \in Configs
  /\ agent \in Nat /\ learner_step \in Nat /\ env_steps \in Nat
  /\ online \in Nat /\ demo \in Nat
  /\ shutdown \in BOOLEAN
  /\ thread \in Threads \cup {None}
  /\ pc \in [Threads -> {"new", "start", "pretrain", "warmup", "loop",
                        "publish", "count", "done"}]
  /\ left \in [Threads -> Nat]
  /\ after \in [Threads -> {"pretrain", "loop"}]
  /\ mine \in [Threads -> Nat]
  /\ writing \subseteq Writers
  /\ main \in {"idle", "join", "wait"}
  /\ free \in Nat

(***************************************************************************)
(* start_learner raises "learner already running" instead of starting a    *)
(* second one (session.py:292): no history of starts, stops and joins has  *)
(* two learner threads alive.                                              *)
(***************************************************************************)
OneLearner == \A s, t \in Threads : Alive(s) /\ Alive(t) => s = t

(***************************************************************************)
(* Every update that was counted is in the current agent: nobody publishes *)
(* an agent computed from one that has been replaced since.                *)
(***************************************************************************)
NoUpdateLost ==
  agent = learner_step + Cardinality({t \in Threads : pc[t] = "count"})

(***************************************************************************)
(* The learner never laps the actors by more than the update in flight:    *)
(* what it has done beyond max_utd are updates begun before any            *)
(* environment step was counted (pretraining, demonstrations).             *)
(***************************************************************************)
UtdCapHolds ==
  config.max_utd # 0 =>
    learner_step * config.cta_ratio
      < config.max_utd * env_steps + (free + 1) * config.cta_ratio

(***************************************************************************)
(* max_steps holds over restarts, in-flight updates and concurrent         *)
(* inserts; only pretraining, repeated by every start, comes on top.       *)
(***************************************************************************)
StepsWithinMax ==
  config.max_steps # 0 =>
    learner_step <= config.max_steps +
      config.pretrain_steps * Cardinality({t \in Threads : pc[t] # "new"})

(***************************************************************************)
(* Between stop_learner and the next start_learner the agent stays what it *)
(* is: the scripts stop the learner and save snapshot_agent().  It takes a *)
(* join that waits for the thread (JoinTimesOut = FALSE): an update that   *)
(* outlasts stop_learner's default of 5 s is published afterwards.         *)
(***************************************************************************)
StoppedIsFinal ==
  [][thread = None /\ thread' = None => agent' = agent]_vars

(***************************************************************************)
(* stop_learner returns: the learner thread sees the event wherever it is, *)
(* in pretraining, in warmup without data, held by the UTD cap or in the   *)
(* middle of an update.                                                    *)
(***************************************************************************)
StopReturns == main = "join" ~> main = "idle"

(***************************************************************************)
(* With enough data and no cap on the UTD the learner runs to max_steps    *)
(* unless it is stopped (test_session_state_sac.py:61).                    *)
(***************************************************************************)
TrainingCompletes ==
  /\ config.max_steps # 0 /\ config.max_utd = 0
  /\ thread # None
  /\ pc[thread] \in {"pretrain", "warmup", "loop", "publish", "count"}
  /\ WarmedUp /\ online + demo > 0
  ~> MaxedOut \/ shutdown

(* From some time on no thread but the main one inserts. *)
OthersPause == <>[](writing \subseteq {Main})

WaitsInTraining ==
  /\ main = "wait" /\ env_steps > 0
  /\ config.max_steps = 0
  /\ config.max_utd = 0 \/ config.max_utd >= MinUtd
  /\ thread # None
  /\ pc[thread] \in {"loop", "publish", "count"} /\ online + demo > 0

(***************************************************************************)
(* The two brakes do not block each other: the actor that waits for a UTD  *)
(* and the learner that is held by its cap.  wait_for_utd returns while a  *)
(* learner that is past its warmup trains on, once the other writers pause *)
(* (a server that takes posts faster than the learner steps holds utd()    *)
(* below min_utd for ever, session.py:357), if max_steps is off, the cap   *)
(* is not below what the actor waits for, and utd() is past the 0.0 it     *)
(* reports before the first environment step.                              *)
(***************************************************************************)
WaitReturnsInTraining == OthersPause => (WaitsInTraining ~> main # "wait")
==============================================================================
