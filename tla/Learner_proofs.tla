--------------------------- MODULE Learner_proofs ---------------------------
(***************************************************************************)
(* Proofs about Learner, for any session configuration, any number of      *)
(* writers, starts and steps: types, at most one learner, no update lost,  *)
(* and the learner-side UTD cap.                                           *)
(*                                                                         *)
(* The two statements about the thread need that the join of stop_learner  *)
(* does not time out.  Then the reference _learner_thread names every live *)
(* learner, so the guard of start_learner excludes a second one, and the   *)
(* agent a learner is about to publish is one update ahead of the current  *)
(* one, for nobody else can publish in between.                            *)
(***************************************************************************)
EXTENDS Learner, FiniteSetTheorems, TLAPS

\* The reference names every live learner; a joining main thread has one.
Named ==
  /\ \A t \in Threads : Alive(t) => thread = t
  /\ main = "join" => thread # None

\* Where the agent is ahead of the count, and the update ahead of the agent.
InOrder ==
  /\ \A t \in Threads : pc[t] = "publish" => mine[t] = agent + 1
  /\ \A t \in Threads : pc[t] = "count" => agent = learner_step + 1
  /\ (\A t \in Threads : pc[t] # "count") => agent = learner_step

IInv == TypeOK /\ Named /\ InOrder

USE LearnerAssumption DEF ConfigType

(***************************************************************************)
(* No thread, no update, nothing in flight.                                *)
(***************************************************************************)
LEMMA InitIInv == Init => IInv
<1> SUFFICES ASSUME Init PROVE IInv
  OBVIOUS
<1>1. TypeOK
  BY DEF Init, TypeOK
<1>2. Named
  BY DEF Init, Named, Alive
<1>3. InOrder
  BY DEF Init, InOrder
<1> QED
  BY <1>1, <1>2, <1>3 DEF IInv

(***************************************************************************)
(* The types hold through every step.                                      *)
(***************************************************************************)
LEMMA TypeKept ==
  ASSUME TypeOK, [Next]_vars
  PROVE  TypeOK'
<1> USE DEF TypeOK, sharedVars, learnerVars
<1>1. ASSUME NEW w \in Writers, Insert(w) PROVE TypeOK'
  BY <1>1 DEF Insert
<1>2. ASSUME NEW w \in Writers, Count(w) PROVE TypeOK'
  BY <1>2 DEF Count
<1>3. CASE PreloadDemo
  BY <1>3 DEF PreloadDemo
<1>4. ASSUME NEW t \in Threads, StartLearner(t) PROVE TypeOK'
  BY <1>4 DEF StartLearner, MainFree
<1>5. CASE StopLearner
  BY <1>5 DEF StopLearner, MainFree
<1>6. CASE Joined
  BY <1>6 DEF Joined
<1>7. CASE WaitForUtd
  BY <1>7 DEF WaitForUtd
<1>8. CASE WaitReturn
  BY <1>8 DEF WaitReturn
<1>9. ASSUME NEW t \in Threads, Begin(t) PROVE TypeOK'
  BY <1>9 DEF Begin, Goto
<1>10. ASSUME NEW t \in Threads, PretrainStep(t) PROVE TypeOK'
  BY <1>10 DEF PretrainStep, Update, Goto
<1>11. ASSUME NEW t \in Threads, PretrainEnds(t) PROVE TypeOK'
  BY <1>11 DEF PretrainEnds, Goto
<1>12. ASSUME NEW t \in Threads, Warmup(t) PROVE TypeOK'
  BY <1>12 DEF Warmup, Goto
<1>13. ASSUME NEW t \in Threads, LoopEnds(t) PROVE TypeOK'
  BY <1>13 DEF LoopEnds, Goto
<1>14. ASSUME NEW t \in Threads, TrainStep(t) PROVE TypeOK'
  BY <1>14 DEF TrainStep, Update, Goto
<1>15. ASSUME NEW t \in Threads, Publish(t) PROVE TypeOK'
  BY <1>15 DEF Publish, Goto
<1>16. ASSUME NEW t \in Threads, CountStep(t) PROVE TypeOK'
  BY <1>16 DEF CountStep, Goto
<1>17. CASE UNCHANGED vars
  BY <1>17 DEF vars
<1> QED
  BY <1>1, <1>2, <1>3, <1>4, <1>5, <1>6, <1>7, <1>8, <1>9,
     <1>10, <1>11, <1>12, <1>13, <1>14, <1>15, <1>16, <1>17
     DEF Next, LearnerStep

(***************************************************************************)
(* A second learner is not started, a live one not forgotten.              *)
(***************************************************************************)
LEMMA NamedKept ==
  ASSUME IInv, [Next]_vars, ~JoinTimesOut
  PROVE  Named'
<1> USE DEF IInv, TypeOK, Named, Alive, sharedVars, learnerVars
<1>1. ASSUME NEW w \in Writers, Insert(w) PROVE Named'
  BY <1>1 DEF Insert
<1>2. ASSUME NEW w \in Writers, Count(w) PROVE Named'
  BY <1>2 DEF Count
<1>3. CASE PreloadDemo
  BY <1>3 DEF PreloadDemo
<1>4. ASSUME NEW t \in Threads, StartLearner(t) PROVE Named'
  BY <1>4 DEF StartLearner, MainFree
<1>5. CASE StopLearner
  BY <1>5 DEF StopLearner, MainFree
<1>6. CASE Joined
  BY <1>6 DEF Joined
<1>7. CASE WaitForUtd
  BY <1>7 DEF WaitForUtd
<1>8. CASE WaitReturn
  BY <1>8 DEF WaitReturn
<1>9. ASSUME NEW t \in Threads, Begin(t) PROVE Named'
  BY <1>9 DEF Begin, Goto
<1>10. ASSUME NEW t \in Threads, PretrainStep(t) PROVE Named'
  BY <1>10 DEF PretrainStep, Update, Goto
<1>11. ASSUME NEW t \in Threads, PretrainEnds(t) PROVE Named'
  BY <1>11 DEF PretrainEnds, Goto
<1>12. ASSUME NEW t \in Threads, Warmup(t) PROVE Named'
  BY <1>12 DEF Warmup, Goto
<1>13. ASSUME NEW t \in Threads, LoopEnds(t) PROVE Named'
  BY <1>13 DEF LoopEnds, Goto
<1>14. ASSUME NEW t \in Threads, TrainStep(t) PROVE Named'
  BY <1>14 DEF TrainStep, Update, Goto
<1>15. ASSUME NEW t \in Threads, Publish(t) PROVE Named'
  BY <1>15 DEF Publish, Goto
<1>16. ASSUME NEW t \in Threads, CountStep(t) PROVE Named'
  BY <1>16 DEF CountStep, Goto
<1>17. CASE UNCHANGED vars
  BY <1>17 DEF vars
<1> QED
  BY <1>1, <1>2, <1>3, <1>4, <1>5, <1>6, <1>7, <1>8, <1>9,
     <1>10, <1>11, <1>12, <1>13, <1>14, <1>15, <1>16, <1>17
     DEF Next, LearnerStep

(***************************************************************************)
(* Only the one live learner moves the agent and the count.                *)
(***************************************************************************)
LEMMA OrderKept ==
  ASSUME IInv, [Next]_vars
  PROVE  InOrder'
<1> USE DEF IInv, TypeOK, Named, Alive, InOrder, sharedVars, learnerVars
<1>1. ASSUME NEW w \in Writers, Insert(w) PROVE InOrder'
  BY <1>1 DEF Insert
<1>2. ASSUME NEW w \in Writers, Count(w) PROVE InOrder'
  BY <1>2 DEF Count
<1>3. CASE PreloadDemo
  BY <1>3 DEF PreloadDemo
<1>4. ASSUME NEW t \in Threads, StartLearner(t) PROVE InOrder'
  BY <1>4 DEF StartLearner, MainFree
<1>5. CASE StopLearner
  BY <1>5 DEF StopLearner, MainFree
<1>6. CASE Joined
  BY <1>6 DEF Joined
<1>7. CASE WaitForUtd
  BY <1>7 DEF WaitForUtd
<1>8. CASE WaitReturn
  BY <1>8 DEF WaitReturn
<1>9. ASSUME NEW t \in Threads, Begin(t) PROVE InOrder'
  BY <1>9 DEF Begin, Goto
<1>10. ASSUME NEW t \in Threads, PretrainStep(t) PROVE InOrder'
  BY <1>10 DEF PretrainStep, Update, Goto
<1>11. ASSUME NEW t \in Threads, PretrainEnds(t) PROVE InOrder'
  BY <1>11 DEF PretrainEnds, Goto
<1>12. ASSUME NEW t \in Threads, Warmup(t) PROVE InOrder'
  BY <1>12 DEF Warmup, Goto
<1>13. ASSUME NEW t \in Threads, LoopEnds(t) PROVE InOrder'
  BY <1>13 DEF LoopEnds, Goto
<1>14. ASSUME NEW t \in Threads, TrainStep(t) PROVE InOrder'
  BY <1>14 DEF TrainStep, Update, Goto
<1>15. ASSUME NEW t \in Threads, Publish(t) PROVE InOrder'
  BY <1>15 DEF Publish, Goto
<1>16. ASSUME NEW t \in Threads, CountStep(t) PROVE InOrder'
  BY <1>16 DEF CountStep, Goto
<1>17. CASE UNCHANGED vars
  BY <1>17 DEF vars
<1> QED
  BY <1>1, <1>2, <1>3, <1>4, <1>5, <1>6, <1>7, <1>8, <1>9,
     <1>10, <1>11, <1>12, <1>13, <1>14, <1>15, <1>16, <1>17
     DEF Next, LearnerStep

(***************************************************************************)
(* The three together are inductive when joins do not time out.            *)
(***************************************************************************)
LEMMA NextIInv == ~JoinTimesOut /\ IInv /\ [Next]_vars => IInv'
  BY TypeKept, NamedKept, OrderKept DEF IInv

(***************************************************************************)
(* Every variable keeps its type, whatever the join does.                  *)
(***************************************************************************)
THEOREM TypeCorrect == Spec => []TypeOK
<1>1. Init => TypeOK
  BY InitIInv DEF IInv
<1>2. TypeOK /\ [Next]_vars => TypeOK'
  BY TypeKept
<1> QED
  BY <1>1, <1>2, PTL DEF Spec

(***************************************************************************)
(* The inductive invariant of the threads.                                 *)
(***************************************************************************)
THEOREM Invariance == ~JoinTimesOut => (Spec => []IInv)
<1> SUFFICES ASSUME ~JoinTimesOut PROVE Spec => []IInv
  OBVIOUS
<1>1. IInv /\ [Next]_vars => IInv'
  BY NextIInv
<1> QED
  BY InitIInv, <1>1, PTL DEF Spec

(***************************************************************************)
(* No history of starts, stops and joins has two learners alive.           *)
(***************************************************************************)
THEOREM Alone == ~JoinTimesOut => (Spec => []OneLearner)
<1> SUFFICES ASSUME ~JoinTimesOut PROVE Spec => []OneLearner
  OBVIOUS
<1>1. IInv => OneLearner
  BY DEF IInv, Named, OneLearner
<1> QED
  BY <1>1, Invariance, PTL

(***************************************************************************)
(* Every update counted by _publish_agent is in the agent.                 *)
(***************************************************************************)
THEOREM NothingLost == ~JoinTimesOut => (Spec => []NoUpdateLost)
<1> SUFFICES ASSUME ~JoinTimesOut PROVE Spec => []NoUpdateLost
  OBVIOUS
<1> DEFINE counting == {t \in Threads : pc[t] = "count"}
<1>1. ASSUME IInv PROVE NoUpdateLost
  <2>1. CASE counting = {}
    <3>1. Cardinality(counting) = 0
      BY <2>1, FS_EmptySet
    <3>2. \A t \in Threads : pc[t] # "count"
      BY <2>1
    <3> QED
      BY <1>1, <3>1, <3>2 DEF IInv, TypeOK, InOrder, NoUpdateLost
  <2>2. CASE counting # {}
    <3>1. PICK t \in Threads : pc[t] = "count"
      BY <2>2
    <3>2. counting = {t}
      BY <1>1, <3>1 DEF IInv, Named, Alive
    <3>3. Cardinality(counting) = 1
      BY <3>2, FS_Singleton
    <3> QED
      BY <1>1, <3>1, <3>3 DEF IInv, TypeOK, InOrder, NoUpdateLost
  <2> QED
    BY <2>1, <2>2
<1> QED
  BY <1>1, Invariance, PTL

(***************************************************************************)
(* The cap, with room for the update in flight.                            *)
(***************************************************************************)
InFlight(t) == pc[t] \in {"publish", "count"}

Room ==
  config.max_utd # 0 =>
    /\ learner_step * config.cta_ratio
         < config.max_utd * env_steps + (free + 1) * config.cta_ratio
    /\ \A t \in Threads : InFlight(t) =>
         (learner_step + 1) * config.cta_ratio
           < config.max_utd * env_steps + (free + 1) * config.cta_ratio

(***************************************************************************)
(* What an update, an environment step and a free update add.              *)
(***************************************************************************)
LEMMA OneMore ==
  ASSUME NEW k \in Nat, NEW n \in Nat
  PROVE  /\ (n + 1) * k = n * k + k
         /\ k * (n + 1) = k * n + k
         /\ n * k \in Nat /\ k * n \in Nat
  OBVIOUS


(***************************************************************************)
(* The cap is tested before an update begins, and only one is in flight.   *)
(***************************************************************************)
LEMMA RoomKept ==
  ASSUME IInv, [Next]_vars, Room
  PROVE  Room'
<1> USE DEF IInv, TypeOK, Named, Alive, Room, InFlight, sharedVars, learnerVars
<1>1. ASSUME NEW w \in Writers, Insert(w) PROVE Room'
  BY <1>1 DEF Insert
<1>2. ASSUME NEW w \in Writers, Count(w) PROVE Room'
  BY <1>2 DEF Count
<1>3. CASE PreloadDemo
  BY <1>3 DEF PreloadDemo
<1>4. ASSUME NEW t \in Threads, StartLearner(t) PROVE Room'
  BY <1>4 DEF StartLearner, MainFree
<1>5. CASE StopLearner
  BY <1>5 DEF StopLearner, MainFree
<1>6. CASE Joined
  BY <1>6 DEF Joined
<1>7. CASE WaitForUtd
  BY <1>7 DEF WaitForUtd
<1>8. CASE WaitReturn
  BY <1>8 DEF WaitReturn
<1>9. ASSUME NEW t \in Threads, Begin(t) PROVE Room'
  BY <1>9 DEF Begin, Goto
<1>10. ASSUME NEW t \in Threads, PretrainStep(t) PROVE Room'
  BY <1>10 DEF PretrainStep, Update, Goto
<1>11. ASSUME NEW t \in Threads, PretrainEnds(t) PROVE Room'
  BY <1>11 DEF PretrainEnds, Goto
<1>12. ASSUME NEW t \in Threads, Warmup(t) PROVE Room'
  BY <1>12 DEF Warmup, Goto
<1>13. ASSUME NEW t \in Threads, LoopEnds(t) PROVE Room'
  BY <1>13 DEF LoopEnds, Goto
<1>14. ASSUME NEW t \in Threads, TrainStep(t) PROVE Room'
  <2> SUFFICES ASSUME config.max_utd # 0 PROVE Room'
    BY <1>14 DEF TrainStep
  <2> DEFINE c == config.cta_ratio
             u == config.max_utd
  <2>1. /\ c \in Nat \ {0} /\ u \in Nat \ {0}
        /\ learner_step \in Nat /\ env_steps \in Nat /\ free \in Nat
    OBVIOUS
  <2>2. /\ (learner_step + 1) * c = learner_step * c + c
        /\ (free + 1) * c = free * c + c
        /\ (free + 1 + 1) * c = (free + 1) * c + c
        /\ learner_step * c \in Nat /\ free * c \in Nat /\ u * env_steps \in Nat
    <3> HIDE DEF c, u
    <3>1. \A n \in Nat : (n + 1) * c = n * c + c /\ n * c \in Nat
      BY <2>1, OneMore
    <3>2. free + 1 \in Nat
      BY <2>1
    <3>3. u * env_steps \in Nat
      BY <2>1, OneMore
    <3> QED
      BY <2>1, <3>1, <3>2, <3>3
  <2>3. /\ config' = config /\ learner_step' = learner_step
        /\ env_steps' = env_steps
    BY <1>14 DEF TrainStep
  <2>4. \A s \in Threads : InFlight(s)' => InFlight(s) \/ s = t
    BY <1>14 DEF TrainStep, Update, Goto
  <2>5. CASE env_steps = 0
    <3>1. CASE free' = free + 1
      BY <2>1, <2>2, <2>3, <2>4, <3>1
    <3>2. CASE free' = free /\ pc' = [pc EXCEPT ![t] = "done"]
      BY <2>3, <3>2
    <3> QED
      BY <2>5, <3>1, <3>2, <1>14 DEF TrainStep, Goto
  <2>6. CASE env_steps # 0
    <3>1. learner_step * c < u * env_steps
      BY <2>1, <2>2, <2>6, <1>14 DEF TrainStep, Capped, UtdAtLeast
    <3>2. free' = free
      BY <2>6, <1>14 DEF TrainStep
    <3> QED
      BY <2>1, <2>2, <2>3, <3>1, <3>2
  <2> QED
    BY <2>5, <2>6
<1>15. ASSUME NEW t \in Threads, Publish(t) PROVE Room'
  BY <1>15 DEF Publish, Goto
<1>16. ASSUME NEW t \in Threads, CountStep(t) PROVE Room'
  BY <1>16 DEF CountStep, Goto
<1>17. CASE UNCHANGED vars
  BY <1>17 DEF vars
<1> QED
  BY <1>1, <1>2, <1>3, <1>4, <1>5, <1>6, <1>7, <1>8, <1>9,
     <1>10, <1>11, <1>12, <1>13, <1>14, <1>15, <1>16, <1>17
     DEF Next, LearnerStep

(***************************************************************************)
(* At first there is room for one update.                                  *)
(***************************************************************************)
LEMMA InitRoom == Init => Room
<1> SUFFICES ASSUME Init, config.max_utd # 0 PROVE Room
  BY DEF Room
<1>1. /\ config.max_utd \in Nat /\ config.cta_ratio \in Nat \ {0}
      /\ learner_step = 0 /\ env_steps = 0 /\ free = 0
  BY DEF Init
<1>2. \A t \in Threads : ~InFlight(t)
  BY DEF Init, InFlight
<1> QED
  BY <1>1, <1>2 DEF Room

(***************************************************************************)
(* The learner never laps the actors by more than the update in flight and *)
(* the updates no cap could hold (session.py:339-341).                     *)
(***************************************************************************)
THEOREM CapHolds == ~JoinTimesOut => (Spec => []UtdCapHolds)
<1> SUFFICES ASSUME ~JoinTimesOut PROVE Spec => []UtdCapHolds
  OBVIOUS
<1>1. IInv /\ Room /\ [Next]_vars => IInv' /\ Room'
  BY NextIInv, RoomKept
<1>2. Room => UtdCapHolds
  BY DEF Room, UtdCapHolds
<1> QED
  BY InitIInv, InitRoom, <1>1, <1>2, PTL DEF Spec


(***************************************************************************)
(* Only a live learner publishes, and the reference names it.              *)
(***************************************************************************)
LEMMA StoppedStep ==
  ASSUME IInv, [Next]_vars
  PROVE  (thread = None /\ thread' = None => agent' = agent)
<1> USE DEF IInv, Named, Alive, sharedVars, learnerVars
<1>1. ASSUME NEW w \in Writers, Insert(w) PROVE (thread = None /\ thread' = None => agent' = agent)
  BY <1>1 DEF Insert
<1>2. ASSUME NEW w \in Writers, Count(w) PROVE (thread = None /\ thread' = None => agent' = agent)
  BY <1>2 DEF Count
<1>3. CASE PreloadDemo
  BY <1>3 DEF PreloadDemo
<1>4. ASSUME NEW t \in Threads, StartLearner(t) PROVE (thread = None /\ thread' = None => agent' = agent)
  BY <1>4 DEF StartLearner, MainFree
<1>5. CASE StopLearner
  BY <1>5 DEF StopLearner, MainFree
<1>6. CASE Joined
  BY <1>6 DEF Joined
<1>7. CASE WaitForUtd
  BY <1>7 DEF WaitForUtd
<1>8. CASE WaitReturn
  BY <1>8 DEF WaitReturn
<1>9. ASSUME NEW t \in Threads, Begin(t) PROVE (thread = None /\ thread' = None => agent' = agent)
  BY <1>9 DEF Begin, Goto
<1>10. ASSUME NEW t \in Threads, PretrainStep(t) PROVE (thread = None /\ thread' = None => agent' = agent)
  BY <1>10 DEF PretrainStep, Update, Goto
<1>11. ASSUME NEW t \in Threads, PretrainEnds(t) PROVE (thread = None /\ thread' = None => agent' = agent)
  BY <1>11 DEF PretrainEnds, Goto
<1>12. ASSUME NEW t \in Threads, Warmup(t) PROVE (thread = None /\ thread' = None => agent' = agent)
  BY <1>12 DEF Warmup, Goto
<1>13. ASSUME NEW t \in Threads, LoopEnds(t) PROVE (thread = None /\ thread' = None => agent' = agent)
  BY <1>13 DEF LoopEnds, Goto
<1>14. ASSUME NEW t \in Threads, TrainStep(t) PROVE (thread = None /\ thread' = None => agent' = agent)
  BY <1>14 DEF TrainStep, Update, Goto
<1>15. ASSUME NEW t \in Threads, Publish(t) PROVE (thread = None /\ thread' = None => agent' = agent)
  BY <1>15 DEF Publish, Goto
<1>16. ASSUME NEW t \in Threads, CountStep(t) PROVE (thread = None /\ thread' = None => agent' = agent)
  BY <1>16 DEF CountStep, Goto
<1>17. CASE UNCHANGED vars
  BY <1>17 DEF vars
<1> QED
  BY <1>1, <1>2, <1>3, <1>4, <1>5, <1>6, <1>7, <1>8, <1>9,
     <1>10, <1>11, <1>12, <1>13, <1>14, <1>15, <1>16, <1>17
     DEF Next, LearnerStep

(***************************************************************************)
(* Between stop_learner and the next start_learner the agent is final.     *)
(***************************************************************************)
THEOREM Final == ~JoinTimesOut => (Spec => StoppedIsFinal)
<1> SUFFICES ASSUME ~JoinTimesOut PROVE Spec => StoppedIsFinal
  OBVIOUS
<1>1. IInv /\ [Next]_vars => [thread = None /\ thread' = None => agent' = agent]_vars
  BY StoppedStep
<1> QED
  BY Invariance, <1>1, PTL DEF Spec, StoppedIsFinal

(***************************************************************************)
(* What max_steps and the pretraining of every start leave to each thread. *)
(***************************************************************************)
Started == {t \in Threads : pc[t] # "new"}

Budget == config.max_steps + config.pretrain_steps * Cardinality(Started)

WithinBudget ==
  config.max_steps # 0 =>
    /\ learner_step <= Budget
    /\ \A t \in Threads :
         /\ pc[t] = "start" => learner_step + config.pretrain_steps <= Budget
         /\ pc[t] = "pretrain" => learner_step + left[t] <= Budget
         /\ InFlight(t) => learner_step + 1 <= Budget
         /\ InFlight(t) /\ after[t] = "pretrain" =>
              learner_step + 1 + left[t] <= Budget

(***************************************************************************)
(* A set that is at most the threads counts a new member once.             *)
(***************************************************************************)
LEMMA CountStarted ==
  ASSUME IsFiniteSet(Threads)
  PROVE  /\ Cardinality(Started) \in Nat
         /\ \A t \in Threads : Started' = Started \cup {t} /\ t \notin Started
              => Cardinality(Started') = Cardinality(Started) + 1
<1>1. IsFiniteSet(Started)
  BY FS_Subset DEF Started
<1> QED
  BY <1>1, FS_CardinalityType, FS_AddElement

(***************************************************************************)
(* The budget is a number.                                                 *)
(***************************************************************************)
LEMMA BudgetType ==
  ASSUME TypeOK, IsFiniteSet(Threads)
  PROVE  Budget \in Nat /\ config.max_steps <= Budget
<1>1. config.pretrain_steps \in Nat /\ config.max_steps \in Nat
  BY DEF TypeOK
<1>2. config.pretrain_steps * Cardinality(Started) \in Nat
  BY <1>1, CountStarted, OneMore
<1> QED
  BY <1>1, <1>2 DEF Budget

(***************************************************************************)
(* Every start brings the updates of one more pretraining, no more.        *)
(***************************************************************************)
LEMMA BudgetKept ==
  ASSUME IInv, [Next]_vars, WithinBudget, IsFiniteSet(Threads)
  PROVE  WithinBudget'
<1> USE DEF IInv, TypeOK, Named, Alive, WithinBudget, InFlight, sharedVars, learnerVars
<1>1. ASSUME NEW w \in Writers, Insert(w) PROVE WithinBudget'
  <2>1. Started' = Started /\ config' = config
    BY <1>1 DEF Insert, Started
  <2>2. Budget' = Budget
    BY <2>1 DEF Budget
  <2> QED
    BY <2>2, BudgetType, <1>1 DEF Insert
<1>2. ASSUME NEW w \in Writers, Count(w) PROVE WithinBudget'
  <2>1. Started' = Started /\ config' = config
    BY <1>2 DEF Count, Started
  <2>2. Budget' = Budget
    BY <2>1 DEF Budget
  <2> QED
    BY <2>2, BudgetType, <1>2 DEF Count
<1>3. CASE PreloadDemo
  <2>1. Started' = Started /\ config' = config
    BY <1>3 DEF PreloadDemo, Started
  <2>2. Budget' = Budget
    BY <2>1 DEF Budget
  <2> QED
    BY <2>2, BudgetType, <1>3 DEF PreloadDemo
<1>4. ASSUME NEW t \in Threads, StartLearner(t) PROVE WithinBudget'
  <2> DEFINE n == Cardinality(Started)
             p == config.pretrain_steps
  <2>1. Started' = Started \cup {t} /\ t \notin Started
    BY <1>4 DEF StartLearner, Started
  <2>2. Cardinality(Started') = n + 1 /\ n \in Nat
    BY <2>1, CountStarted
  <2>3. p \in Nat /\ config.max_steps \in Nat
    OBVIOUS
  <2>4. config' = config /\ learner_step' = learner_step
    BY <1>4 DEF StartLearner
  <2>5. Budget' = Budget + p
    <3>1. p * (n + 1) = p * n + p /\ p * n \in Nat
      <4> HIDE DEF n, p
      <4> QED
        BY <2>2, <2>3, OneMore
    <3> QED
      BY <2>2, <2>3, <2>4, <3>1 DEF Budget
  <2> QED
    BY <2>3, <2>4, <2>5, BudgetType, <1>4 DEF StartLearner, MainFree
<1>5. CASE StopLearner
  <2>1. Started' = Started /\ config' = config
    BY <1>5 DEF StopLearner, MainFree, Started
  <2>2. Budget' = Budget
    BY <2>1 DEF Budget
  <2> QED
    BY <2>2, BudgetType, <1>5 DEF StopLearner, MainFree
<1>6. CASE Joined
  <2>1. Started' = Started /\ config' = config
    BY <1>6 DEF Joined, Started
  <2>2. Budget' = Budget
    BY <2>1 DEF Budget
  <2> QED
    BY <2>2, BudgetType, <1>6 DEF Joined
<1>7. CASE WaitForUtd
  <2>1. Started' = Started /\ config' = config
    BY <1>7 DEF WaitForUtd, Started
  <2>2. Budget' = Budget
    BY <2>1 DEF Budget
  <2> QED
    BY <2>2, BudgetType, <1>7 DEF WaitForUtd
<1>8. CASE WaitReturn
  <2>1. Started' = Started /\ config' = config
    BY <1>8 DEF WaitReturn, Started
  <2>2. Budget' = Budget
    BY <2>1 DEF Budget
  <2> QED
    BY <2>2, BudgetType, <1>8 DEF WaitReturn
<1>9. ASSUME NEW t \in Threads, Begin(t) PROVE WithinBudget'
  <2>1. Started' = Started /\ config' = config
    BY <1>9 DEF Begin, Goto, Started
  <2>2. Budget' = Budget
    BY <2>1 DEF Budget
  <2> QED
    BY <2>2, BudgetType, <1>9 DEF Begin, Goto
<1>10. ASSUME NEW t \in Threads, PretrainStep(t) PROVE WithinBudget'
  <2>1. Started' = Started /\ config' = config
    BY <1>10 DEF PretrainStep, Update, Goto, Started
  <2>2. Budget' = Budget
    BY <2>1 DEF Budget
  <2> QED
    BY <2>2, BudgetType, <1>10 DEF PretrainStep, Update, Goto
<1>11. ASSUME NEW t \in Threads, PretrainEnds(t) PROVE WithinBudget'
  <2>1. Started' = Started /\ config' = config
    BY <1>11 DEF PretrainEnds, Goto, Started
  <2>2. Budget' = Budget
    BY <2>1 DEF Budget
  <2> QED
    BY <2>2, BudgetType, <1>11 DEF PretrainEnds, Goto
<1>12. ASSUME NEW t \in Threads, Warmup(t) PROVE WithinBudget'
  <2>1. Started' = Started /\ config' = config
    BY <1>12 DEF Warmup, Goto, Started
  <2>2. Budget' = Budget
    BY <2>1 DEF Budget
  <2> QED
    BY <2>2, BudgetType, <1>12 DEF Warmup, Goto
<1>13. ASSUME NEW t \in Threads, LoopEnds(t) PROVE WithinBudget'
  <2>1. Started' = Started /\ config' = config
    BY <1>13 DEF LoopEnds, Goto, Started
  <2>2. Budget' = Budget
    BY <2>1 DEF Budget
  <2> QED
    BY <2>2, BudgetType, <1>13 DEF LoopEnds, Goto
<1>14. ASSUME NEW t \in Threads, TrainStep(t) PROVE WithinBudget'
  <2>1. Started' = Started /\ config' = config
    BY <1>14 DEF TrainStep, Update, Goto, MaxedOut, Started
  <2>2. Budget' = Budget
    BY <2>1 DEF Budget
  <2> QED
    BY <2>2, BudgetType, <1>14 DEF TrainStep, Update, Goto, MaxedOut
<1>15. ASSUME NEW t \in Threads, Publish(t) PROVE WithinBudget'
  <2>1. Started' = Started /\ config' = config
    BY <1>15 DEF Publish, Goto, Started
  <2>2. Budget' = Budget
    BY <2>1 DEF Budget
  <2> QED
    BY <2>2, BudgetType, <1>15 DEF Publish, Goto
<1>16. ASSUME NEW t \in Threads, CountStep(t) PROVE WithinBudget'
  <2>1. Started' = Started /\ config' = config
    BY <1>16 DEF CountStep, Goto, Started
  <2>2. Budget' = Budget
    BY <2>1 DEF Budget
  <2> QED
    BY <2>2, BudgetType, <1>16 DEF CountStep, Goto
<1>17. CASE UNCHANGED vars
  BY <1>17 DEF vars, Budget, Started
<1> QED
  BY <1>1, <1>2, <1>3, <1>4, <1>5, <1>6, <1>7, <1>8, <1>9,
     <1>10, <1>11, <1>12, <1>13, <1>14, <1>15, <1>16, <1>17
     DEF Next, LearnerStep

(***************************************************************************)
(* max_steps holds over restarts, up to the repeated pretraining           *)
(* (session.py:309-318, 334-336).                                          *)
(***************************************************************************)
THEOREM StepsBounded ==
  ~JoinTimesOut /\ IsFiniteSet(Threads) => (Spec => []StepsWithinMax)
<1> SUFFICES ASSUME ~JoinTimesOut, IsFiniteSet(Threads)
             PROVE  Spec => []StepsWithinMax
  OBVIOUS
<1>1. IInv /\ WithinBudget /\ [Next]_vars => IInv' /\ WithinBudget'
  BY NextIInv, BudgetKept
<1>2. Init => WithinBudget
  <2> SUFFICES ASSUME Init PROVE WithinBudget
    OBVIOUS
  <2>1. learner_step = 0 /\ \A t \in Threads : pc[t] = "new"
    BY DEF Init
  <2>2. Budget \in Nat
    BY InitIInv, BudgetType DEF IInv
  <2> QED
    BY <2>1, <2>2 DEF WithinBudget, InFlight
<1>3. WithinBudget => StepsWithinMax
  BY DEF WithinBudget, StepsWithinMax, Budget, Started
<1> QED
  BY InitIInv, <1>1, <1>2, <1>3, PTL DEF Spec
==============================================================================
