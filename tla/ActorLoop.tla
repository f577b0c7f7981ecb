------------------------------ MODULE ActorLoop ------------------------------
(***************************************************************************)
(* The training script around a Session (examples/toolhang/train.py): the  *)
(* main thread steps the environment while the learner runs, waits for the *)
(* learner at the end of an episode, and stops it when the loop ends.      *)
(* Composed with Learner, whose main thread it drives.                     *)
(***************************************************************************)
EXTENDS Learner

VARIABLE at   \* where the script is: "setup", "top", "stepped", "finally", "end"

loopVars == <<vars, at>>

LoopInit == Init /\ at = "setup"

Setup ==
  /\ at = "setup"
  /\ \E t \in Threads : StartLearner(t)
  /\ at' = "top"

\* while session.status()["learner_running"]: step, buffer.add.
Step ==
  /\ at = "top"
  /\ Alive(thread)
  /\ Insert(Main) /\ demo' = demo
  /\ at' = "stepped"

\* The transition did not end the episode, or there is nothing to wait for.
GoOn ==
  /\ at = "stepped" /\ MainFree
  /\ at' = "top"
  /\ UNCHANGED vars

\* if done or trunc: ... if st["learner_step"] > 0: wait_for_utd(min_utd).
EpisodeEnds ==
  /\ at = "stepped"
  /\ learner_step > 0
  /\ WaitForUtd
  /\ at' = "top"

Leave ==
  /\ at = "top" /\ MainFree
  /\ ~Alive(thread)
  /\ StopLearner
  /\ at' = "finally"

Finish ==
  /\ at = "finally"
  /\ Joined
  /\ at' = "end"

Script == Setup \/ Step \/ GoOn \/ EpisodeEnds \/ Leave \/ Finish

LoopNext ==
  \/ Script
  \/ /\ \/ \E t \in Threads : LearnerStep(t)
        \/ Count(Main)
        \/ WaitReturn
     /\ UNCHANGED at

LoopSpec ==
  /\ LoopInit /\ [][LoopNext]_loopVars
  /\ WF_loopVars(Script)
  /\ \A t \in Threads : WF_loopVars(LearnerStep(t) /\ UNCHANGED at)
  /\ WF_loopVars(Count(Main) /\ UNCHANGED at)
  /\ WF_loopVars(WaitReturn /\ UNCHANGED at)

-----------------------------------------------------------------------------
(***************************************************************************)
(* "Stop the learner after this many gradient updates" (config.py:25), and *)
(* the loop runs "while ... learner_running": when the learner has done    *)
(* its max_steps, the script comes to its end.                             *)
(***************************************************************************)
ScriptEnds == (at # "setup" /\ MaxedOut) ~> at = "end"
==============================================================================
