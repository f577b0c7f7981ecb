---------------------------- MODULE Training_proofs ----------------------------
(***************************************************************************)
(* Proofs about Training, for any jobs, any number of stored transitions,  *)
(* updates, chunks and restarts: a whole checkpoint survives the death of  *)
(* the process, credit stays where it belongs, two draws of a run have     *)
(* different keys, no key that was drawn from is split, but where the code *)
(* does so, and every window that a policy learns from lies in one         *)
(* demonstration.                                                          *)
(***************************************************************************)
EXTENDS Training, SequenceTheorems, FiniteSetTheorems, WellFoundedInduction, TLAPS

-------------------------------------------------------------------------------
(* Checkpoints *)

(* The file names that the scripts save under. *)
Named == [name : {"none", "out", "best", "step"}, step : Nat, suffix : {""}]

FileStates == {None, Torn, Whole}

(***************************************************************************)
(* What is being saved.  An agent's file is only ever replaced, so none is *)
(* torn.  A policy's files are written in place, one after the other.      *)
(***************************************************************************)
SaveTypes ==
  /\ job \in Jobs
  /\ files \in [Files -> FileStates]
  /\ todo \in Seq(Named) /\ writing \in Named
  /\ round \in Nat /\ run \in Nat \ {0}
  /\ IsAgent => pc \in {"start", "download", "act", "evaluate", "end", "dead"}
  /\ ~IsAgent => pc \in {"start", "train", "evaluate", "end", "dead"}

Replaced == IsAgent => \A f \in Checkpoints : files[f] # Torn

(* train_flow.py: the copy named after the first evaluation is never       *)
(* written again.                                                          *)
FlowCopy ==
  /\ todo \in {<<>>, <<Out>>, <<Out, AtStep(round + 1)>>, <<AtStep(round + 1)>>}
  /\ writing \in {NoFile, Out, AtStep(round + 1)}
  /\ pc = "evaluate" /\ round = 0 =>
       \/ todo \in {<<Out, AtStep(1)>>, <<AtStep(1)>>}
       \/ writing = AtStep(1)
       \/ files[AtStep(1)] = Whole
  /\ round > 0 => files[AtStep(1)] = Whole

(* train_flow_state.py: out is whole while best is written, and best while *)
(* out is, from the first evaluation on.                                   *)
Writes(f) ==
  /\ todo \in {<<>>, <<f>>} /\ writing \in {NoFile, f}
  /\ Saved => files[f] = Whole

StateCopy ==
  /\ pc = "train" /\ round = 0 => Saved
  /\ pc = "train" /\ round > 0 => Writes(Best) /\ files[Out] = Whole
  /\ pc = "evaluate" => Writes(Out)
  /\ pc = "end" => todo \in {<<>>, <<Out>>} /\ writing \in {NoFile, Out}
  /\ pc \in {"evaluate", "end"} /\ round > 0 => files[Best] = Whole
  /\ pc = "dead" /\ round > 0 => Final # {}
  /\ pc = "start" => Saved /\ round = 0

SaveInv ==
  /\ SaveTypes
  /\ Replaced
  /\ job.kind = "flow" /\ run = 1 => FlowCopy
  /\ job.kind = "flow_state" /\ run = 1 => StateCopy

(* The names are names, and differ; a temporary file is no checkpoint.     *)
LEMMA Names ==
  /\ Out \in Named /\ Best \in Named /\ NoFile \in Named
  /\ \A r \in Nat : AtStep(r) \in Named
  /\ Checkpoints \subseteq Named /\ NoFile \notin Checkpoints
  /\ \A f \in Named : Temporary(f) \notin Named /\ Temporary(f) # f
  /\ Resnet10 \notin Checkpoints
  /\ Out # Best /\ Out # NoFile /\ Best # NoFile
  /\ \A r \in Nat : AtStep(r) # Out /\ AtStep(r) # Best /\ AtStep(r) # NoFile
  /\ \A q, r \in Nat : AtStep(q) = AtStep(r) => q = r
<1> USE DEF Named, Out, Best, NoFile, File, None
<1>1. Out \in Named /\ Best \in Named /\ NoFile \in Named
  OBVIOUS
<1>2. \A r \in Nat : AtStep(r) \in Named
  BY DEF AtStep
<1>3. \A f \in Named : f.suffix = "" /\ Temporary(f).suffix = ".tmp"
  BY DEF Temporary
<1>4. \A f \in Named : Temporary(f) \notin Named /\ Temporary(f) # f
  <2> SUFFICES ASSUME NEW f \in Named PROVE Temporary(f) \notin Named /\ Temporary(f) # f
    OBVIOUS
  <2>1. f.suffix = "" /\ Temporary(f).suffix = ".tmp"
    BY <1>3
  <2>2. \A g \in Named : g.suffix = ""
    BY <1>3
  <2> HIDE DEF Named
  <2> QED
    BY <2>1, <2>2
<1>5. \A r \in Nat : AtStep(r) # Out /\ AtStep(r) # Best /\ AtStep(r) # NoFile
  BY DEF AtStep
<1>6. \A q, r \in Nat : AtStep(q) = AtStep(r) => q = r
  BY DEF AtStep
<1>7. Out # Best /\ Out # NoFile /\ Best # NoFile
  OBVIOUS
<1>8. Checkpoints \subseteq Named
  <2>1. \A r \in 1 .. UpdateBound : r \in Nat
    BY TrainingAssumption
  <2> HIDE DEF Named, Out, Best
  <2> QED
    BY <1>1, <1>2, <2>1 DEF Checkpoints
<1>9. Resnet10 # Out /\ Resnet10 # Best /\ \A r \in Nat : Resnet10 # AtStep(r)
  <2>1. Resnet10.name = "resnet10_params" /\ Out.name = "out" /\ Best.name = "best"
    BY DEF Resnet10
  <2>2. \A r \in Nat : AtStep(r).name = "step"
    BY DEF AtStep
  <2> HIDE DEF Out, Best, File
  <2> QED
    BY <2>1, <2>2
<1>10. NoFile \notin Checkpoints /\ Resnet10 \notin Checkpoints
  <2> HIDE DEF Named, Out, Best, NoFile, File, None
  <2> QED
    BY <1>5, <1>7, <1>9, TrainingAssumption DEF Checkpoints
<1> QED
  BY <1>1, <1>2, <1>4, <1>5, <1>6, <1>7, <1>8, <1>10

(* What the scripts of a policy save, and when. *)
LEMMA PolicySaves ==
  ASSUME job \in Jobs, ~IsAgent, round \in Nat
  PROVE  /\ job.kind \in {"dp", "flow", "flow_state"}
         /\ Script = job.kind
         /\ SavesAtEnd = <<Out>>
         /\ SavesBefore = IF job.kind = "flow" THEN <<Out, AtStep(round + 1)>> ELSE <<Out>>
         /\ SavesAfter = CASE job.kind = "flow_state" /\ round = 0 -> {<<Best>>}
                           [] job.kind = "flow_state" /\ round # 0 -> {<<>>, <<Best>>}
                           [] OTHER -> {<<>>}
<1>1. job.kind \in {"dp", "flow", "flow_state"}
  BY TrainingAssumption DEF IsAgent, Job, BCJob, Trainers
<1>2. Script = job.kind
  BY <1>1 DEF Script
<1>3. SavesAtEnd = <<Out>>
  BY <1>1, <1>2 DEF SavesAtEnd, Trainers
<1>4. SavesBefore = IF job.kind = "flow" THEN <<Out, AtStep(round + 1)>> ELSE <<Out>>
  BY <1>1, <1>2 DEF SavesBefore
<1>5. SavesAfter = CASE job.kind = "flow_state" /\ round = 0 -> {<<Best>>}
                    [] job.kind = "flow_state" /\ round # 0 -> {<<>>, <<Best>>}
                    [] OTHER -> {<<>>}
  BY <1>1, <1>2 DEF SavesAfter
<1> QED
  BY <1>1, <1>2, <1>3, <1>4, <1>5

(* Whatever a script saves has a name. *)
LEMMA SavesNamed ==
  ASSUME job \in Jobs, round \in Nat
  PROVE  /\ SavesAtEnd \in Seq(Named)
         /\ SavesAfter \subseteq Seq(Named)
         /\ ~IsAgent => SavesBefore \in Seq(Named)
<1>1. /\ <<>> \in Seq(Named) /\ <<Out>> \in Seq(Named) /\ <<Best>> \in Seq(Named)
      /\ <<Out, Best>> \in Seq(Named) /\ <<Out, AtStep(round + 1)>> \in Seq(Named)
  BY Names
<1>2. SavesAtEnd \in Seq(Named)
  BY <1>1 DEF SavesAtEnd
<1>3. SavesAfter \subseteq Seq(Named)
  BY <1>1 DEF SavesAfter
<1>4. ~IsAgent => SavesBefore \in Seq(Named)
  BY <1>1, PolicySaves
<1> QED
  BY <1>2, <1>3, <1>4

(* What is being saved keeps its type. *)
LEMMA SaveTypesInvariant == Spec => []SaveTypes
<1> USE DEF scriptVars, learnVars, keyVars
<1>1. Init => SaveTypes
  <2> SUFFICES ASSUME Init PROVE SaveTypes
    OBVIOUS
  <2>1. files \in [Files -> FileStates]
    BY DEF Init, FileStates
  <2>2. todo \in Seq(Named) /\ writing \in Named
    BY Names DEF Init
  <2> QED
    BY <2>1, <2>2 DEF Init, SaveTypes
<1>2. SaveTypes /\ [Next]_vars => SaveTypes'
  <2> SUFFICES ASSUME SaveTypes, [Next]_vars PROVE SaveTypes'
    OBVIOUS
  <2> USE DEF SaveTypes, IsAgent
  <2>1. CASE DownloadWeights
    BY <2>1 DEF DownloadWeights, NeedsWeights, FileStates
  <2>2. CASE Downloaded
    BY <2>2 DEF Downloaded, FileStates
  <2>3. CASE WeightsUnreadable
    BY <2>3 DEF WeightsUnreadable, NeedsWeights
  <2>4. CASE StartSession
    BY <2>4 DEF StartSession
  <2>5. CASE StartPolicy
    BY <2>5 DEF StartPolicy
  <2>6. CASE CriticUpdate \/ FullUpdate \/ PretrainStep \/ Act
    BY <2>6 DEF CriticUpdate, FullUpdate, PretrainStep, Act, Learning
  <2>7. CASE Evaluate
    BY <2>7, SavesNamed DEF Evaluate
  <2>8. CASE Finish
    BY <2>8, SavesNamed DEF Finish
  <2>9. CASE TrainPolicy
    <3>1. ~IsAgent /\ UNCHANGED <<job, files, round, writing, run>>
      BY <2>9 DEF TrainPolicy
    <3>3. PICK due \in BOOLEAN :
             /\ todo' = IF due THEN SavesBefore ELSE <<>>
             /\ pc' = IF due THEN "evaluate" ELSE "train"
      BY <2>9 DEF TrainPolicy
    <3>4. pc' \in {"train", "evaluate"} /\ todo' \in {<<>>, SavesBefore}
      BY <3>3
    <3>2. todo' \in Seq(Named)
      <4>1. SavesBefore \in Seq(Named) /\ <<>> \in Seq(Named)
        BY <3>1, SavesNamed
      <4> QED
        BY <3>4, <4>1
    <3> QED
      BY <3>1, <3>2, <3>4
  <2>10. CASE EvaluatePolicy
    BY <2>10, SavesNamed DEF EvaluatePolicy
  <2>11. CASE OpenFile
    <3>1. Head(todo) \in Named /\ Tail(todo) \in Seq(Named)
      BY <2>11, HeadTailProperties DEF OpenFile
    <3> QED
      BY <2>11, <3>1 DEF OpenFile, FileStates
  <2>12. CASE Dump
    BY <2>12, Names DEF Dump, FileStates
  <2>13. CASE Replace
    <3>1. files' \in [Files -> FileStates]
      BY <2>13 DEF Replace, FileStates
    <3> QED
      BY <2>13, <3>1, Names DEF Replace
  <2>14. CASE SkipSave \/ Crash
    BY <2>14, Names DEF SkipSave, Crash
  <2>15. CASE Restart
    BY <2>15, Names DEF Restart
  <2>16. CASE UNCHANGED vars
    BY <2>16 DEF vars
  <2> QED
    BY <2>1, <2>2, <2>3, <2>4, <2>5, <2>6, <2>7, <2>8, <2>9, <2>10,
       <2>11, <2>12, <2>13, <2>14, <2>15, <2>16 DEF Next
<1> QED
  BY <1>1, <1>2, PTL DEF Spec

(* An agent's checkpoints are never torn. *)
LEMMA ReplacedStep == SaveTypes /\ Replaced /\ [Next]_vars => Replaced'
<1> SUFFICES ASSUME SaveTypes, Replaced, [Next]_vars PROVE Replaced'
  OBVIOUS
<1> USE DEF SaveTypes, IsAgent, Replaced, scriptVars, learnVars, keyVars
<1>1. job' = job
  BY DEF Next, vars, DownloadWeights, Downloaded, WeightsUnreadable, StartSession,
     StartPolicy, CriticUpdate, FullUpdate, PretrainStep, Act, Evaluate, Finish,
     TrainPolicy, EvaluatePolicy, OpenFile, Dump, Replace, SkipSave, Crash, Restart
<1> SUFFICES ASSUME IsAgent, NEW f \in Checkpoints PROVE files'[f] # Torn
  BY <1>1
<1>2. f \in Files /\ files[f] # Torn /\ f # Resnet10 /\ f \in Named
  BY Names DEF Files
<1>3. \A g \in Named : Target(g) = Temporary(g) /\ Target(g) # f
  BY <1>2, Names DEF Target
<1>4. CASE DownloadWeights \/ Downloaded
  BY <1>2, <1>4 DEF DownloadWeights, Downloaded
<1>5. CASE OpenFile
  <2>1. Head(todo) \in Named
    BY <1>5, HeadTailProperties DEF OpenFile
  <2> QED
    BY <1>2, <1>3, <1>5, <2>1 DEF OpenFile
<1>6. CASE Dump
  BY <1>2, <1>3, <1>6 DEF Dump
<1>7. CASE Replace
  <2>1. files'[f] \in {files[f], None, Whole}
    BY <1>2, <1>7 DEF Replace
  <2> QED
    BY <1>2, <2>1 DEF None, Whole, Torn
<1>8. CASE UNCHANGED files
  BY <1>2, <1>8
<1> QED
  BY <1>4, <1>5, <1>6, <1>7, <1>8
     DEF Next, vars, WeightsUnreadable, StartSession, StartPolicy, CriticUpdate,
         FullUpdate, PretrainStep, Act, Evaluate, Finish, TrainPolicy, EvaluatePolicy,
         SkipSave, Crash, Restart

(* What a policy's process can do until it is started again. *)
LEMMA PolicyStep ==
  ASSUME SaveTypes, ~IsAgent, [Next]_vars, run' = run
  PROVE  /\ job' = job
         /\ \/ StartPolicy \/ Finish \/ TrainPolicy \/ EvaluatePolicy
            \/ OpenFile \/ Dump \/ Crash \/ UNCHANGED vars
<1> USE DEF SaveTypes
<1>1. pc # "download" /\ pc # "act"
  OBVIOUS
<1>2. ~Replace
  BY DEF Replace, Target
<1>3. ~SkipSave
  BY PolicySaves DEF SkipSave
<1>4. ~Restart
  BY DEF Restart
<1>5. ~ (DownloadWeights \/ Downloaded \/ WeightsUnreadable \/ StartSession \/ CriticUpdate
         \/ FullUpdate \/ PretrainStep \/ Act \/ Evaluate)
  BY <1>1 DEF DownloadWeights, Downloaded, WeightsUnreadable, NeedsWeights, StartSession,
     CriticUpdate, FullUpdate, PretrainStep, Learning, Act, Evaluate
<1>6. job' = job
  BY <1>2, <1>3, <1>4, <1>5 DEF Next, vars, StartPolicy, TrainPolicy, EvaluatePolicy,
     Finish, OpenFile, Dump, Crash
<1> QED
  BY <1>2, <1>3, <1>4, <1>5, <1>6 DEF Next

(* Opening the next file, and dumping it, of a policy. *)
LEMMA PolicyWrites ==
  ASSUME SaveTypes, ~IsAgent
  PROVE  /\ OpenFile => /\ writing = NoFile /\ writing' = Head(todo) /\ todo' = Tail(todo)
                        /\ \A f \in Files : f # Head(todo) => files'[f] = files[f]
                        /\ UNCHANGED <<pc, round, run>>
         /\ Dump => /\ writing # NoFile /\ writing' = NoFile /\ todo' = todo
                    /\ \A f \in Files : files'[f] = IF f = writing THEN Whole ELSE files[f]
                    /\ UNCHANGED <<pc, round, run>>
BY DEF OpenFile, Dump, Target, SaveTypes

(* A policy's checkpoints are files. *)
LEMMA PolicyFiles == Out \in Files /\ Best \in Files /\ AtStep(1) \in Files
<1>1. 1 \in 1 .. UpdateBound
  BY TrainingAssumption
<1> QED
  BY <1>1 DEF Files, Checkpoints

(* A flow policy keeps the copy of its first evaluation. *)
LEMMA FlowCopyStep ==
  ASSUME SaveTypes, job.kind = "flow", FlowCopy, [Next]_vars, run' = run
  PROVE  FlowCopy'
<1> DEFINE first == AtStep(1)
           next == AtStep(round + 1)
<1>1. ~IsAgent /\ round \in Nat
  BY DEF IsAgent, Kinds, SaveTypes
<1>2. /\ SavesAtEnd = <<Out>> /\ SavesBefore = <<Out, next>>
      /\ SavesAfter = {<<>>}
  BY <1>1, PolicySaves DEF SaveTypes
<1>3. /\ first \in Files /\ next # NoFile /\ Out # NoFile /\ Out # first /\ Out # next
      /\ round > 0 => next # first
  BY <1>1, PolicyFiles, Names
<1>4. CASE StartPolicy
  BY <1>4 DEF StartPolicy, FlowCopy, scriptVars, learnVars
<1>5. CASE Finish
  BY <1>2, <1>5 DEF Finish, FlowCopy, Saved
<1>6. CASE TrainPolicy
  <2>1. UNCHANGED <<files, round, writing>> /\ writing = NoFile /\ pc = "train"
    BY <1>6 DEF TrainPolicy, Saved
  <2>2. PICK due \in BOOLEAN :
           /\ todo' = IF due THEN SavesBefore ELSE <<>>
           /\ pc' = IF due THEN "evaluate" ELSE "train"
    BY <1>6 DEF TrainPolicy
  <2>3. pc' = "evaluate" => todo' = <<Out, next>>
    BY <1>2, <2>2
  <2>4. todo' \in {<<>>, <<Out, next>>}
    BY <1>2, <2>2
  <2>5. round = 0 => next = first
    OBVIOUS
  <2> QED
    BY <2>1, <2>3, <2>4, <2>5 DEF FlowCopy
<1>7. CASE EvaluatePolicy
  <2>1. UNCHANGED <<files, writing>> /\ todo = <<>> /\ writing = NoFile /\ pc = "evaluate"
        /\ pc' = "train" /\ round' = round + 1 /\ todo' = <<>>
    BY <1>2, <1>7 DEF EvaluatePolicy, Saved, learnVars
  <2>2. files[first] = Whole
    BY <1>1, <1>3, <2>1, Names DEF FlowCopy
  <2> QED
    BY <2>1, <2>2 DEF FlowCopy
<1>8. CASE OpenFile
  <2>1. /\ writing = NoFile /\ writing' = Head(todo) /\ todo' = Tail(todo)
        /\ \A f \in Files : f # Head(todo) => files'[f] = files[f]
        /\ UNCHANGED <<pc, round, run>>
    BY <1>1, <1>8, PolicyWrites
  <2>2. todo # <<>>
    BY <1>8 DEF OpenFile
  <2>3. CASE todo = <<Out>>
    <3>1. writing' = Out /\ todo' = <<>>
      BY <2>1, <2>3
    <3>2. files'[first] = files[first]
      BY <1>3, <2>1, <2>3
    <3>3. pc = "evaluate" /\ round = 0 => files[first] = Whole
      BY <1>3, <2>1, <2>3, Names DEF FlowCopy
    <3> QED
      BY <2>1, <3>1, <3>2, <3>3 DEF FlowCopy
  <2>4. CASE todo = <<Out, next>>
    <3>1. writing' = Out /\ todo' = <<next>>
      BY <2>1, <2>4
    <3>2. files'[first] = files[first]
      BY <1>3, <2>1, <2>4
    <3>3. round = 0 => next = first
      OBVIOUS
    <3>4. todo' \in {<<>>, <<Out>>, <<Out, next>>, <<next>>} /\ next' = next
      BY <2>1, <3>1
    <3>5. round > 0 => files[first] = Whole
      BY DEF FlowCopy
    <3> QED
      BY <2>1, <3>1, <3>2, <3>3, <3>4, <3>5 DEF FlowCopy
  <2>5. CASE todo = <<next>>
    <3>1. writing' = next /\ todo' = <<>>
      BY <2>1, <2>5
    <3>2. round > 0 => files'[first] = files[first]
      BY <1>3, <2>1, <2>5
    <3> QED
      BY <1>1, <2>1, <3>1, <3>2 DEF FlowCopy
  <2> QED
    BY <2>2, <2>3, <2>4, <2>5 DEF FlowCopy
<1>9. CASE Dump
  <2>1. /\ writing # NoFile /\ writing' = NoFile /\ todo' = todo
        /\ \A f \in Files : files'[f] = IF f = writing THEN Whole ELSE files[f]
        /\ UNCHANGED <<pc, round, run>>
    BY <1>1, <1>9, PolicyWrites
  <2> QED
    BY <1>3, <2>1 DEF FlowCopy
<1>10. CASE Crash
  BY <1>10 DEF Crash, FlowCopy
<1>11. CASE UNCHANGED vars
  BY <1>11 DEF vars, scriptVars, FlowCopy
<1> QED
  BY <1>1, <1>4, <1>5, <1>6, <1>7, <1>8, <1>9, <1>10, <1>11, PolicyStep

(* A flow policy over states keeps out whole, or best. *)
LEMMA StateCopyStep ==
  ASSUME SaveTypes, job.kind = "flow_state", StateCopy, [Next]_vars, run' = run
  PROVE  StateCopy'
<1>1. ~IsAgent /\ round \in Nat
  BY DEF IsAgent, Kinds, SaveTypes
<1>2. /\ SavesAtEnd = <<Out>> /\ SavesBefore = <<Out>>
      /\ SavesAfter = IF round = 0 THEN {<<Best>>} ELSE {<<>>, <<Best>>}
  BY <1>1, PolicySaves DEF SaveTypes
<1>3. Out \in Files /\ Best \in Files /\ Out # Best /\ Out # NoFile /\ Best # NoFile
  BY PolicyFiles, Names
<1>4. Out \in Checkpoints /\ Best \in Checkpoints
  BY DEF Checkpoints
<1>5. CASE StartPolicy
  BY <1>1, <1>5 DEF StartPolicy, StateCopy, Saved
<1>6. CASE Finish
  <2>1. pc = "train" /\ pc' = "end" /\ todo' = <<Out>> /\ todo = <<>> /\ writing = NoFile
        /\ UNCHANGED <<files, round, writing>>
    BY <1>1, <1>2, <1>6 DEF Finish, Saved, SaveTypes
  <2>2. round > 0 => files[Best] = Whole
    BY <2>1 DEF StateCopy, Writes, Saved
  <2> QED
    BY <2>1, <2>2 DEF StateCopy
<1>7. CASE TrainPolicy
  <2>1. UNCHANGED <<files, round, writing>> /\ Saved /\ pc = "train"
    BY <1>7 DEF TrainPolicy
  <2>2. PICK due \in BOOLEAN :
           /\ todo' = IF due THEN SavesBefore ELSE <<>>
           /\ pc' = IF due THEN "evaluate" ELSE "train"
    BY <1>7 DEF TrainPolicy
  <2>3. round > 0 => files[Best] = Whole /\ files[Out] = Whole
    BY <2>1 DEF StateCopy, Writes
  <2>4. CASE due
    <3>1. todo' = <<Out>> /\ pc' = "evaluate"
      BY <1>2, <2>2, <2>4
    <3> QED
      BY <2>1, <2>3, <3>1 DEF StateCopy, Writes, Saved
  <2>5. CASE ~due
    <3>1. todo' = <<>> /\ pc' = "train"
      BY <2>2, <2>5
    <3> QED
      BY <2>1, <2>3, <3>1 DEF StateCopy, Writes, Saved
  <2> QED
    BY <2>4, <2>5
<1>8. CASE EvaluatePolicy
  <2>1. UNCHANGED <<files, writing>> /\ Saved /\ pc = "evaluate" /\ pc' = "train"
        /\ round' = round + 1 /\ todo' \in SavesAfter
    BY <1>8 DEF EvaluatePolicy, learnVars
  <2>2. files[Out] = Whole /\ (round > 0 => files[Best] = Whole)
    BY <2>1 DEF StateCopy, Writes
  <2>3. todo' = <<Best>> \/ (round > 0 /\ todo' = <<>>)
    BY <1>1, <1>2, <2>1
  <2> QED
    BY <1>1, <2>1, <2>2, <2>3 DEF StateCopy, Writes, Saved
<1>9. CASE OpenFile
  <2>1. /\ writing = NoFile /\ writing' = Head(todo) /\ todo' = Tail(todo)
        /\ \A f \in Files : f # Head(todo) => files'[f] = files[f]
        /\ UNCHANGED <<pc, round, run>>
    BY <1>1, <1>9, PolicyWrites
  <2>2. todo # <<>> /\ pc # "dead"
    BY <1>9 DEF OpenFile
  <2>3. pc \in {"train", "evaluate", "end"}
    BY <1>1, <2>2 DEF StateCopy, Saved, SaveTypes
  <2>4. CASE pc = "train"
    <3>1. todo = <<Best>> /\ round > 0
      BY <1>1, <2>2, <2>4 DEF StateCopy, Writes, Saved
    <3>2. writing' = Best /\ todo' = <<>> /\ files'[Out] = files[Out]
      BY <1>3, <2>1, <3>1
    <3> QED
      BY <1>3, <2>1, <2>4, <3>1, <3>2 DEF StateCopy, Writes, Saved
  <2>5. CASE pc \in {"evaluate", "end"}
    <3>1. todo = <<Out>>
      BY <2>2, <2>5 DEF StateCopy, Writes
    <3>2. writing' = Out /\ todo' = <<>> /\ files'[Best] = files[Best]
      BY <1>3, <2>1, <3>1
    <3> QED
      BY <1>3, <2>1, <2>5, <3>2 DEF StateCopy, Writes, Saved
  <2> QED
    BY <2>3, <2>4, <2>5
<1>10. CASE Dump
  <2>1. /\ writing # NoFile /\ writing' = NoFile /\ todo' = todo
        /\ \A f \in Files : files'[f] = IF f = writing THEN Whole ELSE files[f]
        /\ UNCHANGED <<pc, round, run>>
    BY <1>1, <1>10, PolicyWrites
  <2>2. pc \in {"train", "evaluate", "end"}
    BY <1>1, <1>10, <2>1 DEF Dump, StateCopy, Saved, SaveTypes
  <2>3. CASE pc = "train"
    <3>1. round > 0 /\ writing = Best
      BY <1>1, <2>1, <2>3 DEF StateCopy, Writes, Saved
    <3> QED
      BY <1>3, <2>1, <2>3, <3>1 DEF StateCopy, Writes, Saved
  <2>4. CASE pc \in {"evaluate", "end"}
    <3>1. writing = Out
      BY <2>1, <2>4 DEF StateCopy, Writes
    <3> QED
      BY <1>3, <2>1, <2>4, <3>1 DEF StateCopy, Writes, Saved
  <2> QED
    BY <2>2, <2>3, <2>4
<1>11. CASE Crash
  <2>1. pc # "dead" /\ pc' = "dead" /\ UNCHANGED <<files, round>>
    BY <1>11 DEF Crash
  <2>2. round > 0 => files[Out] = Whole \/ files[Best] = Whole
    BY <1>1, <2>1 DEF StateCopy, SaveTypes
  <2>3. round > 0 => Final # {} /\ Final' = Final
    BY <1>4, <2>1, <2>2 DEF Final, Loads
  <2> QED
    BY <2>1, <2>3 DEF StateCopy
<1>12. CASE UNCHANGED vars
  BY <1>12 DEF vars, scriptVars, StateCopy, Writes, Saved, Final, Loads
<1> QED
  BY <1>1, <1>5, <1>6, <1>7, <1>8, <1>9, <1>10, <1>11, <1>12, PolicyStep

(***************************************************************************)
(* Whenever the process dies, a checkpoint of an agent that was ever       *)
(* replaced is whole, over every run, and a flow policy keeps a whole copy *)
(* from its first evaluation to the end of the first run.                  *)
(***************************************************************************)
THEOREM ACopySurvivesCorrect == Spec => []ACopySurvives
<1>1. Init => SaveInv
  <2> SUFFICES ASSUME Init PROVE SaveInv
    OBVIOUS
  <2>1. SaveTypes
    <3>1. files \in [Files -> FileStates]
      BY DEF Init, FileStates
    <3>2. todo \in Seq(Named) /\ writing \in Named
      BY Names DEF Init
    <3> QED
      BY <3>1, <3>2 DEF Init, SaveTypes
  <2>2. Replaced
    BY DEF Init, Replaced, Checkpoints, Files, None, Torn
  <2>3. FlowCopy /\ StateCopy
    BY DEF Init, FlowCopy, StateCopy, Saved
  <2> QED
    BY <2>1, <2>2, <2>3 DEF SaveInv
<1>2. SaveInv /\ SaveTypes' /\ [Next]_vars => SaveInv'
  <2> SUFFICES ASSUME SaveInv, SaveTypes', [Next]_vars PROVE SaveInv'
    OBVIOUS
  <2>1. Replaced'
    BY ReplacedStep DEF SaveInv
  <2>2. job' = job /\ (run' = run \/ run' = run + 1)
    BY DEF Next, vars, scriptVars, learnVars, keyVars, DownloadWeights, Downloaded,
       WeightsUnreadable, StartSession, StartPolicy, CriticUpdate, FullUpdate,
       PretrainStep, Act, Evaluate, Finish, TrainPolicy, EvaluatePolicy, OpenFile, Dump,
       Replace, SkipSave, Crash, Restart
  <2>3. run' = 1 => run' = run
    BY <2>2 DEF SaveInv, SaveTypes
  <2>4. job.kind = "flow" /\ run' = 1 => FlowCopy'
    BY <2>3, FlowCopyStep DEF SaveInv
  <2>5. job.kind = "flow_state" /\ run' = 1 => StateCopy'
    BY <2>3, StateCopyStep DEF SaveInv
  <2> QED
    BY <2>1, <2>2, <2>4, <2>5 DEF SaveInv
<1>3. SaveInv => ACopySurvives
  <2> SUFFICES ASSUME SaveInv PROVE ACopySurvives
    OBVIOUS
  <2>1. /\ Out \in Checkpoints /\ Best \in Checkpoints /\ AtStep(1) \in Checkpoints
    BY TrainingAssumption DEF Checkpoints
  <2>2. IsAgent => \A f \in Checkpoints : files[f] # Torn
    BY DEF SaveInv, Replaced
  <2>3. job.kind = "flow" /\ run = 1 /\ round > 0 => Final # {}
    BY <2>1 DEF SaveInv, FlowCopy, Final, Loads
  <2>4. job.kind = "flow_state" /\ run = 1 /\ round > 0 => Final # {}
    <3> SUFFICES ASSUME job.kind = "flow_state", run = 1, round > 0 PROVE Final # {}
      OBVIOUS
    <3>1. StateCopy /\ pc \in {"start", "train", "evaluate", "end", "dead"}
      BY DEF SaveInv, SaveTypes, IsAgent, Kinds
    <3>2. files[Out] = Whole \/ files[Best] = Whole \/ Final # {}
      BY <3>1 DEF StateCopy
    <3> QED
      BY <2>1, <3>2 DEF Final, Loads
  <2> QED
    BY <2>2, <2>3, <2>4 DEF ACopySurvives
<1> QED
  BY <1>1, <1>2, <1>3, SaveTypesInvariant, PTL DEF Spec

-------------------------------------------------------------------------------
(* Credit *)

(* The agents as values. *)
Credits == [State -> SUBSET Signal]
Agent ==
  [params : [Critics(job.kind) -> Credits], target : [Critics(job.kind) -> Credits],
   actor : Credits, taught : [SharedParts -> SUBSET AllNetworks(job.kind)],
   backbone : {"random", "imagenet"}, targetBackbone : {"random", "imagenet"},
   rng : Seq(Nat), step : Nat]

(* What an update of the SAC family leaves: every network of nets taught,  *)
(* the targets after the critics.                                          *)
SACParams(a, batch, nets) ==
  [n \in Critics(job.kind) |-> [s \in State |->
     a.params[n][s] \cup IF n \in nets /\ s \in batch THEN Taught(job, a, n, s) ELSE {}]]
SACActor(a, batch, nets) ==
  [s \in State |->
     a.actor[s] \cup IF "actor" \in nets /\ s \in batch THEN Taught(job, a, "actor", s) ELSE {}]
SACTarget(a, batch, nets) ==
  IF "critic" \in nets
  THEN [n \in Critics(job.kind) |-> [s \in State |->
          a.target[n][s] \cup SACParams(a, batch, nets)[n][s]]]
  ELSE a.target
SACTaught(a, nets) ==
  [p \in SharedParts |-> a.taught[p] \cup {n \in nets : p \in Reached(job, n)}]

(* An update of the SAC family, field by field. *)
LEMMA SACUpdateIs ==
  ASSUME NEW a \in Agent, NEW batch \in SUBSET Transition,
         NEW nets \in SUBSET AllNetworks(job.kind)
  PROVE  SACUpdate(job, a, batch, nets).agent =
           [params |-> SACParams(a, batch, nets), target |-> SACTarget(a, batch, nets),
            actor |-> SACActor(a, batch, nets), taught |-> SACTaught(a, nets),
            backbone |-> a.backbone, targetBackbone |-> a.targetBackbone,
            rng |-> Split(a.rng, 0), step |-> a.step + 1]
<1> DEFINE params == SACParams(a, batch, nets)
           actor == SACActor(a, batch, nets)
           taught == SACTaught(a, nets)
           applied == ApplyGradients(job, a, batch, nets)
           stepped == IF "critic" \in nets THEN TargetUpdate(applied) ELSE applied
<1>1. /\ DOMAIN a.params = Critics(job.kind) /\ DOMAIN a.target = Critics(job.kind)
      /\ \A n \in Critics(job.kind) : a.params[n] = [s \in State |-> a.params[n][s]]
      /\ a.actor = [s \in State |-> a.actor[s]]
  BY DEF Agent, Credits
<1>2. [n \in DOMAIN a.params |-> IF n \in nets THEN Teach(a.params[n], batch, LAMBDA i : Taught(job, a, n, i))
                                 ELSE a.params[n]] = params
  <2>1. ASSUME NEW n \in Critics(job.kind)
        PROVE (IF n \in nets THEN Teach(a.params[n], batch, LAMBDA i : Taught(job, a, n, i))
                                 ELSE a.params[n]) = params[n]
    BY <1>1 DEF SACParams, Teach
  <2> QED
    BY <1>1, <2>1 DEF SACParams
<1>3. (IF "actor" \in nets THEN Teach(a.actor, batch, LAMBDA i : Taught(job, a, "actor", i)) ELSE a.actor) = actor
    BY <1>1 DEF SACActor, Teach
<1>4. applied = [a EXCEPT !.params = params, !.actor = actor, !.taught = taught, !.step = @ + 1]
  <2> HIDE DEF params, actor
  <2> QED
  BY <1>2, <1>3 DEF ApplyGradients, SACTaught
<1>5. applied = [params |-> params, target |-> a.target, actor |-> actor, taught |-> taught,
           backbone |-> a.backbone, targetBackbone |-> a.targetBackbone, rng |-> a.rng, step |-> a.step + 1]
  <2> HIDE DEF params, actor, taught, applied
  <2> QED
    BY <1>4 DEF Agent
<1>6. stepped = [params |-> params, target |-> SACTarget(a, batch, nets), actor |-> actor, taught |-> taught,
           backbone |-> a.backbone, targetBackbone |-> a.targetBackbone, rng |-> a.rng, step |-> a.step + 1]
  <2> HIDE DEF actor, taught, applied
  <2>1. applied.target = a.target /\ applied.params = params
    BY <1>5
  <2>2. [n \in DOMAIN applied.target |-> [s \in State |-> applied.target[n][s] \cup applied.params[n][s]]]
        = [n \in Critics(job.kind) |-> [s \in State |-> a.target[n][s] \cup params[n][s]]]
    BY <1>1, <2>1
  <2> HIDE DEF params
  <2>3. CASE "critic" \in nets
    <3>1. TargetUpdate(applied) = [applied EXCEPT !.target = SACTarget(a, batch, nets)]
      BY <2>2, <2>3 DEF TargetUpdate, SACTarget, params
    <3> QED
      BY <1>5, <2>3, <3>1
  <2>4. CASE "critic" \notin nets
    BY <1>5, <2>4 DEF SACTarget
  <2> QED
    BY <2>3, <2>4
<1>7. SACUpdate(job, a, batch, nets).agent = [stepped EXCEPT !.rng = Split(a.rng, 0)]
  BY DEF SACUpdate, ApplyLossFns
<1> HIDE DEF params, actor, taught, applied, stepped
<1> QED
  BY <1>6, <1>7 DEF params, actor, taught

(* What an update of DSRL leaves. *)
DSRLParams(a, batch) ==
  [n \in Critics(job.kind) |-> [s \in State |->
     a.params[n][s] \cup
       IF s \notin batch THEN {}
       ELSE IF n = "critic" THEN CriticLoss(job, a, s) ELSE a.params["critic"][s]]]
DSRLActor(a, batch) ==
  [s \in State |-> a.actor[s] \cup IF s \in batch THEN a.params["z_critic"][s] ELSE {}]
DSRLTarget(a, batch) ==
  [n \in Critics(job.kind) |->
     IF n = "critic" THEN [s \in State |-> a.target[n][s] \cup DSRLParams(a, batch)[n][s]]
     ELSE a.target[n]]

(* An update of DSRL, field by field. *)
LEMMA DSRLUpdateIs ==
  ASSUME job.kind = "dsrl", NEW a \in Agent, NEW batch \in SUBSET Transition
  PROVE  DSRLUpdate(job, a, batch).agent =
           [params |-> DSRLParams(a, batch), target |-> DSRLTarget(a, batch),
            actor |-> DSRLActor(a, batch), taught |-> a.taught,
            backbone |-> a.backbone, targetBackbone |-> a.targetBackbone,
            rng |-> Split(a.rng, 0), step |-> a.step + 1]
<1> DEFINE params == DSRLParams(a, batch)
           actor == DSRLActor(a, batch)
           target == DSRLTarget(a, batch)
           applied == DSRLTotalLoss(job, a, batch, Split(a.rng, 1)).state
<1>1. /\ Critics(job.kind) = {"critic", "z_critic"}
      /\ DOMAIN a.params = Critics(job.kind) /\ DOMAIN a.target = Critics(job.kind)
      /\ \A n \in Critics(job.kind) : a.params[n] = [s \in State |-> a.params[n][s]]
      /\ a.actor = [s \in State |-> a.actor[s]]
  BY DEF Agent, Credits, Critics
<1>2. [n \in DOMAIN a.params |-> Teach(a.params[n], batch, LAMBDA i :
         IF n = "critic" THEN CriticLoss(job, a, i) ELSE a.params["critic"][i])] = params
  <2>1. ASSUME NEW n \in Critics(job.kind)
        PROVE  Teach(a.params[n], batch, LAMBDA i :
                 IF n = "critic" THEN CriticLoss(job, a, i) ELSE a.params["critic"][i]) = params[n]
    BY <1>1 DEF DSRLParams, Teach
  <2> QED
    BY <1>1, <2>1 DEF DSRLParams
<1>3. Teach(a.actor, batch, LAMBDA i : a.params["z_critic"][i]) = actor
  BY <1>1 DEF DSRLActor, Teach
<1>4. applied = [a EXCEPT !.params = params, !.actor = actor, !.step = @ + 1]
  <2> HIDE DEF params, actor
  <2> QED
    BY <1>2, <1>3 DEF DSRLTotalLoss
<1>5. applied = [params |-> params, target |-> a.target, actor |-> actor, taught |-> a.taught,
                 backbone |-> a.backbone, targetBackbone |-> a.targetBackbone,
                 rng |-> a.rng, step |-> a.step + 1]
  <2> HIDE DEF params, actor, applied
  <2> QED
    BY <1>4 DEF Agent
<1>6. [a.target EXCEPT !["critic"] = [s \in State |-> @[s] \cup params["critic"][s]]] = target
  BY <1>1 DEF DSRLTarget
<1>7. DSRLUpdate(job, a, batch).agent =
        [applied EXCEPT !.target["critic"] = [s \in State |-> @[s] \cup applied.params["critic"][s]],
                        !.rng = Split(a.rng, 0)]
  BY DEF DSRLUpdate
<1> HIDE DEF params, actor, target, applied
<1>8. DSRLUpdate(job, a, batch).agent = [applied EXCEPT !.target = target, !.rng = Split(a.rng, 0)]
  BY <1>5, <1>6, <1>7
<1> QED
  BY <1>5, <1>8 DEF params, actor, target

(* The credit a critic and the actor may hold for state s. *)
CriticCredit(n, s) == TaskCredit(s) \cup IF n = "opt_critic" THEN Bonus(job, s) ELSE {}
ActorCredit(s) ==
  (IF job.bc = "only" THEN {} ELSE TaskCredit(s))
    \cup (IF job.kind = "qoil" THEN Bonus(job, s) ELSE {}) \cup BcLoss(job, s)

Confined(a) ==
  /\ \A n \in Critics(job.kind), s \in State :
       a.params[n][s] \subseteq CriticCredit(n, s) /\ a.target[n][s] \subseteq a.params[n][s]
  /\ \A s \in State : a.actor[s] \subseteq ActorCredit(s)
  /\ a.taught["backbone"] \subseteq Critics(job.kind)
  /\ a.taught["pooling"] \subseteq Critics(job.kind)
  /\ job.encoder = "resnet-pretrained" =>
       /\ a.taught["backbone"] = {}
       /\ a.backbone = "imagenet" /\ a.targetBackbone = "imagenet"

(* The jobs of the agents. *)
AgentJob ==
  /\ job \in Job
  /\ job.bc = "only" => job.kind = "residual"
  /\ job.encoder = "resnet-pretrained" => job.kind \in {"sac", "residual"}

(* What a state may be credited with are signals of stored transitions. *)
LEMMA CreditsAreSignals ==
  ASSUME AgentJob, NEW s \in State
  PROVE  TaskCredit(s) \subseteq Signal /\ Bonus(job, s) \subseteq Signal /\ BcLoss(job, s) \subseteq Signal
<1>1. TaskCredit(s) \subseteq Signal
  <2>1. ASSUME s \in Transition, NEW k \in Ahead(s) PROVE k \in Transition
    BY <2>1, NAssumption DEF Ahead, Transition
  <2> QED
    BY <2>1 DEF TaskCredit, Signal
<1>2. job.interventions \subseteq Transition
  BY DEF AgentJob, Job
<1> QED
  BY <1>1, <1>2 DEF Bonus, BcLoss, Signal

(* A transition that was not done may pass on what its next state holds. *)
LEMMA AheadStep ==
  ASSUME NEW i \in Transition
  PROVE  /\ i + 1 \in State /\ i \in State
         /\ <<"reward", i>> \in TaskCredit(i)
         /\ i \notin job.done => TaskCredit(i + 1) \subseteq TaskCredit(i)
<1>1. i \in 1 .. N /\ i \in Int /\ N \in Int
  BY NAssumption DEF Transition
<1>2. i \in Ahead(i)
  BY <1>1 DEF Ahead
<1>3. ASSUME i \notin job.done, i + 1 \in Transition PROVE Ahead(i + 1) \subseteq Ahead(i)
  BY <1>1, <1>3 DEF Ahead, Transition
<1> QED
  BY <1>1, <1>2, <1>3 DEF TaskCredit, State, Transition

(* No loss teaches a network more than its state may hold. *)
LEMMA LessonsConfined ==
  ASSUME AgentJob, NEW a, Confined(a), NEW i \in Transition
  PROVE  /\ CriticLoss(job, a, i) \subseteq CriticCredit("critic", i)
         /\ OptCriticLoss(job, a, i) \subseteq CriticCredit("opt_critic", i)
         /\ job.kind # "dsrl" => Taught(job, a, "actor", i) \subseteq ActorCredit(i)
<1>1. i \in State /\ i + 1 \in State
  BY AheadStep
<1>2. "critic" \in Critics(job.kind)
  BY DEF Critics
<1>3. \A s \in State : a.target["critic"][s] \subseteq TaskCredit(s)
                      /\ a.params["critic"][s] \subseteq TaskCredit(s)
  BY <1>2 DEF Confined, CriticCredit
<1>4. Bootstrap(job, a.target["critic"], i) \subseteq TaskCredit(i)
  BY <1>1, <1>3, AheadStep DEF Bootstrap
<1>5. CriticLoss(job, a, i) \subseteq TaskCredit(i)
  BY <1>4, AheadStep DEF CriticLoss
<1>6. OptCriticLoss(job, a, i) \subseteq TaskCredit(i) \cup Bonus(job, i)
  BY <1>4, AheadStep DEF OptCriticLoss
<1>7. job.kind = "qoil" => a.params["opt_critic"][i] \subseteq TaskCredit(i) \cup Bonus(job, i)
  BY <1>1 DEF Confined, CriticCredit, Critics
<1>8. job.kind # "dsrl" => Taught(job, a, "actor", i) \subseteq ActorCredit(i)
  <2>1. job.kind \in {"sac", "residual", "qoil", "dsrl"}
    BY DEF AgentJob, Job, Kinds
  <2>2. CASE job.kind = "qoil"
    <3>1. Taught(job, a, "actor", i) = a.params["opt_critic"][i] \cup BcLoss(job, i)
      BY <2>2 DEF Taught, QOILPolicyLoss
    <3>2. job.bc # "only"
      BY <2>2 DEF AgentJob
    <3> QED
      BY <1>7, <2>2, <3>1, <3>2 DEF ActorCredit
  <2>3. CASE job.kind = "sac"
    <3>1. Taught(job, a, "actor", i) = a.params["critic"][i] \cup BcLoss(job, i)
      BY <2>3 DEF Taught, SACPolicyLoss
    <3>2. job.bc # "only"
      BY <2>3 DEF AgentJob
    <3> QED
      BY <1>1, <1>3, <3>1, <3>2 DEF ActorCredit
  <2>4. CASE job.kind = "residual"
    <3>1. Taught(job, a, "actor", i) =
            (IF job.bc = "only" THEN {} ELSE a.params["critic"][i]) \cup BcLoss(job, i)
      BY <2>4 DEF Taught, ResidualPolicyLoss
    <3> QED
      BY <1>1, <1>3, <3>1 DEF ActorCredit
  <2> QED
    BY <2>1, <2>2, <2>3, <2>4
<1> QED
  BY <1>5, <1>6, <1>8 DEF CriticCredit

(* The encoder hears from the critics alone. *)
LEMMA EncoderTaught ==
  ASSUME AgentJob, NEW nets \in SUBSET AllNetworks(job.kind), NEW n \in nets,
         "backbone" \in Reached(job, n) \/ "pooling" \in Reached(job, n)
  PROVE  n \in Critics(job.kind)
         /\ ("backbone" \in Reached(job, n) => job.encoder # "resnet-pretrained")
<1>1. n \in Critics(job.kind) \cup {"actor", "temperature"}
  BY DEF AllNetworks
<1>2. n # "temperature"
  BY DEF Reached
<1>3. n # "actor"
  <2>1. Reached(job, "actor") \subseteq {"proprio"}
    BY DEF Reached, ResidualPolicyParts, PolicyParts, EncodingParts
  <2> QED
    BY <2>1
<1>4. Reached(job, n) = CriticParts(job)
  BY <1>2, <1>3 DEF Reached
<1>5. job.encoder = "resnet-pretrained" => "backbone" \notin CriticParts(job)
  BY DEF CriticParts, EncodingParts, EncoderParts, PreTrainedResNetParts, ResNetParts
<1> QED
  BY <1>1, <1>2, <1>3, <1>4, <1>5

(* Networks whose credit is confined are functions into Signal. *)
LEMMA ConfinedTypes ==
  ASSUME AgentJob, NEW params, NEW target, NEW actor,
         params = [n \in Critics(job.kind) |-> [s \in State |-> params[n][s]]],
         target = [n \in Critics(job.kind) |-> [s \in State |-> target[n][s]]],
         actor = [s \in State |-> actor[s]],
         \A n \in Critics(job.kind), s \in State :
           params[n][s] \subseteq CriticCredit(n, s) /\ target[n][s] \subseteq params[n][s],
         \A s \in State : actor[s] \subseteq ActorCredit(s)
  PROVE  /\ params \in [Critics(job.kind) -> Credits]
         /\ target \in [Critics(job.kind) -> Credits]
         /\ actor \in Credits
<1>1. \A n \in Critics(job.kind), s \in State :
         params[n][s] \in SUBSET Signal /\ target[n][s] \in SUBSET Signal
  BY CreditsAreSignals DEF CriticCredit
<1>2. \A s \in State : actor[s] \in SUBSET Signal
  BY CreditsAreSignals DEF ActorCredit
<1>3. actor \in Credits
  BY <1>2, Zenon DEF Credits
<1>4. \A n \in Critics(job.kind) :
         [s \in State |-> params[n][s]] \in Credits /\ [s \in State |-> target[n][s]] \in Credits
  BY <1>1 DEF Credits
<1> QED
  BY <1>3, <1>4, Zenon

(* An update of the SAC family keeps credit confined. *)
LEMMA SACConfined ==
  ASSUME AgentJob, job.kind # "dsrl", NEW a \in Agent, Confined(a),
         NEW batch \in SUBSET Transition, NEW nets \in SUBSET AllNetworks(job.kind)
  PROVE  /\ SACUpdate(job, a, batch, nets).agent \in Agent
         /\ Confined(SACUpdate(job, a, batch, nets).agent)
<1> DEFINE params == SACParams(a, batch, nets)
           target == SACTarget(a, batch, nets)
           actor == SACActor(a, batch, nets)
           taught == SACTaught(a, nets)
           b == SACUpdate(job, a, batch, nets).agent
<1>1. b = [params |-> params, target |-> target, actor |-> actor, taught |-> taught,
           backbone |-> a.backbone, targetBackbone |-> a.targetBackbone,
           rng |-> Split(a.rng, 0), step |-> a.step + 1]
  BY SACUpdateIs
<1>2. Critics(job.kind) \subseteq {"critic", "opt_critic"}
  BY DEF AgentJob, Job, Kinds, Critics
<1>3. ASSUME NEW n \in Critics(job.kind), NEW s \in State
      PROVE  /\ params[n][s] \subseteq CriticCredit(n, s)
             /\ a.params[n][s] \subseteq params[n][s]
             /\ target[n][s] \subseteq params[n][s]
  <2>1. /\ a.params[n][s] \subseteq CriticCredit(n, s) /\ a.target[n][s] \subseteq a.params[n][s]
    BY DEF Confined
  <2>2. s \in batch => Taught(job, a, n, s) \subseteq CriticCredit(n, s)
    BY <1>2, LessonsConfined DEF Taught
  <2>3. params[n][s] = a.params[n][s]
          \cup IF n \in nets /\ s \in batch THEN Taught(job, a, n, s) ELSE {}
    BY DEF SACParams
  <2>4. target[n][s] \in {a.target[n][s], a.target[n][s] \cup params[n][s]}
    BY DEF SACTarget
  <2> HIDE DEF params, target
  <2> QED
    BY <2>1, <2>2, <2>3, <2>4
<1>4. ASSUME NEW s \in State PROVE actor[s] \subseteq ActorCredit(s)
  <2>1. actor[s] = a.actor[s]
          \cup IF "actor" \in nets /\ s \in batch THEN Taught(job, a, "actor", s) ELSE {}
    BY DEF SACActor
  <2>2. s \in batch => Taught(job, a, "actor", s) \subseteq ActorCredit(s)
    BY LessonsConfined
  <2> QED
    BY <2>1, <2>2 DEF Confined
<1>5. \A p \in SharedParts : taught[p] = a.taught[p] \cup {n \in nets : p \in Reached(job, n)}
  BY DEF SACTaught
<1>6. /\ taught["backbone"] \subseteq Critics(job.kind)
      /\ taught["pooling"] \subseteq Critics(job.kind)
      /\ job.encoder = "resnet-pretrained" => taught["backbone"] = {}
  <2>1. "backbone" \in SharedParts /\ "pooling" \in SharedParts
    BY DEF SharedParts
  <2>2. \A n \in nets : /\ "backbone" \in Reached(job, n) => n \in Critics(job.kind)
                        /\ "pooling" \in Reached(job, n) => n \in Critics(job.kind)
                        /\ "backbone" \in Reached(job, n) => job.encoder # "resnet-pretrained"
    BY EncoderTaught
  <2> HIDE DEF taught
  <2> QED
    BY <1>5, <2>1, <2>2 DEF Confined
<1>7. taught \in [SharedParts -> SUBSET AllNetworks(job.kind)]
  BY DEF SACTaught, Agent
<1>8. /\ params = [n \in Critics(job.kind) |-> [s \in State |-> params[n][s]]]
      /\ target = [n \in Critics(job.kind) |-> [s \in State |-> target[n][s]]]
      /\ actor = [s \in State |-> actor[s]]
  <2>1. a.target = [n \in Critics(job.kind) |-> [s \in State |-> a.target[n][s]]]
    BY DEF Agent, Credits
  <2> QED
    BY <2>1 DEF SACParams, SACTarget, SACActor
<1>9. Split(a.rng, 0) \in Seq(Nat) /\ a.step + 1 \in Nat
  BY DEF Split, Agent
<1> HIDE DEF params, target, actor, taught, b
<1>10. params \in [Critics(job.kind) -> Credits] /\ target \in [Critics(job.kind) -> Credits]
       /\ actor \in Credits
  BY <1>3, <1>4, <1>8, ConfinedTypes
<1>11. b \in Agent
  BY <1>1, <1>7, <1>9, <1>10 DEF Agent
<1>12. Confined(b)
  BY <1>1, <1>3, <1>4, <1>6 DEF Confined
<1> QED
  BY <1>11, <1>12 DEF b

(* An update of DSRL keeps credit confined. *)
LEMMA DSRLConfined ==
  ASSUME AgentJob, job.kind = "dsrl", NEW a \in Agent, Confined(a),
         NEW batch \in SUBSET Transition
  PROVE  /\ DSRLUpdate(job, a, batch).agent \in Agent
         /\ Confined(DSRLUpdate(job, a, batch).agent)
<1> DEFINE params == DSRLParams(a, batch)
           target == DSRLTarget(a, batch)
           actor == DSRLActor(a, batch)
           b == DSRLUpdate(job, a, batch).agent
<1>1. b = [params |-> params, target |-> target, actor |-> actor, taught |-> a.taught,
           backbone |-> a.backbone, targetBackbone |-> a.targetBackbone,
           rng |-> Split(a.rng, 0), step |-> a.step + 1]
  BY DSRLUpdateIs
<1>2. Critics(job.kind) = {"critic", "z_critic"} /\ job.bc # "only"
  BY DEF Critics, AgentJob
<1>3. ASSUME NEW n \in Critics(job.kind), NEW s \in State
      PROVE  /\ params[n][s] \subseteq CriticCredit(n, s)
             /\ target[n][s] \subseteq params[n][s]
  <2>1. a.params[n][s] \subseteq CriticCredit(n, s) /\ a.target[n][s] \subseteq a.params[n][s]
        /\ a.params["critic"][s] \subseteq TaskCredit(s)
    BY <1>2 DEF Confined, CriticCredit
  <2>2. s \in batch => CriticLoss(job, a, s) \subseteq TaskCredit(s)
    BY LessonsConfined DEF CriticCredit
  <2>3. params[n][s] = a.params[n][s] \cup IF s \notin batch THEN {}
          ELSE IF n = "critic" THEN CriticLoss(job, a, s) ELSE a.params["critic"][s]
    BY DEF DSRLParams
  <2>4. target[n][s] \in {a.target[n][s], a.target[n][s] \cup params[n][s]}
    BY DEF DSRLTarget
  <2> HIDE DEF params, target
  <2> QED
    BY <2>1, <2>2, <2>3, <2>4 DEF CriticCredit
<1>4. ASSUME NEW s \in State PROVE actor[s] \subseteq ActorCredit(s)
  <2>1. actor[s] = a.actor[s] \cup IF s \in batch THEN a.params["z_critic"][s] ELSE {}
    BY DEF DSRLActor
  <2>2. a.params["z_critic"][s] \subseteq TaskCredit(s)
    BY <1>2 DEF Confined, CriticCredit
  <2> QED
    BY <1>2, <2>1, <2>2 DEF Confined, ActorCredit
<1>5. /\ params = [n \in Critics(job.kind) |-> [s \in State |-> params[n][s]]]
      /\ target = [n \in Critics(job.kind) |-> [s \in State |-> target[n][s]]]
      /\ actor = [s \in State |-> actor[s]]
  <2>1. \A n \in Critics(job.kind) : a.target[n] = [s \in State |-> a.target[n][s]]
    BY DEF Agent, Credits
  <2> QED
    BY <2>1 DEF DSRLParams, DSRLTarget, DSRLActor
<1>6. Split(a.rng, 0) \in Seq(Nat) /\ a.step + 1 \in Nat
  BY DEF Split, Agent
<1> HIDE DEF params, target, actor, b
<1>7. params \in [Critics(job.kind) -> Credits] /\ target \in [Critics(job.kind) -> Credits]
      /\ actor \in Credits
  BY <1>3, <1>4, <1>5, ConfinedTypes
<1>8. b \in Agent
  BY <1>1, <1>6, <1>7 DEF Agent
<1>9. Confined(b)
  BY <1>1, <1>3, <1>4 DEF Confined
<1> QED
  BY <1>8, <1>9 DEF b

(* Loading the weights changes the two backbones. *)
LEMMA LoadedIs ==
  ASSUME NEW a \in Agent
  PROVE  LoadResnet10(a) =
           [params |-> a.params, target |-> a.target, actor |-> a.actor, taught |-> a.taught,
            backbone |-> "imagenet", targetBackbone |-> "imagenet",
            rng |-> a.rng, step |-> a.step]
<1>1. a = [params |-> a.params, target |-> a.target, actor |-> a.actor, taught |-> a.taught,
           backbone |-> a.backbone, targetBackbone |-> a.targetBackbone,
           rng |-> a.rng, step |-> a.step]
  BY DEF Agent
<1> DEFINE imagenet == "imagenet"
<1>2. LoadResnet10(a) = [a EXCEPT !.backbone = imagenet, !.targetBackbone = imagenet]
  BY DEF LoadResnet10
<1> HIDE DEF imagenet
<1>3. LoadResnet10(a) =
        [params |-> a.params, target |-> a.target, actor |-> a.actor, taught |-> a.taught,
         backbone |-> imagenet, targetBackbone |-> imagenet, rng |-> a.rng, step |-> a.step]
  BY <1>1, <1>2
<1> QED
  BY <1>3 DEF imagenet

(* A new agent holds no credit, and has its weights if they are loaded. *)
LEMMA CreateConfined ==
  ASSUME AgentJob
  PROVE  CreateAgent(job, 0) \in Agent /\ Confined(CreateAgent(job, 0))
<1> DEFINE blank == Blank(job, StateKey(Root(0)))
           loaded == [blank EXCEPT !.backbone = "imagenet", !.targetBackbone = "imagenet"]
<1>1. blank \in Agent
  <2>1. NoCredit \in Credits /\ StateKey(Root(0)) \in Seq(Nat)
    BY DEF NoCredit, Credits, StateKey, Split, Root
  <2> HIDE DEF blank
  <2>2. blank = [params |-> [n \in Critics(job.kind) |-> NoCredit],
                 target |-> [n \in Critics(job.kind) |-> NoCredit],
                 actor  |-> NoCredit,
                 taught |-> [p \in SharedParts |-> {}],
                 backbone |-> "random", targetBackbone |-> "random",
                 rng |-> StateKey(Root(0)), step |-> 0]
    BY DEF blank, Blank
  <2> QED
    BY <2>1, <2>2 DEF Agent
<1>2. loaded = [params |-> blank.params, target |-> blank.target, actor |-> blank.actor,
                taught |-> blank.taught, backbone |-> "imagenet", targetBackbone |-> "imagenet",
                rng |-> blank.rng, step |-> blank.step]
  BY <1>1, LoadedIs DEF LoadResnet10
<1>3. loaded \in Agent
  <2> HIDE DEF blank, loaded
  <2> QED
    BY <1>1, <1>2 DEF Agent
<1>4. CreateAgent(job, 0) = IF job.encoder = "resnet-pretrained" THEN loaded ELSE blank
  BY DEF CreateAgent, AgentJob, Job, Kinds, MakeSacStateAgent, MakeSacPixelAgent,
     MakeResidualSacPixelAgent, QOILCreatePixels, DSRLCreate, SACCreatePixels, SACCreate,
     ResidualCreatePixels, ResidualCreate, LoadResnet10
<1>5. ASSUME NEW a \in {blank, loaded} PROVE
        /\ \A n \in Critics(job.kind), s \in State : a.params[n][s] = {} /\ a.target[n][s] = {}
        /\ \A s \in State : a.actor[s] = {}
        /\ a.taught["backbone"] = {} /\ a.taught["pooling"] = {}
  <2>1. a.params = blank.params /\ a.target = blank.target /\ a.actor = blank.actor
        /\ a.taught = blank.taught
    BY <1>2
  <2> QED
    BY <2>1 DEF Blank, NoCredit, SharedParts
<1>6. loaded.backbone = "imagenet" /\ loaded.targetBackbone = "imagenet"
  BY <1>2
<1> HIDE DEF blank, loaded
<1> QED
  BY <1>1, <1>3, <1>4, <1>5, <1>6 DEF Confined

(***************************************************************************)
(* The agent of a running script holds confined credit; before the script  *)
(* has made it, or after it died before, there is none.                    *)
(***************************************************************************)
CreditInv ==
  IsAgent =>
    /\ agent = [step |-> 0] \/ (agent \in Agent /\ Confined(agent))
    /\ pc \in {"act", "evaluate", "end"} => agent \in Agent /\ Confined(agent)

(* A gradient step of the learner keeps credit confined. *)
LEMMA LearnConfined ==
  ASSUME SaveTypes, IsAgent, CreditInv, CriticUpdate \/ FullUpdate \/ PretrainStep
  PROVE  agent' \in Agent /\ Confined(agent')
<1>1. AgentJob
  BY TrainingAssumption DEF SaveTypes, IsAgent, BCJob, Kinds, Trainers, AgentJob
<1>2. agent \in Agent /\ Confined(agent)
  BY DEF CreditInv, CriticUpdate, FullUpdate, PretrainStep, Learning
<1>3. SampleBatch \subseteq SUBSET Transition /\ \A d \in job.demos : {d} \in SUBSET Transition
  <2>1. job.demos \subseteq Transition
    BY <1>1 DEF AgentJob, Job
  <2> QED
    BY <2>1 DEF SampleBatch, Online
<1>4. ASSUME NEW batch \in SUBSET Transition, NEW nets \in SUBSET AllNetworks(job.kind),
             LearnFrom(batch, nets)
      PROVE  agent' \in Agent /\ Confined(agent')
  <2>1. agent' = Update(job, agent, batch, nets).agent
    BY <1>4 DEF LearnFrom
  <2>2. CASE job.kind = "dsrl"
    BY <1>1, <1>2, <2>1, <2>2, DSRLConfined DEF Update
  <2>3. CASE job.kind # "dsrl"
    BY <1>1, <1>2, <2>1, <2>3, SACConfined DEF Update
  <2> QED
    BY <2>2, <2>3
<1>5. CriticNetworks(job.kind) \subseteq AllNetworks(job.kind)
  BY DEF CriticNetworks, AllNetworks
<1>6. CASE CriticUpdate
  BY <1>3, <1>4, <1>5, <1>6 DEF CriticUpdate
<1>7. CASE FullUpdate
  BY <1>3, <1>4, <1>7 DEF FullUpdate
<1>8. CASE PretrainStep
  BY <1>3, <1>4, <1>8 DEF PretrainStep
<1> QED
  BY <1>6, <1>7, <1>8

(* Credit is confined whatever the script, the learner or a crash does.    *)
LEMMA CreditInvariant == Spec => []CreditInv
<1>1. Init => CreditInv
  BY DEF Init, CreditInv
<1>2. SaveTypes /\ CreditInv /\ [Next]_vars => CreditInv'
  <2> SUFFICES ASSUME SaveTypes, CreditInv, [Next]_vars, IsAgent' PROVE CreditInv'
    BY DEF CreditInv
  <2> USE DEF scriptVars, learnVars, keyVars
  <2>1. job' = job /\ IsAgent
    BY DEF IsAgent, Next, vars, DownloadWeights, Downloaded, WeightsUnreadable,
       StartSession, StartPolicy, CriticUpdate, FullUpdate, PretrainStep, Act, Evaluate,
       Finish, TrainPolicy, EvaluatePolicy, OpenFile, Dump, Replace, SkipSave, Crash, Restart
  <2>2. Confined(agent)' <=> Confined(agent')
    BY <2>1 DEF Confined, CriticCredit, ActorCredit, TaskCredit, Ahead
  <2>3. Agent' = Agent
    BY <2>1 DEF Agent
  <2>4. CASE StartSession
    <3>1. AgentJob
      BY <2>1, TrainingAssumption DEF SaveTypes, IsAgent, BCJob, Kinds, Trainers, AgentJob
    <3>2. agent' \in Agent /\ Confined(agent')
      BY <2>4, <3>1, CreateConfined DEF StartSession
    <3> QED
      BY <2>2, <2>3, <3>2 DEF CreditInv
  <2>5. CASE CriticUpdate \/ FullUpdate \/ PretrainStep
    BY <2>1, <2>2, <2>3, <2>5, LearnConfined DEF CreditInv
  <2>6. ASSUME agent' = agent, pc' \in {"act", "evaluate", "end"} => pc \in {"act", "evaluate", "end"}
        PROVE  CreditInv'
    BY <2>1, <2>2, <2>3, <2>6 DEF CreditInv
  <2>7. CASE DownloadWeights \/ Downloaded \/ WeightsUnreadable \/ Crash
    BY <2>6, <2>7 DEF DownloadWeights, Downloaded, WeightsUnreadable, Crash
  <2>8. CASE Act \/ Evaluate \/ OpenFile \/ Dump \/ Replace \/ SkipSave \/ UNCHANGED vars
    BY <2>6, <2>8 DEF Act, Evaluate, OpenFile, Dump, Replace, SkipSave, vars
  <2>9. CASE Finish
    <3>1. pc = "act" /\ agent' = agent
      BY <2>1, <2>9 DEF Finish, SaveTypes
    <3> QED
      BY <2>6, <3>1
  <2>10. CASE Restart
    BY <2>10 DEF Restart, CreditInv
  <2>11. ~ (StartPolicy \/ TrainPolicy \/ EvaluatePolicy)
    BY <2>1 DEF StartPolicy, TrainPolicy, EvaluatePolicy, SaveTypes
  <2> QED
    BY <2>4, <2>5, <2>7, <2>8, <2>9, <2>10, <2>11 DEF Next
<1> QED
  BY <1>1, <1>2, SaveTypesInvariant, PTL DEF Spec

(***************************************************************************)
(* Over any number of updates of any networks with any batches, for any    *)
(* number of stored transitions and any choice of those that were done or  *)
(* interventions: an optimistic critic holds no bonus but the state's own, *)
(* task critics and their targets none at all and no reward from behind a  *)
(* done, the actor imitates interventions only, and the encoder is taught  *)
(* by critics alone, a frozen one by nobody.                               *)
(***************************************************************************)
THEOREM CreditConfinedCorrect == Spec => []CreditConfined
<1>1. CreditInv => CreditConfined
  <2> SUFFICES ASSUME CreditInv, IsAgent, "params" \in DOMAIN agent PROVE Confined(agent)
    BY DEF CreditConfined, Confined, CriticCredit, ActorCredit
  <2>1. agent # [step |-> 0]
    OBVIOUS
  <2> QED
    BY <2>1 DEF CreditInv
<1> QED
  BY <1>1, CreditInvariant, PTL

-------------------------------------------------------------------------------
(* Keys *)

Keys == Seq(Nat)

(* A key with the path of k, and then a child other than the 0-th: none    *)
(* of the keys that k becomes.                                             *)
Off(key, k) ==
  /\ key \in Keys /\ Len(key) > Len(k)
  /\ \A p \in 1 .. Len(k) : key[p] = k[p]
  /\ key[Len(k) + 1] # 0

(* Children other than the 0-th are off the path, and so is what is below. *)
LEMMA OffPath ==
  ASSUME NEW k \in Keys
  PROVE  /\ \A i \in Nat : Split(k, i) \in Keys
         /\ \A i \in Nat \ {0} : Off(Split(k, i), k)
         /\ \A key \in Keys, i \in Nat : Off(key, k) => Off(Split(key, i), k)
<1>1. ASSUME NEW i \in Nat PROVE Split(k, i) \in Keys
  BY DEF Keys, Split
<1>2. ASSUME NEW i \in Nat \ {0} PROVE Off(Split(k, i), k)
  BY DEF Keys, Split, Off
<1>3. ASSUME NEW key \in Keys, NEW i \in Nat, Off(key, k) PROVE Off(Split(key, i), k)
  <2>1. key \in Seq(Nat) /\ k \in Seq(Nat) /\ Len(key) \in Nat /\ Len(k) \in Nat
    BY <1>3 DEF Off, Keys
  <2>2. Append(key, i) \in Seq(Nat) /\ Len(Append(key, i)) = Len(key) + 1
        /\ \A p \in 1 .. Len(key) : Append(key, i)[p] = key[p]
    BY <2>1
  <2> QED
    BY <1>3, <2>1, <2>2 DEF Keys, Split, Off
<1> QED
  BY <1>1, <1>2, <1>3

(* A key tells its parent and which child it is. *)
LEMMA SplitTells ==
  ASSUME NEW k \in Keys, NEW l \in Keys, NEW i \in Nat, NEW j \in Nat,
         Split(k, i) = Split(l, j)
  PROVE  k = l /\ i = j
<1>1. Len(k) = Len(l)
  BY DEF Keys, Split
<1>2. i = j
  <2>1. Append(k, i)[Len(k) + 1] = i /\ Append(l, j)[Len(l) + 1] = j
    BY DEF Keys
  <2> QED
    BY <1>1, <2>1 DEF Split
<1>3. \A p \in 1 .. Len(k) : k[p] = l[p]
  <2>1. \A p \in 1 .. Len(k) : Append(k, i)[p] = k[p] /\ Append(l, j)[p] = l[p]
    BY <1>1 DEF Keys
  <2> QED
    BY <2>1 DEF Split
<1>4. k = [p \in 1 .. Len(k) |-> k[p]] /\ l = [p \in 1 .. Len(l) |-> l[p]]
  BY DEF Keys
<1> QED
  BY <1>1, <1>2, <1>3, <1>4

(* The draws of one step, of which the crops of one frame share a key.     *)
OneKeyEach(draws) == \A d, e \in draws : d[3] = e[3] => d = e \/ SameCrop(d, e)

(* A step whose draws have a key each, none drawn from before.             *)
LEMMA DrawingFresh ==
  ASSUME NEW draws, OneKeyEach(draws), \A d \in draws : d[3] \notin drawn,
         reused = FALSE, Drawing(draws)
  PROVE  reused' = FALSE /\ drawn' = drawn \cup {d[3] : d \in draws}
<1> DEFINE keys == {d[3] : d \in draws}
<1>1. keys \cap drawn = {}
  OBVIOUS
<1>2. ~ \E d, e \in draws : d # e /\ d[3] = e[3] /\ ~SameCrop(d, e)
  BY DEF OneKeyEach
<1>3. /\ drawn' = drawn \cup keys
      /\ reused' = \/ reused \/ keys \cap drawn # {}
                    \/ \E d, e \in draws : d # e /\ d[3] = e[3] /\ ~SameCrop(d, e)
  BY DEF Drawing
<1> HIDE DEF keys
<1>4. reused' = FALSE
  BY <1>1, <1>2, <1>3, Zenon
<1> QED
  BY <1>3, <1>4 DEF keys

-------------------------------------------------------------------------------
(* What an update draws *)

(* Descendants of a key.                                                   *)
Grandchild(k, i, x) == Split(Split(k, i), x)
GreatGrandchild(k, i, x, y) == Split(Grandchild(k, i, x), y)

(* Descendants by different paths are different.                           *)
LEMMA Descendants ==
  ASSUME NEW k \in Keys
  PROVE  /\ \A i, x, j, z \in Nat :
              Grandchild(k, i, x) = Grandchild(k, j, z) => i = j /\ x = z
         /\ \A i, x, y, j, z, w \in Nat :
              GreatGrandchild(k, i, x, y) = GreatGrandchild(k, j, z, w) => i = j /\ x = z /\ y = w
         /\ \A i, x, j, z, w \in Nat : Grandchild(k, i, x) # GreatGrandchild(k, j, z, w)
<1>1. \A l \in Keys, i \in Nat : Split(l, i) \in Keys /\ Len(Split(l, i)) = Len(l) + 1 /\ Len(l) \in Nat
  BY DEF Keys, Split
<1>2. ASSUME NEW i \in Nat, NEW x \in Nat
      PROVE  /\ Grandchild(k, i, x) \in Keys
             /\ Len(Grandchild(k, i, x)) = Len(k) + 2
  BY <1>1 DEF Grandchild
<1>3. ASSUME NEW i \in Nat, NEW x \in Nat, NEW y \in Nat
      PROVE  Len(GreatGrandchild(k, i, x, y)) = Len(k) + 3
  <2>1. Len(k) \in Nat
    BY <1>1
  <2>2. Len(Split(Grandchild(k, i, x), y)) = Len(Grandchild(k, i, x)) + 1
    BY <1>1, <1>2
  <2> QED
    BY <1>2, <2>1, <2>2 DEF GreatGrandchild
<1>4. ASSUME NEW i \in Nat, NEW x \in Nat, NEW j \in Nat, NEW z \in Nat,
             Grandchild(k, i, x) = Grandchild(k, j, z)
      PROVE  i = j /\ x = z
  BY <1>1, <1>4, SplitTells DEF Grandchild
<1>5. ASSUME NEW i \in Nat, NEW x \in Nat, NEW y \in Nat, NEW j \in Nat, NEW z \in Nat, NEW w \in Nat,
             GreatGrandchild(k, i, x, y) = GreatGrandchild(k, j, z, w)
      PROVE  i = j /\ x = z /\ y = w
  BY <1>2, <1>4, <1>5, SplitTells DEF GreatGrandchild
<1>6. ASSUME NEW i \in Nat, NEW x \in Nat, NEW j \in Nat, NEW z \in Nat, NEW w \in Nat
      PROVE  Grandchild(k, i, x) # GreatGrandchild(k, j, z, w)
  BY <1>1, <1>2, <1>3
<1> QED
  BY <1>4, <1>5, <1>6

(* Below a child that is not the 0-th every key is off the path.           *)
LEMMA OffDescendants ==
  ASSUME NEW k \in Keys
  PROVE  /\ \A i \in Nat \ {0}, x \in Nat : Off(Grandchild(k, i, x), k)
         /\ \A i \in Nat \ {0}, x, y \in Nat : Off(GreatGrandchild(k, i, x, y), k)
<1>1. \A key \in Keys, x \in Nat : Off(key, k) => Off(Split(key, x), k)
  BY OffPath
<1>2. \A i \in Nat \ {0} : Split(k, i) \in Keys /\ Off(Split(k, i), k)
  BY OffPath DEF Off
<1>3. ASSUME NEW i \in Nat \ {0}, NEW x \in Nat PROVE Off(Grandchild(k, i, x), k)
  BY <1>1, <1>2 DEF Grandchild
<1>4. ASSUME NEW i \in Nat \ {0}, NEW x \in Nat, NEW y \in Nat
      PROVE  Off(GreatGrandchild(k, i, x, y), k)
  BY <1>1, <1>3 DEF GreatGrandchild, Off
<1> QED
  BY <1>3, <1>4

(* The position of a loss among the losses.                                *)
LEMMA LossPosition ==
  ASSUME AgentJob, job.kind # "dsrl", NEW k \in Keys, NEW net \in AllNetworks(job.kind)
  PROVE  \E i \in 1 .. 4 :
           /\ Losses(job)[i] = net /\ (net = "actor" <=> i = 1)
           /\ \A a : a.rng = k => LossKey(job, a, net) = Split(k, i)
<1>1. job.kind \in {"sac", "residual", "qoil"}
  BY DEF AgentJob, Job, Kinds
<1>2. CASE job.kind = "qoil"
  <2>1. Losses(job) = <<"actor", "critic", "opt_critic", "temperature">>
    BY <1>2 DEF Losses
  <2>2. net \in {"actor", "critic", "opt_critic", "temperature"}
    BY <1>2 DEF AllNetworks, Critics
  <2>3. PICK i \in 1 .. 4 : Losses(job)[i] = net /\ (net = "actor" <=> i = 1)
                            /\ \A n \in DOMAIN Losses(job) : Losses(job)[n] = net => n = i
    BY <2>1, <2>2
  <2>4. (CHOOSE n \in DOMAIN Losses(job) : Losses(job)[n] = net) = i
    BY <2>1, <2>3
  <2> QED
    BY <2>3, <2>4 DEF LossKey
<1>3. CASE job.kind # "qoil"
  <2>1. Losses(job) = <<"actor", "critic", "temperature">>
    BY <1>3 DEF Losses
  <2>2. net \in {"actor", "critic", "temperature"}
    BY <1>1, <1>3 DEF AllNetworks, Critics
  <2>3. PICK i \in 1 .. 3 : Losses(job)[i] = net /\ (net = "actor" <=> i = 1)
                            /\ \A n \in DOMAIN Losses(job) : Losses(job)[n] = net => n = i
    BY <2>1, <2>2
  <2>4. (CHOOSE n \in DOMAIN Losses(job) : Losses(job)[n] = net) = i
    BY <2>1, <2>3
  <2>5. i \in 1 .. 4
    OBVIOUS
  <2>6. \A a : a.rng = k => LossKey(job, a, net) = Split(k, i)
    BY <2>4 DEF LossKey
  <2> QED
    BY <2>3, <2>5, <2>6
<1> QED
  BY <1>2, <1>3

(* The forms of the draws of an update of the SAC family.                  *)
LossDraw(d, k) == \/ d = <<Losses(job)[1], 0, Grandchild(k, 1, 2)>>
                  \/ \E i \in 2 .. 4 : d = <<Losses(job)[i], 0, Grandchild(k, i, 1)>>
LossDropout(d, k) == \E i \in 1 .. 4 : d = <<Losses(job)[i], 1, GreatGrandchild(k, i, 1, 9)>>
LossSubsample(d, k) == \E i \in 1 .. 4 : d = <<Losses(job)[i], 2, GreatGrandchild(k, i, 0, 1)>>
ObsCrop(d, k) ==
  \E f \in 0 .. 1, use \in ObsCrops : d = <<use, f, GreatGrandchild(k, 1, 1, f)>>
NextObsCrop(d, k) ==
  \E f \in 0 .. 1, use \in NextObsCrops : d = <<use, f, GreatGrandchild(k, 1, 2, f)>>
CropDraw(d, k) == ObsCrop(d, k) \/ NextObsCrop(d, k)
AgentDraw(d, k) == LossDraw(d, k) \/ LossDropout(d, k) \/ LossSubsample(d, k) \/ CropDraw(d, k)

(* Every draw of a loss has one of the forms.                              *)
LEMMA LossDrawsForm ==
  ASSUME AgentJob, NEW k \in Keys, NEW i \in 1 .. 4, NEW net \in AllNetworks(job.kind),
         Losses(job)[i] = net, net = "actor" <=> i = 1, net # "z_critic",
         NEW d \in LossDraws(job, net, Split(k, i))
  PROVE  LossDraw(d, k) \/ LossDropout(d, k) \/ LossSubsample(d, k)
<1>1. net \in {"actor", "critic", "opt_critic", "temperature"}
  BY DEF AllNetworks, Critics
<1>2. CASE net = "actor"
  <2>1. i = 1 /\ Losses(job)[1] = net
    BY <1>2
  <2>2. d = <<net, 0, Grandchild(k, i, 2)>> \/ d = <<net, 1, GreatGrandchild(k, i, 1, 9)>>
    BY <1>2 DEF LossDraws, PolicyDraws, DropoutDraws, Draw, FoldIn, Grandchild, GreatGrandchild
  <2> QED
    BY <2>1, <2>2 DEF LossDraw, LossDropout
<1>3. CASE net # "actor"
  <2>1. \/ d = <<net, 0, Grandchild(k, i, 1)>> \/ d = <<net, 1, GreatGrandchild(k, i, 1, 9)>>
        \/ d = <<net, 2, GreatGrandchild(k, i, 0, 1)>>
    BY <1>1, <1>3 DEF LossDraws, CriticDraws, OptCriticDraws, TemperatureDraws, NextActionDraws,
       SubsampleDraws, DropoutDraws, Draw, FoldIn, Grandchild, GreatGrandchild
  <2>2. i \in 2 .. 4
    BY <1>3
  <2> QED
    BY <2>1, <2>2 DEF LossDraw, LossDropout, LossSubsample
<1> QED
  BY <1>2, <1>3

(* Two cameras. *)
LEMMA CropsDiffer ==
  /\ \A u, v \in ObsCrops : u = v \/ {u, v} = ObsCrops
  /\ \A u, v \in NextObsCrops : u = v \/ {u, v} = NextObsCrops
BY DEF ObsCrops, NextObsCrops

(* Draws of these forms that share a key are the same draw, or the same    *)
(* crop in two cameras.                                                    *)
LEMMA AgentDrawsDiffer ==
  ASSUME NEW k \in Keys, NEW d, NEW e, AgentDraw(d, k), AgentDraw(e, k), d[3] = e[3]
  PROVE  d = e \/ SameCrop(d, e)
<1>1. \A i, x, j, z \in Nat : Grandchild(k, i, x) = Grandchild(k, j, z) => i = j /\ x = z
  BY Descendants
<1>2. \A i, x, y, j, z, w \in Nat :
        GreatGrandchild(k, i, x, y) = GreatGrandchild(k, j, z, w) => i = j /\ x = z /\ y = w
  BY Descendants
<1>3. \A i, x, j, z, w \in Nat : Grandchild(k, i, x) # GreatGrandchild(k, j, z, w)
  BY Descendants
<1>4. CASE LossDraw(d, k)
  <2>1. LossDraw(e, k)
    BY <1>3, <1>4 DEF LossDraw, LossDropout, LossSubsample, ObsCrop, NextObsCrop, CropDraw, AgentDraw
  <2> QED
    BY <1>1, <1>4, <2>1 DEF LossDraw
<1>5. CASE LossDropout(d, k)
  <2>1. LossDropout(e, k)
    BY <1>2, <1>3, <1>5 DEF LossDraw, LossDropout, LossSubsample, ObsCrop, NextObsCrop, CropDraw, AgentDraw
  <2> QED
    BY <1>2, <1>5, <2>1 DEF LossDropout
<1>6. CASE LossSubsample(d, k)
  <2>1. LossSubsample(e, k)
    BY <1>2, <1>3, <1>6 DEF LossDraw, LossDropout, LossSubsample, ObsCrop, NextObsCrop, CropDraw, AgentDraw
  <2> QED
    BY <1>2, <1>6, <2>1 DEF LossSubsample
<1>7. CASE CropDraw(d, k)
  <2>1. CropDraw(e, k)
    BY <1>2, <1>3, <1>7 DEF LossDraw, LossDropout, LossSubsample, ObsCrop, NextObsCrop, CropDraw,
       AgentDraw
  <2>2. CASE ObsCrop(d, k)
    <3>1. ObsCrop(e, k)
      BY <1>2, <2>1, <2>2 DEF ObsCrop, NextObsCrop, CropDraw
    <3>2. PICK f \in 0 .. 1, u \in ObsCrops : d = <<u, f, GreatGrandchild(k, 1, 1, f)>>
      BY <2>2 DEF ObsCrop
    <3>3. PICK g \in 0 .. 1, v \in ObsCrops : e = <<v, g, GreatGrandchild(k, 1, 1, g)>>
      BY <3>1 DEF ObsCrop
    <3>4. f = g
      BY <1>2, <3>2, <3>3
    <3>5. u = v \/ {u, v} = ObsCrops
      BY CropsDiffer
    <3> QED
      BY <3>2, <3>3, <3>4, <3>5 DEF SameCrop
  <2>3. CASE NextObsCrop(d, k)
    <3>1. NextObsCrop(e, k)
      BY <1>2, <2>1, <2>3 DEF ObsCrop, NextObsCrop, CropDraw
    <3>2. PICK f \in 0 .. 1, u \in NextObsCrops : d = <<u, f, GreatGrandchild(k, 1, 2, f)>>
      BY <2>3 DEF NextObsCrop
    <3>3. PICK g \in 0 .. 1, v \in NextObsCrops : e = <<v, g, GreatGrandchild(k, 1, 2, g)>>
      BY <3>1 DEF NextObsCrop
    <3>4. f = g
      BY <1>2, <3>2, <3>3
    <3>5. u = v \/ {u, v} = NextObsCrops
      BY CropsDiffer
    <3> QED
      BY <3>2, <3>3, <3>4, <3>5 DEF SameCrop
  <2> QED
    BY <1>7, <2>2, <2>3 DEF CropDraw
<1> QED
  BY <1>4, <1>5, <1>6, <1>7 DEF AgentDraw

(* The crops of one image. *)
LEMMA CropDrawsIs ==
  ASSUME NEW use, NEW k
  PROVE  CropDraws(use, k) = {<<use, 0, Split(k, 0)>>, <<use, 1, Split(k, 1)>>}
<1>1. CropDraws(use, k) = {<<use, 0, Split(k, 0)>>} \cup {<<use, 1, Split(k, 1)>>}
  BY DEF CropDraws, Draw
<1> QED
  BY <1>1

(* Every crop that the augmentation draws has one of the forms.            *)
LEMMA AugmentDrawsForm ==
  ASSUME NEW k, NEW d \in AugmentDraws(job, Split(k, 1))
  PROVE  CropDraw(d, k)
<1> DEFINE obs == UNION {CropDraws(use, Split(Split(k, 1), 1)) : use \in ObsCrops}
           next == UNION {CropDraws(use, Split(Split(k, 1), 2)) : use \in NextObsCrops}
<1>1. job.encoder # "none" /\ d \in obs \cup next
  <2>1. CASE job.encoder = "none"
    <3>1. AugmentDraws(job, Split(k, 1)) = {}
      BY <2>1 DEF AugmentDraws
    <3> QED
      BY <3>1
  <2>2. CASE job.encoder # "none"
    <3>1. AugmentDraws(job, Split(k, 1)) = obs \cup next
      BY <2>2, Zenon DEF AugmentDraws
    <3> QED
      BY <2>2, <3>1
  <2> QED
    BY <2>1, <2>2
<1>2. \A use : CropDraws(use, Split(Split(k, 1), 1)) =
        {<<use, 0, GreatGrandchild(k, 1, 1, 0)>>, <<use, 1, GreatGrandchild(k, 1, 1, 1)>>}
  BY CropDrawsIs DEF Grandchild, GreatGrandchild
<1>3. \A use : CropDraws(use, Split(Split(k, 1), 2)) =
        {<<use, 0, GreatGrandchild(k, 1, 2, 0)>>, <<use, 1, GreatGrandchild(k, 1, 2, 1)>>}
  BY CropDrawsIs DEF Grandchild, GreatGrandchild
<1>4. ASSUME d \in obs PROVE ObsCrop(d, k)
  <2>1. PICK use \in ObsCrops : d \in CropDraws(use, Split(Split(k, 1), 1))
    BY <1>4
  <2> QED
    BY <1>2, <2>1 DEF ObsCrop
<1>5. ASSUME d \in next PROVE NextObsCrop(d, k)
  <2>1. PICK use \in NextObsCrops : d \in CropDraws(use, Split(Split(k, 1), 2))
    BY <1>5
  <2> QED
    BY <1>3, <2>1 DEF NextObsCrop
<1> HIDE DEF obs, next
<1> QED
  BY <1>1, <1>4, <1>5 DEF CropDraw

(* An update of the SAC family draws from a key of its own for each draw   *)
(* but the crops of a frame, all of them off the path that the agent's key *)
(* goes.                                                                   *)
LEMMA SACDraws ==
  ASSUME AgentJob, job.kind # "dsrl", NEW a, a.rng \in Keys,
         NEW batch, NEW nets \in SUBSET AllNetworks(job.kind)
  PROVE  /\ OneKeyEach(SACUpdate(job, a, batch, nets).draws)
         /\ \A d \in SACUpdate(job, a, batch, nets).draws : Off(d[3], a.rng) /\ AgentDraw(d, a.rng)
<1> DEFINE k == a.rng
           lossDraws == UNION {LossDraws(job, net, LossKey(job, a, net)) : net \in nets}
           augmentDraws == AugmentDraws(job, Split(k, 1))
<1>1. SACUpdate(job, a, batch, nets).draws = lossDraws \cup augmentDraws
  BY DEF SACUpdate, ApplyLossFns
<1>2. nets \subseteq {"actor", "critic", "opt_critic", "temperature"} /\ "z_critic" \notin nets
  BY DEF AllNetworks, Critics
<1>3. ASSUME NEW d \in lossDraws PROVE AgentDraw(d, k)
  <2>1. PICK net \in nets : d \in LossDraws(job, net, LossKey(job, a, net))
    OBVIOUS
  <2>2. PICK i \in 1 .. 4 : /\ Losses(job)[i] = net /\ (net = "actor" <=> i = 1)
                            /\ LossKey(job, a, net) = Split(k, i)
    BY LossPosition
  <2> HIDE DEF k
  <2>3. k \in Keys
    BY DEF k
  <2> QED
    BY <1>2, <2>1, <2>2, <2>3, LossDrawsForm DEF AgentDraw
<1>4. ASSUME NEW d \in augmentDraws PROVE AgentDraw(d, k)
  BY <1>4, AugmentDrawsForm DEF AgentDraw
<1>6. ASSUME NEW d, AgentDraw(d, k) PROVE Off(d[3], k)
  <2> HIDE DEF k
  <2>1. /\ \A i \in Nat \ {0}, x \in Nat : Off(Grandchild(k, i, x), k)
        /\ \A i \in Nat \ {0}, x, y \in Nat : Off(GreatGrandchild(k, i, x, y), k)
    BY OffDescendants DEF k
  <2> QED
    BY <1>6, <2>1 DEF AgentDraw, LossDraw, LossDropout, LossSubsample, ObsCrop, NextObsCrop, CropDraw
<1>7. OneKeyEach(lossDraws \cup augmentDraws)
  <2> HIDE DEF k, lossDraws, augmentDraws
  <2>1. k \in Keys
    BY DEF k
  <2> QED
    BY <1>3, <1>4, <2>1, AgentDrawsDiffer DEF OneKeyEach
<1> HIDE DEF lossDraws, augmentDraws
<1> QED
  BY <1>1, <1>3, <1>4, <1>6, <1>7

(* One draw has a key of its own.                                          *)
LEMMA OneDraw ==
  ASSUME NEW use, NEW n, NEW k
  PROVE  OneKeyEach(Draw(use, n, k)) /\ \A d \in Draw(use, n, k) : d[3] = k
BY DEF Draw, OneKeyEach

(* So has the draw of an update of DSRL.                                   *)
LEMMA DSRLDraws ==
  ASSUME NEW a, a.rng \in Keys, NEW batch
  PROVE  /\ OneKeyEach(DSRLUpdate(job, a, batch).draws)
         /\ \A d \in DSRLUpdate(job, a, batch).draws :
              Off(d[3], a.rng) /\ d[3] = Grandchild(a.rng, 1, 1)
<1>1. DSRLUpdate(job, a, batch).draws = Draw("actor", 0, Grandchild(a.rng, 1, 1))
  BY DEF DSRLUpdate, DSRLTotalLoss, Grandchild
<1>2. Off(Grandchild(a.rng, 1, 1), a.rng)
  BY OffDescendants
<1> QED
  BY <1>1, <1>2, OneDraw

(* The forms of the draws of a policy's update.                            *)
Deep(k, f) == Split(GreatGrandchild(k, 2, 0, 1), f)
DPDraw(d, k) == \/ d = <<"t", 0, Grandchild(k, 1, 0)>>
                \/ d = <<"noise", 0, Grandchild(k, 1, 1)>>
                \/ d = <<"noise", 1, GreatGrandchild(k, 1, 2, 9)>>
FlowDraw(d, k) == \/ d = <<"noise", 0, Grandchild(k, 1, 0)>>
                  \/ d = <<"t", 0, Grandchild(k, 1, 1)>>
CameraDraw(d, k) == \E f \in 0 .. 1 : \/ d = <<"camera_1", f, GreatGrandchild(k, 2, 1, f)>>
                                      \/ d = <<"camera_2", f, Deep(k, f)>>
PolicyDraw(t, d, k) == IF t = "dp" THEN DPDraw(d, k) ELSE FlowDraw(d, k) \/ CameraDraw(d, k)

(* The keys of the second camera are a generation below the others'.       *)
LEMMA DeepDiffer ==
  ASSUME NEW k \in Keys
  PROVE  /\ \A f, i, x \in Nat : Deep(k, f) # Grandchild(k, i, x)
         /\ \A f, i, x, y \in Nat : Deep(k, f) # GreatGrandchild(k, i, x, y)
         /\ \A f, g \in Nat : Deep(k, f) = Deep(k, g) => f = g
         /\ \A f \in Nat : Off(Deep(k, f), k)
<1>1. \A l \in Keys, i \in Nat : Split(l, i) \in Keys /\ Len(Split(l, i)) = Len(l) + 1 /\ Len(l) \in Nat
  BY DEF Keys, Split
<1>2. Len(k) \in Nat
  BY <1>1
<1>3. ASSUME NEW i \in Nat, NEW x \in Nat
      PROVE  Grandchild(k, i, x) \in Keys /\ Len(Grandchild(k, i, x)) = Len(k) + 2
  BY <1>1 DEF Grandchild
<1>4. ASSUME NEW i \in Nat, NEW x \in Nat, NEW y \in Nat
      PROVE  /\ GreatGrandchild(k, i, x, y) \in Keys
             /\ Len(GreatGrandchild(k, i, x, y)) = Len(k) + 3
  <2>1. Grandchild(k, i, x) \in Keys /\ Len(Grandchild(k, i, x)) = Len(k) + 2
    BY <1>3
  <2>2. /\ Split(Grandchild(k, i, x), y) \in Keys
        /\ Len(Split(Grandchild(k, i, x), y)) = Len(Grandchild(k, i, x)) + 1
    BY <1>1, <2>1
  <2> QED
    BY <1>2, <2>1, <2>2 DEF GreatGrandchild
<1>5. ASSUME NEW f \in Nat
      PROVE  Len(Deep(k, f)) = Len(k) + 4
  <2>1. /\ GreatGrandchild(k, 2, 0, 1) \in Keys
        /\ Len(GreatGrandchild(k, 2, 0, 1)) = Len(k) + 3
    BY <1>4
  <2>2. Len(Split(GreatGrandchild(k, 2, 0, 1), f)) = Len(GreatGrandchild(k, 2, 0, 1)) + 1
    BY <1>1, <2>1
  <2> QED
    BY <1>2, <2>1, <2>2 DEF Deep
<1>6. ASSUME NEW f \in Nat, NEW g \in Nat, Deep(k, f) = Deep(k, g) PROVE f = g
  <2>1. GreatGrandchild(k, 2, 0, 1) \in Keys
    BY <1>4
  <2> QED
    BY <1>6, <2>1, SplitTells DEF Deep
<1>7. ASSUME NEW f \in Nat PROVE Off(Deep(k, f), k)
  <2>1. GreatGrandchild(k, 2, 0, 1) \in Keys
    BY <1>4
  <2>2. Off(GreatGrandchild(k, 2, 0, 1), k)
    BY OffDescendants
  <2> QED
    BY <2>1, <2>2, OffPath DEF Deep
<1>8. ASSUME NEW f \in Nat, NEW i \in Nat, NEW x \in Nat PROVE Deep(k, f) # Grandchild(k, i, x)
  BY <1>2, <1>3, <1>5
<1>9. ASSUME NEW f \in Nat, NEW i \in Nat, NEW x \in Nat, NEW y \in Nat
      PROVE  Deep(k, f) # GreatGrandchild(k, i, x, y)
  BY <1>2, <1>4, <1>5
<1> QED
  BY <1>6, <1>7, <1>8, <1>9

(* Draws of these forms that share a key are the same draw.                *)
LEMMA PolicyDrawsDiffer ==
  ASSUME NEW k \in Keys, NEW d, NEW e, d[3] = e[3],
         \/ DPDraw(d, k) /\ DPDraw(e, k)
         \/ (FlowDraw(d, k) \/ CameraDraw(d, k)) /\ (FlowDraw(e, k) \/ CameraDraw(e, k))
  PROVE  d = e
<1>1. \A i, x, j, z \in Nat : Grandchild(k, i, x) = Grandchild(k, j, z) => i = j /\ x = z
  BY Descendants
<1>2. \A i, x, y, j, z, w \in Nat :
        GreatGrandchild(k, i, x, y) = GreatGrandchild(k, j, z, w) => i = j /\ x = z /\ y = w
  BY Descendants
<1>3. \A i, x, j, z, w \in Nat : Grandchild(k, i, x) # GreatGrandchild(k, j, z, w)
  BY Descendants
<1>4. /\ \A f, i, x \in Nat : Deep(k, f) # Grandchild(k, i, x)
      /\ \A f, i, x, y \in Nat : Deep(k, f) # GreatGrandchild(k, i, x, y)
      /\ \A f, g \in Nat : Deep(k, f) = Deep(k, g) => f = g
  BY DeepDiffer
<1>5. CASE DPDraw(d, k) /\ DPDraw(e, k)
  BY <1>1, <1>3, <1>5 DEF DPDraw
<1>6. CASE FlowDraw(d, k) /\ (FlowDraw(e, k) \/ CameraDraw(e, k))
  BY <1>1, <1>3, <1>4, <1>6 DEF FlowDraw, CameraDraw
<1>7. CASE CameraDraw(d, k) /\ (FlowDraw(e, k) \/ CameraDraw(e, k))
  BY <1>2, <1>3, <1>4, <1>7 DEF FlowDraw, CameraDraw
<1> QED
  BY <1>5, <1>6, <1>7

(* A policy's update draws from a key of its own for each draw, off the    *)
(* path of the policy's key.                                               *)
LEMMA PolicyUpdateDraws ==
  ASSUME NEW p, p.rng \in Keys, NEW t, NEW w
  PROVE  /\ OneKeyEach(UpdatePolicy(t, p, w).draws)
         /\ \A d \in UpdatePolicy(t, p, w).draws : Off(d[3], p.rng) /\ PolicyDraw(t, d, p.rng)
<1> DEFINE k == p.rng
           dp == {<<"t", 0, Grandchild(k, 1, 0)>>, <<"noise", 0, Grandchild(k, 1, 1)>>,
                  <<"noise", 1, GreatGrandchild(k, 1, 2, 9)>>}
           flow == {<<"noise", 0, Grandchild(k, 1, 0)>>, <<"t", 0, Grandchild(k, 1, 1)>>}
           images == {<<"noise", 0, Grandchild(k, 1, 0)>>, <<"t", 0, Grandchild(k, 1, 1)>>,
                      <<"camera_1", 0, GreatGrandchild(k, 2, 1, 0)>>,
                      <<"camera_1", 1, GreatGrandchild(k, 2, 1, 1)>>,
                      <<"camera_2", 0, Deep(k, 0)>>, <<"camera_2", 1, Deep(k, 1)>>}
<1>1. \/ t = "dp" /\ UpdatePolicy(t, p, w).draws = dp
      \/ t # "dp" /\ UpdatePolicy(t, p, w).draws \in {flow, images}
  <2>1. DPUpdate(p, w).draws = dp
    BY DEF DPUpdate, DPDraws, Draw, FoldIn, Grandchild, GreatGrandchild
  <2>2. FlowDraws(Split(k, 1)) = flow
    BY DEF FlowDraws, Draw, Grandchild
  <2>3. FlowAugmentDraws(Split(k, 2)) =
          {<<"camera_1", 0, GreatGrandchild(k, 2, 1, 0)>>,
           <<"camera_1", 1, GreatGrandchild(k, 2, 1, 1)>>,
           <<"camera_2", 0, Deep(k, 0)>>, <<"camera_2", 1, Deep(k, 1)>>}
    <3>1. CropDraws("camera_1", Grandchild(k, 2, 1)) =
            {<<"camera_1", 0, GreatGrandchild(k, 2, 1, 0)>>,
             <<"camera_1", 1, GreatGrandchild(k, 2, 1, 1)>>}
      BY CropDrawsIs DEF GreatGrandchild
    <3>2. CropDraws("camera_2", GreatGrandchild(k, 2, 0, 1)) =
            {<<"camera_2", 0, Deep(k, 0)>>, <<"camera_2", 1, Deep(k, 1)>>}
      BY CropDrawsIs DEF Deep
    <3>3. FlowAugmentDraws(Split(k, 2)) = CropDraws("camera_1", Grandchild(k, 2, 1))
                                            \cup CropDraws("camera_2", GreatGrandchild(k, 2, 0, 1))
      BY DEF FlowAugmentDraws, Grandchild, GreatGrandchild
    <3> QED
      BY <3>1, <3>2, <3>3
  <2>4. FlowDraws(Split(k, 1)) \cup FlowAugmentDraws(Split(k, 2)) = images
    BY <2>2, <2>3
  <2>5. \A b : FlowUpdate(p, w, b).draws =
                 FlowDraws(Split(k, 1)) \cup IF b THEN FlowAugmentDraws(Split(k, 2)) ELSE {}
    BY DEF FlowUpdate
  <2> HIDE DEF dp, flow, images, k
  <2>6. \A b : FlowUpdate(p, w, b).draws \in {flow, images}
    BY <2>2, <2>4, <2>5
  <2> QED
    BY <2>1, <2>6 DEF UpdatePolicy
<1> HIDE DEF k
<1>3. k \in Keys
  BY DEF k
<1>4. /\ \A d \in dp : DPDraw(d, k)
      /\ \A d \in flow : FlowDraw(d, k)
      /\ \A d \in images : FlowDraw(d, k) \/ CameraDraw(d, k)
  BY DEF DPDraw, FlowDraw, CameraDraw
<1> HIDE DEF dp, flow, images
<1>5. OneKeyEach(dp) /\ OneKeyEach(flow) /\ OneKeyEach(images)
  BY <1>3, <1>4, PolicyDrawsDiffer DEF OneKeyEach
<1>6. ASSUME NEW d, DPDraw(d, k) \/ FlowDraw(d, k) \/ CameraDraw(d, k) PROVE Off(d[3], k)
  <2>1. /\ \A i \in Nat \ {0}, x \in Nat : Off(Grandchild(k, i, x), k)
        /\ \A i \in Nat \ {0}, x, y \in Nat : Off(GreatGrandchild(k, i, x, y), k)
        /\ \A f \in Nat : Off(Deep(k, f), k)
    BY <1>3, OffDescendants, DeepDiffer
  <2> QED
    BY <1>6, <2>1 DEF DPDraw, FlowDraw, CameraDraw
<1> QED
  BY <1>1, <1>4, <1>5, <1>6 DEF k, PolicyDraw

-------------------------------------------------------------------------------
(* The keys of a run *)

(* The paths of the session's key, of the evaluations', and of the agent's *)
(* or the policy's: from some first keys on, 0-th children only.           *)
SessionPath(k) == k \in Keys /\ Len(k) >= 1 /\ k[1] = 10 /\ \A p \in 2 .. Len(k) : k[p] = 0
EvalPath(k) == k \in Keys /\ Len(k) >= 1 /\ k[1] = 11 /\ \A p \in 2 .. Len(k) : k[p] = 0
LearnerStart(k) ==
  /\ k \in Keys /\ k[1] = 10
  /\ IsAgent => Len(k) >= 3 /\ k[2] = 0 /\ k[3] = 1
  /\ ~IsAgent => Len(k) >= 2 /\ k[2] = 2
StartLength == IF IsAgent THEN 3 ELSE 2
LearnerPath(k) == LearnerStart(k) /\ \A p \in StartLength + 1 .. Len(k) : k[p] = 0

(* The keys that left a path before the key it has come to.                *)
SessionKey(d, k) ==
  /\ d \in Keys /\ d[1] = 10
  /\ \E p \in 2 .. Len(k) : p <= Len(d) /\ d[p] = 1 /\ \A q \in 2 .. Len(d) : q # p => d[q] = 0
EvalKey(d, k) ==
  /\ d \in Keys /\ d[1] = 11
  /\ \E p \in 2 .. Len(k) : p <= Len(d) /\ d[p] # 0
LearnerKey(d, k) ==
  /\ LearnerStart(d)
  /\ \E p \in StartLength + 1 .. Len(k) : p <= Len(d) /\ d[p] # 0
InitKey == FoldIn(Split(Root(0), 1))
Drawn(d) == \/ SessionKey(d, sessionRng)
            \/ EvalKey(d, evalRng)
            \/ LearnerKey(d, agent.rng)
            \/ d = InitKey

(* An action's key: a child of the session's, or its 0-th child.           *)
ActionKey(d, k) == d \in {Split(k, 1), Grandchild(k, 1, 0)}

(* A child is its parent and one entry more. *)
LEMMA ChildIs ==
  ASSUME NEW k \in Keys, NEW i \in Nat
  PROVE  /\ Split(k, i) \in Keys /\ Len(Split(k, i)) = Len(k) + 1
         /\ \A p \in 1 .. Len(k) : Split(k, i)[p] = k[p]
         /\ Split(k, i)[Len(k) + 1] = i
BY DEF Keys, Split

(* The key of the initial weights, entry by entry. *)
LEMMA InitKeyIs ==
  /\ InitKey \in Keys /\ Len(InitKey) = 3
  /\ InitKey[1] = 10 /\ InitKey[2] = 1 /\ InitKey[3] = 9
<1>1. Root(0) = <<10>>
  <2>1. 10 + 0 = 10
    OBVIOUS
  <2> QED
    BY <2>1, Zenon DEF Root
<1> DEFINE root == Root(0)
           k == Split(root, 1)
           l == Split(k, 9)
<1>2. root \in Keys /\ Len(root) = 1 /\ root[1] = 10
  <2>1. \A n \in Nat : <<n>> \in Keys /\ Len(<<n>>) = 1 /\ <<n>>[1] = n
    BY DEF Keys
  <2> QED
    BY <1>1, <2>1
<1> HIDE DEF root
<1>3. k \in Keys /\ Len(k) = 2 /\ k[1] = 10 /\ k[2] = 1
  <2>1. /\ k \in Keys /\ Len(k) = Len(root) + 1
        /\ \A p \in 1 .. Len(root) : k[p] = root[p]
        /\ k[Len(root) + 1] = 1
    BY <1>2, ChildIs
  <2> HIDE DEF k
  <2> QED
    BY <1>2, <2>1
<1> HIDE DEF k
<1>4. l \in Keys /\ Len(l) = 3 /\ l[1] = 10 /\ l[2] = 1 /\ l[3] = 9
  <2>1. /\ l \in Keys /\ Len(l) = Len(k) + 1
        /\ \A p \in 1 .. Len(k) : l[p] = k[p]
        /\ l[Len(k) + 1] = 9
    BY <1>3, ChildIs
  <2> HIDE DEF l
  <2> QED
    BY <1>3, <2>1
<1>5. InitKey = l
  BY DEF InitKey, FoldIn, k, root
<1> HIDE DEF l
<1> QED
  BY <1>4, <1>5

(* A key off the learner's path is new. *)
LEMMA LearnerKeyNew ==
  ASSUME LearnerPath(agent.rng), NEW key, Off(key, agent.rng),
         \A d \in drawn : Drawn(d)
  PROVE  key \notin drawn
<1> DEFINE k == agent.rng
<1>0. k \in Seq(Nat) /\ key \in Seq(Nat)
  BY DEF Off, Keys, LearnerPath, LearnerStart
<1>1. /\ k \in Seq(Nat) /\ key \in Seq(Nat) /\ Len(k) \in Nat /\ Len(key) \in Nat
      /\ Len(key) > Len(k) /\ \A p \in 1 .. Len(k) : key[p] = k[p]
      /\ key[Len(k) + 1] # 0
  BY <1>0, LenProperties DEF Off
<1>2. /\ k[1] = 10 /\ Len(k) >= StartLength /\ StartLength \in {2, 3}
      /\ IsAgent => StartLength = 3 /\ k[2] = 0 /\ k[3] = 1
      /\ ~IsAgent => StartLength = 2 /\ k[2] = 2
      /\ \A p \in StartLength + 1 .. Len(k) : k[p] = 0
  BY DEF LearnerPath, LearnerStart, StartLength
<1> HIDE DEF k
<1>3. /\ key[1] = 10
      /\ IsAgent => key[2] = 0 /\ key[3] = 1
      /\ ~IsAgent => key[2] = 2
      /\ \A p \in StartLength + 1 .. Len(k) : key[p] = 0
  <2>1. 1 \in 1 .. Len(k) /\ 2 \in 1 .. Len(k) /\ (IsAgent => 3 \in 1 .. Len(k))
    BY <1>1, <1>2
  <2>2. \A p \in StartLength + 1 .. Len(k) : p \in 1 .. Len(k)
    BY <1>1, <1>2
  <2> QED
    BY <1>1, <1>2, <2>1, <2>2
<1>4. ~ EvalKey(key, evalRng)
  BY <1>3 DEF EvalKey
<1>5. ~ LearnerKey(key, agent.rng)
  BY <1>3 DEF LearnerKey, k
<1>6. ~ SessionKey(key, sessionRng)
  <2> SUFFICES ASSUME SessionKey(key, sessionRng) PROVE FALSE
    OBVIOUS
  <2>1. PICK p \in 2 .. Len(sessionRng) :
          p <= Len(key) /\ key[p] = 1 /\ \A q \in 2 .. Len(key) : q # p => key[q] = 0
    BY DEF SessionKey
  <2>2. IsAgent
    <3> SUFFICES ASSUME ~IsAgent PROVE FALSE
      OBVIOUS
    <3>1. 2 \in 2 .. Len(key) /\ key[2] = 2
      BY <1>1, <1>2, <1>3
    <3> QED
      BY <2>1, <3>1
  <2>3. p = 3
    <3>1. 3 \in 2 .. Len(key) /\ key[3] = 1
      BY <1>1, <1>2, <1>3, <2>2
    <3> QED
      BY <2>1, <3>1
  <2>4. Len(k) + 1 \in 2 .. Len(key) /\ Len(k) + 1 # 3
    BY <1>1, <1>2, <2>2
  <2> QED
    BY <1>1, <2>1, <2>3, <2>4
<1>7. key # InitKey
  <2>1. key[2] # 1
    BY <1>3
  <2> QED
    BY <2>1, InitKeyIs
<1> QED
  BY <1>4, <1>5, <1>6, <1>7 DEF Drawn

(* So is an action's key. *)
LEMMA ActionKeyNew ==
  ASSUME SessionPath(sessionRng), NEW key, ActionKey(key, sessionRng),
         \A d \in drawn : Drawn(d)
  PROVE  /\ key \notin drawn
         /\ key \in Keys /\ key[1] = 10 /\ Len(key) > Len(sessionRng)
         /\ key[Len(sessionRng) + 1] = 1
         /\ \A q \in 2 .. Len(key) : q # Len(sessionRng) + 1 => key[q] = 0
<1> DEFINE k == sessionRng
           n == Len(k)
<1>1. k \in Seq(Nat) /\ n \in Nat /\ n >= 1 /\ k[1] = 10 /\ \A p \in 2 .. n : k[p] = 0
  BY DEF SessionPath, Keys
<1>2. /\ Split(k, 1) \in Keys /\ Len(Split(k, 1)) = n + 1
      /\ \A p \in 1 .. n : Split(k, 1)[p] = k[p]
      /\ Split(k, 1)[n + 1] = 1
  BY <1>1 DEF Split, Keys
<1>3. /\ Grandchild(k, 1, 0) \in Keys /\ Len(Grandchild(k, 1, 0)) = n + 2
      /\ \A p \in 1 .. n + 1 : Grandchild(k, 1, 0)[p] = Split(k, 1)[p]
      /\ Grandchild(k, 1, 0)[n + 2] = 0
  <2> DEFINE c == Split(k, 1)
  <2> HIDE DEF c
  <2>1. c \in Seq(Nat) /\ Len(c) = n + 1
    BY <1>2 DEF c, Keys
  <2>2. Append(c, 0) \in Seq(Nat) /\ Len(Append(c, 0)) = n + 2
        /\ (\A p \in 1 .. n + 1 : Append(c, 0)[p] = c[p]) /\ Append(c, 0)[n + 2] = 0
    BY <1>1, <2>1
  <2> QED
    BY <2>2 DEF c, Grandchild, Split, Keys
<1> HIDE DEF k
<1>4. /\ key \in Keys /\ Len(key) \in n + 1 .. n + 2
      /\ \A p \in 1 .. n : key[p] = k[p]
      /\ key[n + 1] = 1
      /\ Len(key) = n + 2 => key[n + 2] = 0
  <2>1. CASE key = Split(k, 1)
    BY <1>1, <1>2, <2>1
  <2>2. CASE key = Grandchild(k, 1, 0)
    <3>1. \A p \in 1 .. n : key[p] = k[p]
      BY <1>1, <1>2, <1>3, <2>2
    <3>2. key[n + 1] = 1
      BY <1>1, <1>2, <1>3, <2>2
    <3> QED
      BY <1>1, <1>3, <2>2, <3>1, <3>2
  <2> QED
    BY <2>1, <2>2 DEF ActionKey, k
<1>5. key[1] = 10 /\ \A q \in 2 .. Len(key) : q # n + 1 => key[q] = 0
  BY <1>1, <1>4
<1>6. ~ SessionKey(key, sessionRng)
  <2> SUFFICES ASSUME SessionKey(key, sessionRng) PROVE FALSE
    OBVIOUS
  <2>1. PICK p \in 2 .. n : p <= Len(key) /\ key[p] = 1
    BY DEF SessionKey, k
  <2> QED
    BY <1>1, <1>4, <2>1
<1>7. ~ EvalKey(key, evalRng)
  BY <1>5 DEF EvalKey
<1>8. ~ LearnerKey(key, agent.rng)
  <2> SUFFICES ASSUME LearnerKey(key, agent.rng) PROVE FALSE
    OBVIOUS
  <2>1. PICK p \in StartLength + 1 .. Len(agent.rng) : p <= Len(key) /\ key[p] # 0
    BY DEF LearnerKey
  <2>2. IsAgent /\ key[3] = 1 /\ StartLength = 3 /\ Len(key) >= 3
    BY <1>1, <1>4, <1>5 DEF LearnerKey, LearnerStart, StartLength
  <2>3. n + 1 = 3
    BY <1>1, <1>4, <1>5, <2>2
  <2>4. p \in 2 .. Len(key) /\ p # n + 1
    BY <1>1, <1>4, <2>1, <2>2, <2>3
  <2> QED
    BY <1>5, <2>1, <2>4
<1>9. key # InitKey
  <2> SUFFICES ASSUME key = InitKey PROVE FALSE
    OBVIOUS
  <2>1. Len(key) = 3 /\ key[3] = 9
    BY InitKeyIs
  <2>2. 3 \in 2 .. Len(key) /\ key[3] # 0
    BY <2>1
  <2>3. 3 = n + 1
    BY <1>5, <2>2
  <2> QED
    BY <1>4, <2>1, <2>3
<1> QED
  BY <1>4, <1>5, <1>6, <1>7, <1>8, <1>9 DEF k, Drawn

(* And a key off the path of the evaluations'. *)
LEMMA EvalKeyNew ==
  ASSUME EvalPath(evalRng), NEW key, Off(key, evalRng),
         \A d \in drawn : Drawn(d)
  PROVE  key \notin drawn /\ key[1] = 11
<1>1. /\ evalRng \in Seq(Nat) /\ Len(evalRng) \in Nat /\ Len(evalRng) >= 1
      /\ evalRng[1] = 11 /\ \A p \in 2 .. Len(evalRng) : evalRng[p] = 0
      /\ \A p \in 1 .. Len(evalRng) : key[p] = evalRng[p]
  BY DEF EvalPath, Off, Keys
<1>2. key[1] = 11 /\ \A p \in 2 .. Len(evalRng) : key[p] = 0
  BY <1>1
<1> QED
  BY <1>2, InitKeyIs DEF SessionKey, EvalKey, LearnerKey, LearnerStart, Drawn

(* A path goes on with the 0-th child, and the keys that have left it have *)
(* left it still.                                                          *)
LEMMA PathsGoOn ==
  ASSUME NEW k \in Keys
  PROVE  /\ SessionPath(k) => SessionPath(Split(k, 0))
         /\ EvalPath(k) => EvalPath(Split(k, 0))
         /\ LearnerPath(k) => LearnerPath(Split(k, 0))
         /\ \A d : SessionKey(d, k) => SessionKey(d, Split(k, 0))
         /\ \A d : EvalKey(d, k) => EvalKey(d, Split(k, 0))
         /\ \A d : LearnerKey(d, k) => LearnerKey(d, Split(k, 0))
<1> DEFINE c == Split(k, 0)
<1>1. /\ c \in Keys /\ Len(c) = Len(k) + 1 /\ Len(k) \in Nat
      /\ \A p \in 1 .. Len(k) : c[p] = k[p]
      /\ c[Len(k) + 1] = 0
  BY DEF Keys, Split
<1> HIDE DEF c
<1>2. StartLength \in {2, 3}
  BY DEF StartLength
<1>3. SessionPath(k) => SessionPath(c)
  BY <1>1 DEF SessionPath
<1>4. EvalPath(k) => EvalPath(c)
  BY <1>1 DEF EvalPath
<1>5. LearnerPath(k) => LearnerPath(c)
  <2> SUFFICES ASSUME LearnerPath(k) PROVE LearnerPath(c)
    OBVIOUS
  <2>1. Len(k) >= 2 /\ (IsAgent => Len(k) >= 3)
    BY <1>1 DEF LearnerPath, LearnerStart
  <2>2. 1 \in 1 .. Len(k) /\ 2 \in 1 .. Len(k) /\ (IsAgent => 3 \in 1 .. Len(k))
    BY <1>1, <2>1
  <2>3. LearnerStart(c)
    BY <1>1, <2>1, <2>2 DEF LearnerPath, LearnerStart
  <2>4. ASSUME NEW p \in StartLength + 1 .. Len(c) PROVE c[p] = 0
    <3>1. p \in 1 .. Len(k) \/ p = Len(k) + 1
      BY <1>1, <1>2
    <3> QED
      BY <1>1, <1>2, <3>1 DEF LearnerPath
  <2> QED
    BY <2>3, <2>4 DEF LearnerPath
<1>6. \A d : SessionKey(d, k) => SessionKey(d, c)
  BY <1>1 DEF SessionKey
<1>7. \A d : EvalKey(d, k) => EvalKey(d, c)
  BY <1>1 DEF EvalKey
<1>8. \A d : LearnerKey(d, k) => LearnerKey(d, c)
  BY <1>1, <1>2 DEF LearnerKey
<1> QED
  BY <1>3, <1>4, <1>5, <1>6, <1>7, <1>8 DEF c

(* The keys of this step are among those that have left the path after it. *)
LEMMA KeysLeave ==
  ASSUME NEW k \in Keys, NEW key, Off(key, k)
  PROVE  /\ EvalPath(k) => EvalKey(key, Split(k, 0))
         /\ LearnerPath(k) => LearnerKey(key, Split(k, 0))
<1>1. Len(Split(k, 0)) = Len(k) + 1 /\ Len(k) \in Nat
  BY DEF Keys, Split
<1>2. /\ key \in Keys /\ Len(key) \in Nat /\ Len(key) > Len(k)
      /\ \A p \in 1 .. Len(k) : key[p] = k[p]
      /\ key[Len(k) + 1] # 0
  BY DEF Off, Keys
<1>3. EvalPath(k) => EvalKey(key, Split(k, 0))
  BY <1>1, <1>2 DEF EvalPath, EvalKey
<1>4. LearnerPath(k) => LearnerKey(key, Split(k, 0))
  <2> SUFFICES ASSUME LearnerPath(k) PROVE LearnerKey(key, Split(k, 0))
    OBVIOUS
  <2>1. Len(k) >= 2 /\ (IsAgent => Len(k) >= 3) /\ StartLength \in Nat /\ Len(k) >= StartLength
    BY <1>1 DEF LearnerPath, LearnerStart, StartLength
  <2>2. 1 \in 1 .. Len(k) /\ 2 \in 1 .. Len(k) /\ (IsAgent => 3 \in 1 .. Len(k))
    BY <1>1, <2>1
  <2>3. LearnerStart(key)
    BY <1>1, <1>2, <2>1, <2>2 DEF LearnerPath, LearnerStart
  <2>4. Len(k) + 1 \in StartLength + 1 .. Len(Split(k, 0)) /\ Len(k) + 1 <= Len(key)
    BY <1>1, <1>2, <2>1
  <2> QED
    BY <1>2, <2>3, <2>4 DEF LearnerKey
<1> QED
  BY <1>3, <1>4

-------------------------------------------------------------------------------
(* Windows *)

(* A set of naturals has a least element. *)
LEMMA LeastIn ==
  ASSUME NEW S, S \subseteq Nat, S # {}
  PROVE  Min(S) \in S /\ \A x \in S : Min(S) <= x
<1> DEFINE R == OpToRel(<, Nat)
<1>1. IsWellFoundedOn(R, Nat)
  BY NatLessThanWellFounded
<1>2. \A x, y \in Nat : y < x => <<y, x>> \in R
  BY DEF OpToRel
<1> HIDE DEF R
<1>3. PICK x \in S : \A y \in S : ~ (<<y, x>> \in R)
  BY <1>1, WFMin, Zenon
<1>4. ASSUME NEW y \in S PROVE x <= y
  <2>1. x \in Nat /\ y \in Nat
    OBVIOUS
  <2>2. ~ (y < x)
    BY <1>2, <1>3, <2>1
  <2> QED
    BY <2>1, <2>2
<1> QED
  BY <1>4 DEF Min

(* And one that is bounded a greatest. *)
LEMMA GreatestIn ==
  ASSUME NEW n \in Nat, NEW S, S \subseteq 0 .. n, S # {}
  PROVE  Max(S) \in S /\ \A x \in S : x <= Max(S)
<1> DEFINE T == {m \in 0 .. n : n - m \in S}
<1>1. T \subseteq Nat /\ T # {}
  <2>1. PICK x \in S : TRUE
    OBVIOUS
  <2>2. x \in 0 .. n /\ n - x \in 0 .. n /\ n - (n - x) = x
    BY <2>1
  <2>3. n - x \in T
    BY <2>2
  <2>4. \A m \in T : m \in Nat
    OBVIOUS
  <2> HIDE DEF T
  <2> QED
    BY <2>3, <2>4
<1>2. Min(T) \in T /\ \A x \in T : Min(T) <= x
  <2> HIDE DEF T
  <2> QED
    BY <1>1, LeastIn
<1>3. PICK m \in T : \A x \in T : m <= x
  BY <1>2
<1>4. ASSUME NEW y \in S PROVE n - m >= y
  <2>1. y \in 0 .. n /\ n - y \in 0 .. n /\ n - (n - y) = y
    OBVIOUS
  <2>2. n - y \in T
    BY <2>1
  <2>3. m <= n - y /\ m \in 0 .. n
    BY <1>3, <2>2
  <2> QED
    BY <2>1, <2>3
<1>5. n - m \in S /\ \A y \in S : n - m >= y
  BY <1>3, <1>4
<1>6. Max(S) \in S /\ \A y \in S : Max(S) >= y
  BY <1>5 DEF Max
<1>7. Max(S) \in Nat /\ \A y \in S : y \in Nat
  <2>1. \A y \in S : y \in Nat
    OBVIOUS
  <2> QED
    BY <1>6, <2>1
<1> QED
  BY <1>6, <1>7

(* Later steps belong to later demonstrations, or to the same.             *)
LEMMA DemosInOrder ==
  ASSUME NEW s \in Steps, NEW t \in Steps, s <= t
  PROVE  DemoOfStep[s] \in Nat /\ DemoOfStep[s] <= DemoOfStep[t]
<1> DEFINE Ended(x) == {e \in DemoEnds : e <= x}
<1>1. IsFiniteSet(DemoEnds)
  <2>1. IsFiniteSet(1 .. NSteps)
    BY DemoAssumption, FS_Interval
  <2> QED
    BY <2>1, DemoAssumption, FS_Subset
<1>2. IsFiniteSet(Ended(s)) /\ IsFiniteSet(Ended(t))
  BY <1>1, FS_Subset
<1>3. Ended(s) \in SUBSET Ended(t)
  <2>1. s \in Int /\ t \in Int /\ \A e \in DemoEnds : e \in Int
    BY DemoAssumption DEF Steps
  <2>2. ASSUME NEW e \in DemoEnds, e <= s PROVE e <= t
    BY <2>1, <2>2
  <2> QED
    BY <2>2
<1>4. Cardinality(Ended(s)) <= Cardinality(Ended(t)) /\ Cardinality(Ended(s)) \in Nat
  BY <1>2, <1>3, FS_Subset, FS_CardinalityType
<1> QED
  BY <1>4 DEF DemoOfStep

(* A demonstration lies between its first step and its last.               *)
LEMMA DemoLies ==
  ASSUME NEW s \in Steps
  PROVE  /\ DemoStart(s) \in Steps /\ DemoStart(s) <= s
         /\ DemoEnd(s) \in Steps /\ s <= DemoEnd(s)
         /\ \A t \in DemoStart(s) .. DemoEnd(s) : t \in Steps /\ DemoOfStep[t] = DemoOfStep[s]
<1>1. SameDemo(s) \subseteq 0 .. NSteps - 1 /\ s \in SameDemo(s) /\ NSteps - 1 \in Nat
  BY DemoAssumption DEF SameDemo, Steps
<1>2. DemoStart(s) \in SameDemo(s) /\ DemoStart(s) <= s
  <2>1. SameDemo(s) \subseteq Nat /\ SameDemo(s) # {}
    BY <1>1
  <2> QED
    BY <1>1, <2>1, LeastIn DEF DemoStart
<1>3. DemoEnd(s) \in SameDemo(s) /\ s <= DemoEnd(s)
  <2>1. SameDemo(s) # {}
    BY <1>1
  <2> QED
    BY <1>1, <2>1, GreatestIn DEF DemoEnd
<1>4. ASSUME NEW t \in DemoStart(s) .. DemoEnd(s)
      PROVE  t \in Steps /\ DemoOfStep[t] = DemoOfStep[s]
  <2>1. DemoStart(s) \in Steps /\ DemoEnd(s) \in Steps
    BY <1>2, <1>3 DEF SameDemo
  <2>2. t \in Steps /\ DemoStart(s) <= t /\ t <= DemoEnd(s)
    BY <2>1, DemoAssumption DEF Steps
  <2>3. /\ DemoOfStep[DemoStart(s)] <= DemoOfStep[t] /\ DemoOfStep[t] <= DemoOfStep[DemoEnd(s)]
        /\ DemoOfStep[t] \in Nat
    BY <2>1, <2>2, DemosInOrder
  <2>4. DemoOfStep[DemoStart(s)] = DemoOfStep[s] /\ DemoOfStep[DemoEnd(s)] = DemoOfStep[s]
    BY <1>2, <1>3 DEF SameDemo
  <2>5. DemoOfStep[s] \in Nat
    BY DemosInOrder, DemoAssumption DEF Steps
  <2> QED
    BY <2>2, <2>3, <2>4, <2>5
<1> QED
  BY <1>2, <1>3, <1>4 DEF SameDemo

(* Steps of one demonstration make a window of it.                         *)
LEMMA WindowInDemo ==
  ASSUME NEW w, NEW s \in Steps,
         \A t \in Range(w.frames) \cup Range(w.actions) : t \in Steps /\ DemoOfStep[t] = DemoOfStep[s]
  PROVE  OneDemo(w) /\ Range(w.actions) \subseteq Steps
BY DEF OneDemo

(* Every sample lies in one demonstration.                                 *)
LEMMA SamplesLie ==
  ASSUME NEW t \in Trainers, NEW w \in Samples(t)
  PROVE  OneDemo(w) /\ Range(w.actions) \subseteq Steps
<1> USE DemoAssumption
<1>1. ASSUME NEW s \in Steps, w = FlowSample(s)
      PROVE  OneDemo(w) /\ Range(w.actions) \subseteq Steps
  <2>1. /\ DemoStart(s) \in Int /\ DemoEnd(s) \in Int /\ s \in Int
        /\ 0 <= DemoStart(s) /\ DemoStart(s) <= s /\ s <= DemoEnd(s)
        /\ \A x \in DemoStart(s) .. DemoEnd(s) : x \in Steps /\ DemoOfStep[x] = DemoOfStep[s]
    BY DemoLies DEF Steps
  <2>2. ASSUME NEW x \in Range(w.frames) PROVE x \in DemoStart(s) .. DemoEnd(s)
    <3>1. PICK o \in 1 .. ObsHistory : x = Clip((s - ObsHistory) + o, DemoStart(s), s)
      BY <1>1, <2>2 DEF FlowSample, Range
    <3> QED
      BY <2>1, <3>1 DEF Clip
  <2>3. ASSUME NEW x \in Range(w.actions) PROVE x \in DemoStart(s) .. DemoEnd(s)
    <3>1. PICK k \in 1 .. Horizon : x = Clip(s + (k - 1), 0, DemoEnd(s))
      BY <1>1, <2>3 DEF FlowSample, Range
    <3> QED
      BY <2>1, <3>1 DEF Clip
  <2> QED
    BY <2>1, <2>2, <2>3, WindowInDemo
<1>2. ASSUME NEW s \in ValidStarts, w = DPSample(s)
      PROVE  OneDemo(w) /\ Range(w.actions) \subseteq Steps
  <2>1. /\ s \in Steps /\ s + (Horizon - 1) \in Steps /\ s \in Int
        /\ DemoOfStep[s] = DemoOfStep[s + (Horizon - 1)]
    BY DEF ValidStarts, Steps
  <2>2. ASSUME NEW x \in s .. s + (Horizon - 1) PROVE x \in Steps /\ DemoOfStep[x] = DemoOfStep[s]
    <3>1. x \in Steps /\ s <= x /\ x <= s + (Horizon - 1)
      BY <2>1 DEF Steps
    <3>2. DemoOfStep[s] <= DemoOfStep[x] /\ DemoOfStep[x] <= DemoOfStep[s + (Horizon - 1)]
          /\ DemoOfStep[s] \in Nat /\ DemoOfStep[x] \in Nat
      BY <2>1, <3>1, DemosInOrder
    <3> QED
      BY <2>1, <3>1, <3>2
  <2>3. ASSUME NEW x \in Range(w.frames) PROVE x \in s .. s + (Horizon - 1)
    <3>1. x = s
      BY <1>2, <2>3 DEF DPSample, Range
    <3> QED
      BY <2>1, <3>1
  <2>4. ASSUME NEW x \in Range(w.actions) PROVE x \in s .. s + (Horizon - 1)
    <3>1. PICK k \in 1 .. Horizon : x = s + (k - 1)
      BY <1>2, <2>4 DEF DPSample, Range
    <3> QED
      BY <2>1, <3>1
  <2> QED
    BY <2>1, <2>2, <2>3, <2>4, WindowInDemo
<1> QED
  BY <1>1, <1>2 DEF Samples, FlowStateSample, Trainers

-------------------------------------------------------------------------------
(* The invariant of the keys *)

Policy == [learned : SUBSET Steps, ema : SUBSET Steps, rng : Keys, step : Nat]

(***************************************************************************)
(* A key that was drawn from is that of the initial weights, or left one   *)
(* of the three paths before the key that the path has come to; no key has *)
(* before the agent or the policy is made.                                 *)
(***************************************************************************)
KeyInv ==
  /\ SessionPath(sessionRng) /\ EvalPath(evalRng)
  /\ pc \in {"start", "download"} => drawn = {}
  /\ pc \in {"act", "evaluate", "train", "end"} => LearnerPath(agent.rng)
  /\ ~IsAgent /\ pc \in {"train", "evaluate", "end"} => agent \in Policy
  /\ \A d \in drawn : Drawn(d)
  /\ reused = FALSE

(* A policy's update, field by field. *)
LEMMA PolicyUpdateIs ==
  ASSUME NEW p \in Policy, NEW t \in Trainers, NEW w \in Samples(t)
  PROVE  /\ UpdatePolicy(t, p, w).policy \in Policy
         /\ UpdatePolicy(t, p, w).policy.rng = Split(p.rng, 0)
         /\ UpdatePolicy(t, p, w).policy.step = p.step + 1
<1>1. Range(w.actions) \subseteq Steps
  BY SamplesLie
<1>2. Split(p.rng, 0) \in Keys
  BY OffPath DEF Policy
<1> DEFINE learned == p.learned \cup Range(w.actions)
           key == Split(p.rng, 0)
<1>3. learned \in SUBSET Steps /\ p.ema \cup learned \in SUBSET Steps
  BY <1>1 DEF Policy
<1>4. DPUpdate(p, w).policy = [p EXCEPT !.learned = learned, !.step = p.step + 1, !.rng = key]
  BY DEF DPUpdate
<1>5. \A images : FlowUpdate(p, w, images).policy =
        [p EXCEPT !.learned = learned, !.ema = p.ema \cup learned, !.step = p.step + 1, !.rng = key]
  BY DEF FlowUpdate
<1>6. \/ UpdatePolicy(t, p, w).policy = DPUpdate(p, w).policy
      \/ UpdatePolicy(t, p, w).policy = FlowUpdate(p, w, t = "flow").policy
  BY DEF UpdatePolicy
<1> HIDE DEF learned, key
<1>7. UpdatePolicy(t, p, w).policy \in
        {[learned |-> learned, ema |-> p.ema, rng |-> key, step |-> p.step + 1],
         [learned |-> learned, ema |-> p.ema \cup learned, rng |-> key, step |-> p.step + 1]}
  BY <1>4, <1>5, <1>6 DEF Policy
<1> QED
  BY <1>2, <1>3, <1>7 DEF Policy, key

(* What an update draws from, when its key is k. *)
LearnDraw(d, k) ==
  IF IsAgent THEN IF job.kind = "dsrl" THEN d[3] = Grandchild(k, 1, 1) ELSE AgentDraw(d, k)
  ELSE PolicyDraw(job.kind, d, k)

(* A gradient step of an agent draws once from each of some keys off the   *)
(* path of the agent's.                                                    *)
LEMMA AgentLearns ==
  ASSUME SaveTypes, IsAgent, CreditInv, CriticUpdate \/ FullUpdate \/ PretrainStep
  PROVE  \E draws :
           /\ OneKeyEach(draws) /\ \A d \in draws : Off(d[3], agent.rng) /\ LearnDraw(d, agent.rng)
           /\ Drawing(draws)
           /\ agent \in Agent /\ agent'.rng = Split(agent.rng, 0) /\ agent'.step = agent.step + 1
<1>1. AgentJob /\ pc \in {"act", "evaluate"}
  BY TrainingAssumption DEF SaveTypes, IsAgent, BCJob, Kinds, Trainers, AgentJob,
     CriticUpdate, FullUpdate, PretrainStep, Learning
<1>2. agent \in Agent /\ agent.rng \in Keys
  BY <1>1 DEF CreditInv, Agent, Keys
<1>3. PICK batch \in SUBSET Transition, nets \in SUBSET AllNetworks(job.kind) : LearnFrom(batch, nets)
  <2>1. SampleBatch \subseteq SUBSET Transition /\ \A d \in job.demos : {d} \in SUBSET Transition
    <3>1. job.demos \subseteq Transition
      BY <1>1 DEF AgentJob, Job
    <3> QED
      BY <3>1 DEF SampleBatch, Online
  <2>2. CriticNetworks(job.kind) \subseteq AllNetworks(job.kind)
    BY DEF CriticNetworks, AllNetworks
  <2> QED
    BY <2>1, <2>2 DEF CriticUpdate, FullUpdate, PretrainStep
<1> DEFINE draws == Update(job, agent, batch, nets).draws
           updated == Update(job, agent, batch, nets).agent
<1>4. /\ OneKeyEach(draws) /\ \A d \in draws : Off(d[3], agent.rng) /\ LearnDraw(d, agent.rng)
      /\ updated.rng = Split(agent.rng, 0) /\ updated.step = agent.step + 1
  <2>1. CASE job.kind = "dsrl"
    <3>1. Update(job, agent, batch, nets) = DSRLUpdate(job, agent, batch)
      BY <2>1 DEF Update
    <3>2. /\ OneKeyEach(DSRLUpdate(job, agent, batch).draws)
          /\ \A d \in DSRLUpdate(job, agent, batch).draws :
               Off(d[3], agent.rng) /\ LearnDraw(d, agent.rng)
      BY <1>2, <2>1, DSRLDraws DEF LearnDraw
    <3>3. DSRLUpdate(job, agent, batch).agent =
            [params |-> DSRLParams(agent, batch), target |-> DSRLTarget(agent, batch),
             actor |-> DSRLActor(agent, batch), taught |-> agent.taught,
             backbone |-> agent.backbone, targetBackbone |-> agent.targetBackbone,
             rng |-> Split(agent.rng, 0), step |-> agent.step + 1]
      BY <1>2, <2>1, DSRLUpdateIs
    <3>4. /\ DSRLUpdate(job, agent, batch).agent.rng = Split(agent.rng, 0)
          /\ DSRLUpdate(job, agent, batch).agent.step = agent.step + 1
      BY <3>3
    <3> QED
      BY <3>1, <3>2, <3>4
  <2>2. CASE job.kind # "dsrl"
    <3>1. Update(job, agent, batch, nets) = SACUpdate(job, agent, batch, nets)
      BY <2>2 DEF Update
    <3>2. /\ OneKeyEach(SACUpdate(job, agent, batch, nets).draws)
          /\ \A d \in SACUpdate(job, agent, batch, nets).draws :
               Off(d[3], agent.rng) /\ LearnDraw(d, agent.rng)
      BY <1>1, <1>2, <2>2, SACDraws DEF LearnDraw
    <3>3. SACUpdate(job, agent, batch, nets).agent =
            [params |-> SACParams(agent, batch, nets), target |-> SACTarget(agent, batch, nets),
             actor |-> SACActor(agent, batch, nets), taught |-> SACTaught(agent, nets),
             backbone |-> agent.backbone, targetBackbone |-> agent.targetBackbone,
             rng |-> Split(agent.rng, 0), step |-> agent.step + 1]
      BY <1>2, SACUpdateIs
    <3>4. /\ SACUpdate(job, agent, batch, nets).agent.rng = Split(agent.rng, 0)
          /\ SACUpdate(job, agent, batch, nets).agent.step = agent.step + 1
      BY <3>3
    <3> QED
      BY <3>1, <3>2, <3>4
  <2> QED
    BY <2>1, <2>2
<1>5. agent' = updated /\ Drawing(draws)
  BY <1>3 DEF LearnFrom
<1> HIDE DEF draws, updated
<1> QED
  BY <1>2, <1>4, <1>5

(* The keys of an agent's step are new, and each is drawn from once.       *)
LEMMA LearnKeys ==
  ASSUME SaveTypes, IsAgent, CreditInv, KeyInv, CriticUpdate \/ FullUpdate \/ PretrainStep
  PROVE  KeyInv'
<1>1. /\ job' = job /\ pc' = pc /\ pc \in {"act", "evaluate"}
      /\ UNCHANGED <<sessionRng, evalRng>>
  BY DEF CriticUpdate, FullUpdate, PretrainStep, Learning, scriptVars
<1>2. PICK draws : /\ OneKeyEach(draws) /\ \A d \in draws : Off(d[3], agent.rng)
                   /\ Drawing(draws)
                   /\ agent \in Agent /\ agent'.rng = Split(agent.rng, 0)
  BY AgentLearns
<1>3. agent.rng \in Keys /\ LearnerPath(agent.rng)
  BY <1>1, <1>2 DEF KeyInv, Agent, Keys
<1>4. \A d \in draws : d[3] \notin drawn
  BY <1>2, <1>3, LearnerKeyNew DEF KeyInv
<1>5. reused' = FALSE /\ drawn' = drawn \cup {d[3] : d \in draws}
  BY <1>2, <1>4, DrawingFresh DEF KeyInv
<1>6. \A d : LearnerKey(d, Split(agent.rng, 0)) => Drawn(d)'
  BY <1>1, <1>2 DEF Drawn, LearnerKey, LearnerStart, StartLength, IsAgent
<1>7. ASSUME NEW d \in drawn' PROVE Drawn(d)'
  <2>1. CASE d \in drawn
    <3>1. Drawn(d)
      BY <2>1 DEF KeyInv
    <3>2. LearnerKey(d, agent.rng) => LearnerKey(d, Split(agent.rng, 0))
      BY <1>3, PathsGoOn
    <3> QED
      BY <1>1, <1>6, <3>1, <3>2 DEF Drawn, SessionKey, EvalKey
  <2>2. CASE d \notin drawn
    <3>1. PICK e \in draws : d = e[3]
      BY <1>5, <2>2
    <3>2. LearnerKey(d, Split(agent.rng, 0))
      BY <1>2, <1>3, <3>1, KeysLeave
    <3> QED
      BY <1>6, <3>2
  <2> QED
    BY <2>1, <2>2
<1>8. LearnerPath(agent.rng)'
  <2>1. LearnerPath(Split(agent.rng, 0))
    BY <1>3, PathsGoOn
  <2> QED
    BY <1>1, <1>2, <2>1 DEF LearnerPath, LearnerStart, StartLength, IsAgent
<1>9. SessionPath(sessionRng)' /\ EvalPath(evalRng)'
  BY <1>1 DEF KeyInv, SessionPath, EvalPath
<1> QED
  BY <1>1, <1>5, <1>7, <1>8, <1>9 DEF KeyInv, IsAgent

(* Those of a policy's step. *)
LEMMA TrainKeys ==
  ASSUME SaveTypes, KeyInv, TrainPolicy
  PROVE  KeyInv'
<1>1. ~IsAgent /\ job' = job /\ pc = "train" /\ pc' \in {"train", "evaluate"}
      /\ UNCHANGED <<sessionRng, evalRng>>
  BY DEF TrainPolicy, SaveTypes
<1>2. job.kind \in Trainers
  BY <1>1, TrainingAssumption DEF SaveTypes, IsAgent, BCJob, Job
<1>3. agent \in Policy /\ agent.rng \in Keys /\ LearnerPath(agent.rng)
  BY <1>1 DEF KeyInv, Policy
<1>4. PICK w \in Samples(job.kind) :
        agent' = UpdatePolicy(job.kind, agent, w).policy /\ Drawing(UpdatePolicy(job.kind, agent, w).draws)
  BY DEF TrainPolicy
<1> DEFINE draws == UpdatePolicy(job.kind, agent, w).draws
<1>5. agent' \in Policy /\ agent'.rng = Split(agent.rng, 0)
  BY <1>2, <1>3, <1>4, PolicyUpdateIs
<1>6. OneKeyEach(draws) /\ (\A d \in draws : Off(d[3], agent.rng)) /\ Drawing(draws)
  BY <1>3, <1>4, PolicyUpdateDraws
<1> HIDE DEF draws
<1>7. \A d \in draws : d[3] \notin drawn
  BY <1>3, <1>6, LearnerKeyNew DEF KeyInv
<1>8. reused' = FALSE /\ drawn' = drawn \cup {d[3] : d \in draws}
  BY <1>6, <1>7, DrawingFresh DEF KeyInv
<1>9. \A d : LearnerKey(d, Split(agent.rng, 0)) => Drawn(d)'
  BY <1>1, <1>5 DEF Drawn, LearnerKey, LearnerStart, StartLength, IsAgent
<1>10. ASSUME NEW d \in drawn' PROVE Drawn(d)'
  <2>1. CASE d \in drawn
    <3>1. Drawn(d)
      BY <2>1 DEF KeyInv
    <3>2. LearnerKey(d, agent.rng) => LearnerKey(d, Split(agent.rng, 0))
      BY <1>3, PathsGoOn
    <3> QED
      BY <1>1, <1>9, <3>1, <3>2 DEF Drawn, SessionKey, EvalKey
  <2>2. CASE d \notin drawn
    <3>1. PICK e \in draws : d = e[3]
      BY <1>8, <2>2
    <3>2. LearnerKey(d, Split(agent.rng, 0))
      BY <1>3, <1>6, <3>1, KeysLeave
    <3> QED
      BY <1>9, <3>2
  <2> QED
    BY <2>1, <2>2
<1>11. LearnerPath(agent.rng)'
  <2>1. LearnerPath(Split(agent.rng, 0))
    BY <1>3, PathsGoOn
  <2> QED
    BY <1>1, <1>5, <2>1 DEF LearnerPath, LearnerStart, StartLength, IsAgent
<1>12. SessionPath(sessionRng)' /\ EvalPath(evalRng)'
  BY <1>1 DEF KeyInv, SessionPath, EvalPath
<1> QED
  BY <1>1, <1>5, <1>8, <1>10, <1>11, <1>12 DEF KeyInv, IsAgent

(* Those of an action, and of an actor's evaluation. *)
LEMMA ActionKeys ==
  ASSUME SaveTypes, IsAgent, KeyInv, Act \/ Evaluate
  PROVE  KeyInv'
<1>1. /\ job' = job /\ agent' = agent /\ evalRng' = evalRng
      /\ pc \in {"act", "evaluate"} /\ pc' \in {"act", "evaluate"}
      /\ NextKey
  BY DEF Act, Evaluate, learnVars
<1>2. /\ SessionPath(sessionRng) /\ sessionRng \in Keys
      /\ sessionRng' = Split(sessionRng, 0)
      /\ Drawing(ActionDraws(job, Split(sessionRng, 1)))
  BY <1>1 DEF KeyInv, SessionPath, NextKey
<1>3. job.kind \in Kinds
  BY DEF IsAgent
<1>4. PICK key \in {Split(sessionRng, 1), Grandchild(sessionRng, 1, 0)} :
        ActionDraws(job, Split(sessionRng, 1)) = Draw("action", 0, key)
  BY <1>3 DEF ActionDraws, Kinds, SACSampleActions, SACSampleBestOfN, ResidualSampleActions,
     DSRLSampleBestOfN, Grandchild
<1>5. /\ key \notin drawn
      /\ key \in Keys /\ key[1] = 10 /\ Len(key) > Len(sessionRng)
      /\ key[Len(sessionRng) + 1] = 1
      /\ \A q \in 2 .. Len(key) : q # Len(sessionRng) + 1 => key[q] = 0
  BY <1>2, ActionKeyNew DEF ActionKey, KeyInv
<1>6. reused' = FALSE /\ drawn' = drawn \cup {key}
  <2> DEFINE draws == Draw("action", 0, key)
  <2>1. OneKeyEach(draws) /\ (\A d \in draws : d[3] \notin drawn) /\ Drawing(draws)
    BY <1>2, <1>4, <1>5, OneDraw
  <2>2. {d[3] : d \in draws} = {key}
    BY DEF Draw
  <2> HIDE DEF draws
  <2> QED
    BY <2>1, <2>2, DrawingFresh DEF KeyInv
<1>7. SessionKey(key, Split(sessionRng, 0))
  <2>1. Len(Split(sessionRng, 0)) = Len(sessionRng) + 1 /\ Len(sessionRng) \in Nat
        /\ Len(sessionRng) >= 1 /\ Len(key) \in Nat
    BY <1>2, <1>5 DEF SessionPath, Keys, Split
  <2> QED
    BY <1>5, <2>1 DEF SessionKey
<1>8. ASSUME NEW d \in drawn' PROVE Drawn(d)'
  <2>1. SessionKey(d, sessionRng) => SessionKey(d, Split(sessionRng, 0))
    BY <1>2, PathsGoOn
  <2>2. d \in drawn => Drawn(d)
    BY DEF KeyInv
  <2>3. \/ SessionKey(d, Split(sessionRng, 0)) \/ EvalKey(d, evalRng)
        \/ LearnerKey(d, agent.rng) \/ d = InitKey
    BY <1>6, <1>7, <2>1, <2>2 DEF Drawn
  <2> QED
    BY <1>1, <1>2, <2>3 DEF Drawn, SessionKey, EvalKey, LearnerKey, LearnerStart, StartLength, IsAgent
<1>9. LearnerPath(agent.rng)' /\ SessionPath(sessionRng)' /\ EvalPath(evalRng)'
  <2>1. SessionPath(Split(sessionRng, 0))
    BY <1>2, PathsGoOn
  <2> QED
    BY <1>1, <1>2, <2>1
       DEF KeyInv, SessionPath, EvalPath, LearnerPath, LearnerStart, StartLength, IsAgent
<1> QED
  BY <1>1, <1>6, <1>8, <1>9 DEF KeyInv, IsAgent

(* And those of a trainer's evaluation.                                    *)
LEMMA EvaluationKeys ==
  ASSUME SaveTypes, KeyInv, EvaluatePolicy
  PROVE  KeyInv'
<1>1. /\ ~IsAgent /\ job' = job /\ agent' = agent /\ sessionRng' = sessionRng
      /\ pc = "evaluate" /\ pc' = "train"
  BY DEF EvaluatePolicy, learnVars
<1>2. CASE job.kind = "dp"
  <2>1. UNCHANGED <<evalRng, drawn, reused>>
    BY <1>2 DEF EvaluatePolicy
  <2> QED
    BY <1>1, <2>1 DEF KeyInv, Drawn, SessionKey, EvalKey, LearnerKey, LearnerStart, StartLength,
       IsAgent, SessionPath, EvalPath, LearnerPath, Policy
<1>3. CASE job.kind # "dp"
  <2>1. /\ EvalPath(evalRng) /\ evalRng \in Keys
        /\ evalRng' = Split(evalRng, 0) /\ Drawing(EvaluationDraws(evalRng))
    BY <1>3 DEF EvaluatePolicy, KeyInv, EvalPath
  <2> DEFINE one == Grandchild(evalRng, 1, 1)
             two == Grandchild(evalRng, 2, 1)
             draws == {<<"ema", 0, one>>, <<"online", 0, two>>}
  <2>2. EvaluationDraws(evalRng) = draws
    BY DEF EvaluationDraws, ColdRolloutDraws, SampleChunkDraws, Draw, Grandchild
  <2>3. Off(one, evalRng) /\ Off(two, evalRng) /\ one # two
    BY <2>1, OffDescendants, Descendants
  <2> HIDE DEF one, two
  <2>5. OneKeyEach(draws) /\ \A d \in draws : Off(d[3], evalRng)
    BY <2>3 DEF OneKeyEach
  <2> HIDE DEF draws
  <2>6. \A d \in draws : d[3] \notin drawn
    BY <2>1, <2>5, EvalKeyNew DEF KeyInv
  <2>7. reused' = FALSE /\ drawn' = drawn \cup {d[3] : d \in draws}
    BY <2>1, <2>2, <2>5, <2>6, DrawingFresh DEF KeyInv
  <2>8. ASSUME NEW d \in drawn' PROVE Drawn(d)'
    <3>1. d \in drawn => Drawn(d)
      BY DEF KeyInv
    <3>2. EvalKey(d, evalRng) => EvalKey(d, Split(evalRng, 0))
      BY <2>1, PathsGoOn
    <3>3. d \notin drawn => EvalKey(d, Split(evalRng, 0))
      BY <2>1, <2>5, <2>7, KeysLeave
    <3>4. \/ SessionKey(d, sessionRng) \/ EvalKey(d, Split(evalRng, 0))
          \/ LearnerKey(d, agent.rng) \/ d = InitKey
      BY <3>1, <3>2, <3>3 DEF Drawn
    <3> QED
      BY <1>1, <2>1, <3>4 DEF Drawn, SessionKey, EvalKey, LearnerKey, LearnerStart, StartLength, IsAgent
  <2>9. LearnerPath(agent.rng)' /\ SessionPath(sessionRng)' /\ EvalPath(evalRng)'
    <3>1. EvalPath(Split(evalRng, 0))
      BY <2>1, PathsGoOn
    <3> QED
      BY <1>1, <2>1, <3>1
         DEF KeyInv, SessionPath, EvalPath, LearnerPath, LearnerStart, StartLength, IsAgent
  <2> QED
    BY <1>1, <2>7, <2>8, <2>9 DEF KeyInv, IsAgent
<1> QED
  BY <1>2, <1>3

(* The first keys of the two roots, and of a new agent and a new policy.   *)
LEMMA FirstKeys ==
  /\ SessionPath(Root(0)) /\ EvalPath(Root(1))
  /\ AgentJob => /\ CreateAgent(job, 0).rng = StateKey(Root(0))
                 /\ CreateAgent(job, 0).step = 0
  /\ IsAgent => LearnerPath(StateKey(Root(0)))
  /\ \A t : /\ CreatePolicy(t, 0) \in Policy /\ CreatePolicy(t, 0).step = 0
            /\ ~IsAgent => LearnerPath(CreatePolicy(t, 0).rng)
<1>1. Root(0) = <<10>> /\ Root(1) = <<11>>
  <2>1. 10 + 0 = 10 /\ 10 + 1 = 11
    OBVIOUS
  <2> QED
    BY <2>1, Zenon DEF Root
<1>2. SessionPath(Root(0)) /\ EvalPath(Root(1))
  <2>1. \A n \in Nat : <<n>> \in Keys /\ Len(<<n>>) = 1 /\ <<n>>[1] = n
    BY DEF Keys
  <2>2. \A p \in 2 .. 1 : FALSE
    OBVIOUS
  <2> QED
    BY <1>1, <2>1, <2>2 DEF SessionPath, EvalPath
<1> DEFINE root == Root(0)
<1>3. root \in Keys /\ Len(root) = 1 /\ root[1] = 10
  <2>1. \A n \in Nat : <<n>> \in Keys /\ Len(<<n>>) = 1 /\ <<n>>[1] = n
    BY DEF Keys
  <2> QED
    BY <1>1, <2>1
<1> HIDE DEF root
<1>4. \A i \in Nat : /\ Split(root, i) \in Keys /\ Len(Split(root, i)) = 2
                     /\ Split(root, i)[1] = 10 /\ Split(root, i)[2] = i
  <2> SUFFICES ASSUME NEW i \in Nat
               PROVE  /\ Split(root, i) \in Keys /\ Len(Split(root, i)) = 2
                      /\ Split(root, i)[1] = 10 /\ Split(root, i)[2] = i
    OBVIOUS
  <2>1. /\ Split(root, i) \in Keys /\ Len(Split(root, i)) = 2
        /\ Split(root, i)[1] = root[1]
        /\ Split(root, i)[Len(root) + 1] = i
    <3> DEFINE c == Split(root, i)
    <3>1. /\ c \in Keys /\ Len(c) = Len(root) + 1
          /\ \A p \in 1 .. Len(root) : c[p] = root[p]
          /\ c[Len(root) + 1] = i
      BY <1>3, ChildIs
    <3> HIDE DEF c
    <3>2. c[1] = root[1] /\ Len(c) = 2
      BY <1>3, <3>1
    <3> QED
      BY <3>1, <3>2 DEF c
  <2> QED
    BY <1>3, <2>1
<1>5. IsAgent => LearnerPath(StateKey(Root(0)))
  <2> DEFINE k == StateKey(root)
             l == Split(root, 0)
  <2>1. l \in Keys /\ Len(l) = 2 /\ l[1] = 10 /\ l[2] = 0 /\ k = Split(l, 1)
    BY <1>4 DEF StateKey
  <2> HIDE DEF k, l
  <2>2. k \in Keys /\ Len(k) = 3 /\ k[1] = 10 /\ k[2] = 0 /\ k[3] = 1
    <3>1. /\ k \in Keys /\ Len(k) = 3
          /\ k[1] = l[1] /\ k[2] = l[2] /\ k[Len(l) + 1] = 1
      <4>1. /\ k \in Keys /\ Len(k) = Len(l) + 1
            /\ \A p \in 1 .. Len(l) : k[p] = l[p]
            /\ k[Len(l) + 1] = 1
        BY <2>1, ChildIs
      <4> QED
        BY <2>1, <4>1
    <3> QED
      BY <2>1, <3>1
  <2>3. \A p \in 3 + 1 .. 3 : FALSE
    OBVIOUS
  <2> QED
    BY <2>2, <2>3 DEF LearnerPath, LearnerStart, StartLength, k, root
<1>6. \A t : CreatePolicy(t, 0) = [learned |-> {}, ema |-> {}, rng |-> Split(root, 2), step |-> 0]
  BY DEF CreatePolicy, DPCreate, FlowCreate, root
<1>7. Split(root, 2) \in Keys /\ (~IsAgent => LearnerPath(Split(root, 2)))
  <2> DEFINE k == Split(root, 2)
  <2>1. k \in Keys /\ Len(k) = 2 /\ k[1] = 10 /\ k[2] = 2
    BY <1>4
  <2>2. \A p \in 2 + 1 .. 2 : FALSE
    OBVIOUS
  <2> HIDE DEF k
  <2>3. k \in Keys /\ (~IsAgent => LearnerPath(k))
    BY <2>1, <2>2 DEF LearnerPath, LearnerStart, StartLength
  <2> QED
    BY <2>3 DEF k
<1>8. ASSUME NEW t
      PROVE  /\ CreatePolicy(t, 0) \in Policy /\ CreatePolicy(t, 0).step = 0
             /\ ~IsAgent => LearnerPath(CreatePolicy(t, 0).rng)
  BY <1>6, <1>7 DEF Policy
<1>9. ASSUME AgentJob
      PROVE  CreateAgent(job, 0).rng = StateKey(Root(0)) /\ CreateAgent(job, 0).step = 0
  <2> DEFINE blank == Blank(job, StateKey(Root(0)))
  <2>1. blank.rng = StateKey(Root(0)) /\ blank.step = 0
    BY DEF Blank
  <2>2. CreateAgent(job, 0) \in {blank, LoadResnet10(blank)}
    BY <1>9 DEF CreateAgent, AgentJob, Job, Kinds, MakeSacStateAgent, MakeSacPixelAgent,
       MakeResidualSacPixelAgent, QOILCreatePixels, DSRLCreate, SACCreatePixels, SACCreate,
       ResidualCreatePixels, ResidualCreate
  <2>3. LoadResnet10(blank).rng = blank.rng /\ LoadResnet10(blank).step = blank.step
    BY DEF LoadResnet10, Blank
  <2> HIDE DEF blank
  <2> QED
    BY <2>1, <2>2, <2>3
<1> QED
  BY <1>2, <1>5, <1>8, <1>9

(* The invariant of the keys holds. *)
LEMMA KeyInvariant == Spec => []KeyInv
<1>1. Init => KeyInv
  BY FirstKeys DEF Init, KeyInv
<1>2. SaveTypes /\ CreditInv /\ KeyInv /\ [Next]_vars => KeyInv'
  <2> SUFFICES ASSUME SaveTypes, CreditInv, KeyInv, [Next]_vars PROVE KeyInv'
    OBVIOUS
  <2> USE DEF scriptVars, learnVars, keyVars
  <2>1. CASE CriticUpdate \/ FullUpdate \/ PretrainStep
    BY <2>1, LearnKeys DEF CriticUpdate, FullUpdate, PretrainStep, Learning
  <2>2. CASE Act \/ Evaluate
    <3>1. IsAgent
      BY <2>2 DEF Act, Evaluate, SaveTypes
    <3> QED
      BY <2>2, <3>1, ActionKeys
  <2>3. CASE TrainPolicy
    BY <2>3, TrainKeys
  <2>4. CASE EvaluatePolicy
    BY <2>4, EvaluationKeys
  <2>5. ASSUME UNCHANGED <<job, sessionRng, evalRng, drawn, reused>>,
               drawn = {} \/ UNCHANGED agent,
               pc' \in {"start", "download"} => drawn = {},
               pc' \in {"act", "evaluate", "train", "end"} => LearnerPath(agent'.rng),
               ~IsAgent /\ pc' \in {"train", "evaluate", "end"} => agent' \in Policy
        PROVE  KeyInv'
    <3>1. (agent.rng)' = agent'.rng
      OBVIOUS
    <3>2. LearnerPath(agent'.rng) => LearnerPath(agent.rng)'
      BY <2>5 DEF LearnerPath, LearnerStart, StartLength, IsAgent
    <3>3. \A d \in drawn : Drawn(d) => Drawn(d)'
      BY <2>5 DEF Drawn, SessionKey, EvalKey, LearnerKey, LearnerStart, StartLength, IsAgent
    <3>4. SessionPath(sessionRng)' /\ EvalPath(evalRng)'
      BY <2>5 DEF KeyInv, SessionPath, EvalPath
    <3> QED
      BY <2>5, <3>2, <3>3, <3>4 DEF KeyInv, IsAgent, Policy
  <2>6. CASE DownloadWeights \/ Downloaded \/ WeightsUnreadable
    BY <2>5, <2>6 DEF DownloadWeights, Downloaded, WeightsUnreadable, KeyInv
  <2>a. ASSUME pc = "start", UNCHANGED <<job, sessionRng, evalRng>>, Drawing(InitDraws(Root(0))),
               pc' \in {"act", "train"}, LearnerPath(agent'.rng),
               ~IsAgent => agent' \in Policy
        PROVE  KeyInv'
    <3>1. drawn = {} /\ reused = FALSE
      BY <2>a DEF KeyInv
    <3> DEFINE draws == InitDraws(Root(0))
    <3>2. OneKeyEach(draws) /\ \A d \in draws : d[3] = InitKey
      BY OneDraw DEF InitDraws, InitKey
    <3>3. Drawing(draws)
      BY <2>a
    <3> HIDE DEF draws
    <3>4. reused' = FALSE /\ \A d \in drawn' : d = InitKey
      BY <3>1, <3>2, <3>3, DrawingFresh
    <3>5. (agent.rng)' = agent'.rng
      OBVIOUS
    <3>6. LearnerPath(agent.rng)'
      BY <2>a, <3>5 DEF LearnerPath, LearnerStart, StartLength, IsAgent
    <3>7. \A d \in drawn' : Drawn(d)'
      BY <3>4 DEF Drawn
    <3>8. SessionPath(sessionRng)' /\ EvalPath(evalRng)'
      BY <2>a DEF KeyInv, SessionPath, EvalPath
    <3> QED
      BY <2>a, <3>4, <3>6, <3>7, <3>8 DEF KeyInv, IsAgent, Policy
  <2>7. CASE StartSession
    <3>1. AgentJob /\ IsAgent
      BY <2>7, TrainingAssumption
         DEF StartSession, SaveTypes, IsAgent, BCJob, Kinds, Trainers, AgentJob
    <3>2. LearnerPath(agent'.rng)
      BY <2>7, <3>1, FirstKeys DEF StartSession
    <3> QED
      BY <2>a, <2>7, <3>1, <3>2 DEF StartSession
  <2>8. CASE StartPolicy
    <3>1. ~IsAgent /\ agent' \in Policy /\ LearnerPath(agent'.rng)
      BY <2>8, FirstKeys DEF StartPolicy
    <3> QED
      BY <2>a, <2>8, <3>1 DEF StartPolicy
  <2>9. CASE Finish
    BY <2>5, <2>9 DEF Finish, KeyInv, SaveTypes
  <2>10. CASE OpenFile \/ Dump \/ Replace \/ SkipSave \/ UNCHANGED vars
    BY <2>5, <2>10 DEF OpenFile, Dump, Replace, SkipSave, vars, KeyInv
  <2>11. CASE Crash
    BY <2>5, <2>11 DEF Crash, KeyInv
  <2>12. CASE Restart
    <3>1. /\ sessionRng' = Root(0) /\ evalRng' = Root(1) /\ drawn' = {} /\ reused' = FALSE
          /\ pc' = "start"
      BY <2>12 DEF Restart
    <3>2. SessionPath(sessionRng)' /\ EvalPath(evalRng)'
      BY <3>1, FirstKeys DEF SessionPath, EvalPath
    <3> QED
      BY <3>1, <3>2 DEF KeyInv
  <2> QED
    BY <2>1, <2>2, <2>3, <2>4, <2>6, <2>7, <2>8, <2>9, <2>10, <2>11, <2>12 DEF Next
<1> QED
  BY <1>1, <1>2, SaveTypesInvariant, CreditInvariant, PTL DEF Spec

(***************************************************************************)
(* No two draws of a run use the same key, in the initial weights, the     *)
(* losses, the crops, the dropout, the actions of the policy or the        *)
(* evaluations, for any number of updates, actions, evaluations and        *)
(* restarts, but for the crops of one frame in the two cameras             *)
(* (launcher.py data_augmentation_fn).                                     *)
(***************************************************************************)
THEOREM DrawKeysDistinctCorrect == Spec => []DrawKeysDistinct
<1>1. KeyInv => DrawKeysDistinct
  BY DEF KeyInv, DrawKeysDistinct
<1> QED
  BY <1>1, KeyInvariant, PTL

-------------------------------------------------------------------------------
(* Keys that were drawn from are not split *)

(* A key that follows a path from entry s on leaves it with entry n.       *)
LeavesAt(d, s, n) == /\ n \in s + 1 .. Len(d) /\ d[n] # 0
                     /\ \A p \in s + 1 .. n - 1 : d[p] = 0

(* What follows when an update splits its key, entry n being the first.    *)
AgentTail(d, n) ==
  \/ Len(d) = n + 1 /\ d[n] = 1 /\ d[n + 1] = 2
  \/ Len(d) = n + 1 /\ d[n] # 1 /\ d[n + 1] = 1
  \/ Len(d) = n + 2 /\ d[n + 1] = 1 /\ d[n + 2] = 9
  \/ Len(d) = n + 2 /\ d[n + 1] = 0
  \/ Len(d) = n + 2 /\ d[n] = 1 /\ d[n + 1] \in 1 .. 2 /\ d[n + 2] \in 0 .. 1
DPTail(d, n) == \/ Len(d) = n + 1 /\ d[n + 1] \in 0 .. 1
                \/ Len(d) = n + 2 /\ d[n + 1] = 2
FlowTail(d, n) == \/ Len(d) = n + 1 /\ d[n] = 1
                  \/ Len(d) = n + 2 /\ d[n] = 2 /\ d[n + 1] = 1
                  \/ Len(d) = n + 3 /\ d[n] = 2 /\ d[n + 1] = 0
UpdateTail(d, n) ==
  IF IsAgent THEN IF job.kind = "dsrl" THEN Len(d) = n + 1 ELSE AgentTail(d, n)
  ELSE IF job.kind = "dp" THEN DPTail(d, n) ELSE FlowTail(d, n)

ActionTail == IF job.kind = "sac" /\ job.encoder # "none" THEN 1 ELSE 0

SessionForm(d) ==
  /\ IsAgent /\ d \in Keys /\ d[1] = 10
  /\ \E n : LeavesAt(d, 1, n) /\ d[n] = 1 /\ Len(d) = n + ActionTail
            /\ \A p \in n + 1 .. Len(d) : d[p] = 0
EvalForm(d) == d \in Keys /\ d[1] = 11 /\ \E n : LeavesAt(d, 1, n) /\ Len(d) = n + 1
LearnerForm(d) == LearnerStart(d) /\ \E n : LeavesAt(d, StartLength, n) /\ UpdateTail(d, n)
Formed(d) == SessionForm(d) \/ EvalForm(d) \/ LearnerForm(d) \/ d = InitKey

(***************************************************************************)
(* Every key that was drawn from left its path in one of the ways in which *)
(* the code splits keys: the tails tell which of them can be split from    *)
(* which.                                                                  *)
(***************************************************************************)
FormInv == \A d \in drawn : Formed(d)

(* Descendants, entry by entry: the entries behind those of k.             *)
Goes2(g, k, i, x) ==
  /\ g \in Keys /\ Len(g) = Len(k) + 2 /\ \A p \in 1 .. Len(k) : g[p] = k[p]
  /\ g[Len(k) + 1] = i /\ g[Len(k) + 2] = x
Goes3(g, k, i, x, y) ==
  /\ g \in Keys /\ Len(g) = Len(k) + 3
  /\ g[Len(k) + 1] = i /\ g[Len(k) + 2] = x /\ g[Len(k) + 3] = y

(* A grandchild has two of them ... *)
LEMMA GrandchildIs ==
  ASSUME NEW k \in Keys, NEW i \in Nat, NEW x \in Nat
  PROVE  Goes2(Grandchild(k, i, x), k, i, x)
<1> DEFINE a == Split(k, i)
           b == Split(a, x)
<1>1. Len(k) \in Nat
  BY DEF Keys
<1>2. /\ a \in Keys /\ Len(a) = Len(k) + 1
      /\ \A p \in 1 .. Len(k) : a[p] = k[p]
      /\ a[Len(k) + 1] = i
  BY ChildIs
<1> HIDE DEF a
<1>3. /\ b \in Keys /\ Len(b) = Len(a) + 1
      /\ \A p \in 1 .. Len(a) : b[p] = a[p]
      /\ b[Len(a) + 1] = x
  BY <1>2, ChildIs
<1>4. Grandchild(k, i, x) = b
  BY DEF Grandchild, a
<1> HIDE DEF b
<1>5. /\ Len(b) = Len(k) + 2 /\ (\A p \in 1 .. Len(k) : b[p] = k[p])
      /\ b[Len(k) + 1] = i /\ b[Len(k) + 2] = x
  BY <1>1, <1>2, <1>3
<1> QED
  BY <1>3, <1>4, <1>5 DEF Goes2

(* ... and a great-grandchild three. *)
LEMMA GreatGrandchildIs ==
  ASSUME NEW k \in Keys, NEW i \in Nat, NEW x \in Nat, NEW y \in Nat
  PROVE  Goes3(GreatGrandchild(k, i, x, y), k, i, x, y)
<1> DEFINE b == Grandchild(k, i, x)
           c == Split(b, y)
<1>1. Len(k) \in Nat
  BY DEF Keys
<1>2. Goes2(b, k, i, x)
  BY GrandchildIs
<1> HIDE DEF b
<1>3. /\ b \in Keys /\ Len(b) = Len(k) + 2
      /\ b[Len(k) + 1] = i /\ b[Len(k) + 2] = x
  BY <1>2 DEF Goes2
<1>4. /\ c \in Keys /\ Len(c) = Len(b) + 1
      /\ \A p \in 1 .. Len(b) : c[p] = b[p]
      /\ c[Len(b) + 1] = y
  BY <1>3, ChildIs
<1>5. GreatGrandchild(k, i, x, y) = c
  BY DEF GreatGrandchild, b
<1> HIDE DEF c
<1>6. /\ Len(c) = Len(k) + 3
      /\ c[Len(k) + 1] = i /\ c[Len(k) + 2] = x /\ c[Len(k) + 3] = y
  BY <1>1, <1>3, <1>4
<1> QED
  BY <1>4, <1>5, <1>6 DEF Goes3

(* A strict prefix is shorter, and a child is its parent's extension.      *)
LEMMA PrefixIs ==
  ASSUME NEW k \in Keys, NEW l \in Keys, IsStrictPrefix(k, l)
  PROVE  /\ Len(k) \in Nat /\ Len(l) \in Nat /\ Len(k) < Len(l)
         /\ \A p \in 1 .. Len(k) : k[p] = l[p]
         /\ Len(l) = Len(k) + 1 => l = Split(k, l[Len(l)])
<1>1. Len(k) \in Nat /\ Len(l) \in Nat
  BY DEF Keys
<1>2. (\A p \in 1 .. Len(k) : k[p] \in Nat) /\ (\A p \in 1 .. Len(l) : l[p] \in Nat)
  BY DEF Keys
<1>3. Len(k) <= Len(l) /\ SubSeq(k, 1, Len(k)) = SubSeq(l, 1, Len(k)) /\ k # l
  BY DEF IsStrictPrefix, IsPrefix
<1>4. ASSUME NEW p \in 1 .. Len(k) PROVE k[p] = l[p]
  <2>1. /\ \A q \in 1 .. Len(k) - 1 + 1 : SubSeq(k, 1, Len(k))[q] = k[1 + q - 1]
        /\ \A q \in 1 .. Len(k) - 1 + 1 : SubSeq(l, 1, Len(k))[q] = l[1 + q - 1]
    <3>1. 1 \in Int /\ Len(k) \in Int /\ (\A q \in 1 .. Len(k) : k[q] \in Nat)
          /\ (\A q \in 1 .. Len(k) : l[q] \in Nat)
      BY <1>1, <1>2, <1>3
    <3> QED
      BY <3>1, SubSeqProperties
  <2>2. p \in 1 .. Len(k) - 1 + 1 /\ 1 + p - 1 = p
    BY <1>1
  <2>3. SubSeq(k, 1, Len(k))[p] = k[p] /\ SubSeq(l, 1, Len(k))[p] = l[p]
    BY <2>1, <2>2
  <2> QED
    BY <1>3, <2>3
<1>5. Len(k) # Len(l)
  <2> SUFFICES ASSUME Len(k) = Len(l) PROVE FALSE
    OBVIOUS
  <2>1. k = l
    BY <1>4, SeqEqual DEF Keys
  <2> QED
    BY <1>3, <2>1
<1>6. ASSUME Len(l) = Len(k) + 1 PROVE l = Split(k, l[Len(l)])
  <2> DEFINE c == Split(k, l[Len(l)])
  <2>1. l[Len(l)] \in Nat
    BY <1>1, <1>2, <1>6
  <2>2. /\ c \in Keys /\ Len(c) = Len(k) + 1
        /\ \A p \in 1 .. Len(k) : c[p] = k[p]
        /\ c[Len(k) + 1] = l[Len(l)]
    BY <2>1, ChildIs
  <2> HIDE DEF c
  <2>3. \A p \in 1 .. Len(l) : l[p] = c[p]
    BY <1>1, <1>4, <1>6, <2>2
  <2>4. l = c
    BY <1>6, <2>2, <2>3, SeqEqual DEF Keys
  <2> QED
    BY <2>4 DEF c
<1> QED
  BY <1>1, <1>3, <1>4, <1>5, <1>6

(* A key and one split from it left their path with the same entry.        *)
LEMMA SameTurn ==
  ASSUME NEW k \in Keys, NEW l \in Keys, IsStrictPrefix(k, l), NEW s \in Nat, NEW n, NEW m,
         LeavesAt(k, s, n), LeavesAt(l, s, m)
  PROVE  n = m /\ n \in Nat /\ n \in s + 1 .. Len(k) /\ n <= Len(k) /\ Len(k) < Len(l)
<1>1. /\ Len(k) \in Nat /\ Len(l) \in Nat /\ Len(k) < Len(l)
      /\ \A p \in 1 .. Len(k) : k[p] = l[p]
  BY PrefixIs
<1>2. /\ n \in s + 1 .. Len(k) /\ k[n] # 0 /\ \A p \in s + 1 .. n - 1 : k[p] = 0
      /\ m \in s + 1 .. Len(l) /\ l[m] # 0 /\ \A p \in s + 1 .. m - 1 : l[p] = 0
  BY DEF LeavesAt
<1>3. ~ n < m
  BY <1>1, <1>2
<1>4. ~ m < n
  BY <1>1, <1>2
<1> QED
  BY <1>1, <1>2, <1>3, <1>4

(* A key off a path leaves it with the entry behind the path.              *)
LEMMA OffLeaves ==
  ASSUME NEW u \in Keys, NEW key, Off(key, u), NEW s \in Nat, s <= Len(u),
         \A p \in s + 1 .. Len(u) : u[p] = 0
  PROVE  LeavesAt(key, s, Len(u) + 1)
<1>1. /\ Len(u) \in Nat /\ Len(key) \in Nat /\ Len(key) > Len(u)
      /\ \A p \in 1 .. Len(u) : key[p] = u[p]
      /\ key[Len(u) + 1] # 0
  BY DEF Off, Keys
<1> QED
  BY <1>1 DEF LeavesAt

(* The keys of an update, and how they leave the learner's path.           *)
LEMMA LearnerForms ==
  ASSUME NEW u, LearnerPath(u), NEW d, Off(d[3], u), LearnDraw(d, u)
  PROVE  LearnerForm(d[3])
<1> DEFINE key == d[3]
           n == Len(u) + 1
<1>1. u \in Keys /\ Len(u) \in Nat
  BY DEF LearnerPath, LearnerStart, Keys
<1>2. LearnerStart(key)
  BY <1>1, KeysLeave DEF LearnerKey
<1>3. LeavesAt(key, StartLength, n)
  <2>1. StartLength \in Nat /\ StartLength <= Len(u) /\ \A p \in StartLength + 1 .. Len(u) : u[p] = 0
    BY <1>1 DEF LearnerPath, LearnerStart, StartLength
  <2> QED
    BY <1>1, <2>1, OffLeaves
<1>4. ASSUME NEW i \in Nat, NEW x \in Nat
      PROVE  /\ Len(Grandchild(u, i, x)) = n + 1
             /\ Grandchild(u, i, x)[n] = i /\ Grandchild(u, i, x)[n + 1] = x
  <2> DEFINE g == Grandchild(u, i, x)
  <2>1. Goes2(g, u, i, x)
    BY <1>1, GrandchildIs
  <2> HIDE DEF g
  <2>2. Len(g) = n + 1 /\ g[n] = i /\ g[n + 1] = x
    BY <1>1, <2>1 DEF Goes2
  <2> QED
    BY <2>2 DEF g
<1>5. ASSUME NEW i \in Nat, NEW x \in Nat, NEW y \in Nat
      PROVE  /\ GreatGrandchild(u, i, x, y) \in Keys /\ Len(GreatGrandchild(u, i, x, y)) = n + 2
             /\ GreatGrandchild(u, i, x, y)[n] = i
             /\ GreatGrandchild(u, i, x, y)[n + 1] = x
             /\ GreatGrandchild(u, i, x, y)[n + 2] = y
  <2> DEFINE g == GreatGrandchild(u, i, x, y)
  <2>1. Goes3(g, u, i, x, y)
    BY <1>1, GreatGrandchildIs
  <2> HIDE DEF g
  <2>2. g \in Keys /\ Len(g) = n + 2 /\ g[n] = i /\ g[n + 1] = x /\ g[n + 2] = y
    BY <1>1, <2>1 DEF Goes3
  <2> QED
    BY <2>2 DEF g
<1>6. ASSUME NEW f \in Nat
      PROVE  Len(Deep(u, f)) = n + 3 /\ Deep(u, f)[n] = 2 /\ Deep(u, f)[n + 1] = 0
  <2> DEFINE g == GreatGrandchild(u, 2, 0, 1)
             h == Split(g, f)
  <2>1. g \in Keys /\ Len(g) = n + 2 /\ g[n] = 2 /\ g[n + 1] = 0
    BY <1>5
  <2> HIDE DEF g
  <2>2. Len(h) = Len(g) + 1 /\ \A p \in 1 .. Len(g) : h[p] = g[p]
    BY <2>1, ChildIs
  <2> HIDE DEF h
  <2>3. Len(h) = n + 3 /\ h[n] = 2 /\ h[n + 1] = 0
    BY <1>1, <2>1, <2>2
  <2> QED
    BY <2>3 DEF Deep, g, h
<1> HIDE DEF n
<1>7. n \in Nat /\ n + 1 \in Nat
  BY <1>1 DEF n
<1>8. UpdateTail(key, n)
  <2>1. CASE IsAgent /\ job.kind = "dsrl"
    <3>1. key = Grandchild(u, 1, 1)
      BY <2>1 DEF LearnDraw
    <3> QED
      BY <1>4, <2>1, <3>1 DEF UpdateTail
  <2>2. CASE IsAgent /\ job.kind # "dsrl"
    <3>1. AgentDraw(d, u)
      BY <2>2 DEF LearnDraw
    <3>2. ASSUME LossDraw(d, u) PROVE AgentTail(key, n)
      <4>1. key = Grandchild(u, 1, 2) \/ \E i \in 2 .. 4 : key = Grandchild(u, i, 1)
        BY <3>2 DEF LossDraw
      <4> QED
        BY <1>4, <4>1 DEF AgentTail
    <3>3. ASSUME LossDropout(d, u) PROVE AgentTail(key, n)
      <4>1. \E i \in 1 .. 4 : key = GreatGrandchild(u, i, 1, 9)
        BY <3>3 DEF LossDropout
      <4> QED
        BY <1>5, <4>1 DEF AgentTail
    <3>4. ASSUME LossSubsample(d, u) PROVE AgentTail(key, n)
      <4>1. \E i \in 1 .. 4 : key = GreatGrandchild(u, i, 0, 1)
        BY <3>4 DEF LossSubsample
      <4> QED
        BY <1>5, <4>1 DEF AgentTail
    <3>5. ASSUME CropDraw(d, u) PROVE AgentTail(key, n)
      <4>1. \E x \in 1 .. 2, f \in 0 .. 1 : key = GreatGrandchild(u, 1, x, f)
        BY <3>5 DEF CropDraw, ObsCrop, NextObsCrop
      <4> QED
        BY <1>5, <4>1 DEF AgentTail
    <3> QED
      BY <2>2, <3>1, <3>2, <3>3, <3>4, <3>5 DEF AgentDraw, UpdateTail
  <2>3. CASE ~IsAgent /\ job.kind = "dp"
    <3>1. key \in {Grandchild(u, 1, 0), Grandchild(u, 1, 1), GreatGrandchild(u, 1, 2, 9)}
      BY <2>3 DEF LearnDraw, PolicyDraw, DPDraw
    <3> QED
      BY <1>4, <1>5, <2>3, <3>1 DEF UpdateTail, DPTail
  <2>4. CASE ~IsAgent /\ job.kind # "dp"
    <3>1. FlowDraw(d, u) \/ CameraDraw(d, u)
      BY <2>4 DEF LearnDraw, PolicyDraw
    <3>2. ASSUME FlowDraw(d, u) PROVE FlowTail(key, n)
      <4>1. key \in {Grandchild(u, 1, 0), Grandchild(u, 1, 1)}
        BY <3>2 DEF FlowDraw
      <4> QED
        BY <1>4, <4>1 DEF FlowTail
    <3>3. ASSUME CameraDraw(d, u) PROVE FlowTail(key, n)
      <4>1. PICK f \in 0 .. 1 : key = GreatGrandchild(u, 2, 1, f) \/ key = Deep(u, f)
        BY <3>3 DEF CameraDraw
      <4>2. CASE key = GreatGrandchild(u, 2, 1, f)
        BY <1>5, <4>2 DEF FlowTail
      <4>3. CASE key = Deep(u, f)
        BY <1>6, <4>3 DEF FlowTail
      <4> QED
        BY <4>1, <4>2, <4>3
    <3> QED
      BY <2>4, <3>1, <3>2, <3>3 DEF UpdateTail
  <2> QED
    BY <2>1, <2>2, <2>3, <2>4
<1> QED
  BY <1>2, <1>3, <1>8 DEF LearnerForm

(* The key of an action. *)
LEMMA ActionForms ==
  ASSUME IsAgent, SessionPath(sessionRng), NEW d \in ActionDraws(job, Split(sessionRng, 1))
  PROVE  SessionForm(d[3])
<1> DEFINE k == sessionRng
           n == Len(k) + 1
<1>1. k \in Keys /\ Len(k) \in Nat /\ Len(k) >= 1 /\ k[1] = 10 /\ \A p \in 2 .. Len(k) : k[p] = 0
  BY DEF SessionPath, Keys
<1>2. d[3] = IF ActionTail = 1 THEN Grandchild(k, 1, 0) ELSE Split(k, 1)
  <2>1. job.kind \in Kinds
    BY DEF IsAgent
  <2> QED
    BY <2>1 DEF ActionDraws, Kinds, SACSampleActions, SACSampleBestOfN, ResidualSampleActions,
       DSRLSampleBestOfN, Grandchild, ActionTail, Draw
<1>3. ActionTail \in {0, 1}
  BY DEF ActionTail
<1>4. /\ Split(k, 1) \in Keys /\ Len(Split(k, 1)) = n
      /\ \A p \in 1 .. Len(k) : Split(k, 1)[p] = k[p]
      /\ Split(k, 1)[n] = 1
  BY <1>1, ChildIs
<1>5. /\ Grandchild(k, 1, 0) \in Keys /\ Len(Grandchild(k, 1, 0)) = n + 1
      /\ \A p \in 1 .. Len(k) : Grandchild(k, 1, 0)[p] = k[p]
      /\ Grandchild(k, 1, 0)[n] = 1 /\ Grandchild(k, 1, 0)[n + 1] = 0
  <2> DEFINE g == Grandchild(k, 1, 0)
  <2>1. Goes2(g, k, 1, 0)
    BY <1>1, GrandchildIs
  <2> HIDE DEF g
  <2>2. /\ g \in Keys /\ Len(g) = n + 1 /\ (\A p \in 1 .. Len(k) : g[p] = k[p])
        /\ g[n] = 1 /\ g[n + 1] = 0
    BY <1>1, <2>1 DEF Goes2
  <2> QED
    BY <2>2 DEF g
<1> DEFINE key == d[3]
<1>6. /\ key \in Keys /\ Len(key) = n + ActionTail
      /\ \A p \in 1 .. Len(k) : key[p] = k[p]
      /\ key[n] = 1 /\ (ActionTail = 1 => key[n + 1] = 0)
  <2>1. CASE ActionTail = 1
    BY <1>2, <1>5, <2>1
  <2>2. CASE ActionTail = 0
    BY <1>1, <1>2, <1>4, <2>2
  <2> QED
    BY <1>3, <2>1, <2>2
<1> HIDE DEF key, k
<1>7. key[1] = 10 /\ LeavesAt(key, 1, n) /\ \A p \in n + 1 .. Len(key) : key[p] = 0
  BY <1>1, <1>3, <1>6 DEF LeavesAt
<1> QED
  BY <1>6, <1>7 DEF SessionForm, key

(* The keys of an evaluation. *)
LEMMA EvalForms ==
  ASSUME EvalPath(evalRng), NEW d \in EvaluationDraws(evalRng)
  PROVE  EvalForm(d[3])
<1> DEFINE u == evalRng
<1>1. /\ u \in Keys /\ Len(u) \in Nat /\ Len(u) >= 1 /\ u[1] = 11
      /\ \A p \in 2 .. Len(u) : u[p] = 0
  BY DEF EvalPath, Keys
<1>2. PICK i \in 1 .. 2 : d[3] = Grandchild(u, i, 1)
  <2>1. EvaluationDraws(u) = {<<"ema", 0, Grandchild(u, 1, 1)>>, <<"online", 0, Grandchild(u, 2, 1)>>}
    BY DEF EvaluationDraws, ColdRolloutDraws, SampleChunkDraws, Draw, Grandchild
  <2> HIDE DEF u
  <2>2. d[3] = Grandchild(u, 1, 1) \/ d[3] = Grandchild(u, 2, 1)
    BY <2>1 DEF u
  <2> QED
    BY <2>2
<1> HIDE DEF u
<1> DEFINE key == Grandchild(u, i, 1)
<1>3. Goes2(key, u, i, 1)
  BY <1>1, GrandchildIs
<1> HIDE DEF key
<1>4. key \in Keys /\ key[1] = 11 /\ LeavesAt(key, 1, Len(u) + 1) /\ Len(key) = (Len(u) + 1) + 1
  BY <1>1, <1>3 DEF LeavesAt, Goes2
<1> QED
  BY <1>2, <1>4 DEF EvalForm, key

(* The forms of the keys are kept by every step.                           *)
LEMMA FormInvariant == Spec => []FormInv
<1>1. Init => FormInv
  BY DEF Init, FormInv
<1>2. SaveTypes /\ CreditInv /\ KeyInv /\ FormInv /\ [Next]_vars => FormInv'
  <2> SUFFICES ASSUME SaveTypes, CreditInv, KeyInv, FormInv, [Next]_vars PROVE FormInv'
    OBVIOUS
  <2> USE DEF scriptVars, learnVars, keyVars
  <2>1. job' = job
    BY DEF Next, vars, DownloadWeights, Downloaded, WeightsUnreadable,
       StartSession, StartPolicy, CriticUpdate, FullUpdate, PretrainStep, Act, Evaluate,
       Finish, TrainPolicy, EvaluatePolicy, OpenFile, Dump, Replace, SkipSave, Crash, Restart
  <2>2. \A d : Formed(d) => Formed(d)'
    BY <2>1 DEF Formed, SessionForm, EvalForm, LearnerForm, LeavesAt, UpdateTail, AgentTail, DPTail,
       FlowTail, ActionTail, LearnerStart, StartLength, IsAgent
  <2>3. ASSUME drawn' \subseteq drawn PROVE FormInv'
    BY <2>2, <2>3 DEF FormInv
  <2>4. ASSUME NEW draws, Drawing(draws), \A d \in draws : Formed(d[3]) PROVE FormInv'
    <3>1. drawn' = drawn \cup {d[3] : d \in draws}
      BY <2>4 DEF Drawing
    <3>2. ASSUME NEW key \in drawn' PROVE Formed(key)
      <4>1. CASE key \in drawn
        BY <4>1 DEF FormInv
      <4>2. CASE key \notin drawn
        <5>1. PICK d \in draws : key = d[3]
          BY <3>1, <4>2
        <5> QED
          BY <2>4, <5>1
      <4> QED
        BY <4>1, <4>2
    <3> QED
      BY <2>2, <3>2 DEF FormInv
  <2>5. CASE CriticUpdate \/ FullUpdate \/ PretrainStep
    <3>1. IsAgent /\ LearnerPath(agent.rng)
      BY <2>5 DEF CriticUpdate, FullUpdate, PretrainStep, Learning, KeyInv
    <3>2. PICK draws : Drawing(draws) /\ \A d \in draws : Off(d[3], agent.rng) /\ LearnDraw(d, agent.rng)
      BY <2>5, <3>1, AgentLearns
    <3>3. \A d \in draws : LearnerForm(d[3])
      BY <3>1, <3>2, LearnerForms
    <3> QED
      BY <2>4, <3>2, <3>3 DEF Formed
  <2>6. CASE TrainPolicy
    <3>1. ~IsAgent /\ pc = "train"
      BY <2>6 DEF TrainPolicy, SaveTypes
    <3>2. LearnerPath(agent.rng) /\ agent \in Policy /\ agent.rng \in Keys
      BY <3>1 DEF KeyInv, Policy
    <3>3. PICK w \in Samples(job.kind) : Drawing(UpdatePolicy(job.kind, agent, w).draws)
      BY <2>6 DEF TrainPolicy
    <3> DEFINE draws == UpdatePolicy(job.kind, agent, w).draws
    <3>4. \A d \in draws : Off(d[3], agent.rng) /\ PolicyDraw(job.kind, d, agent.rng)
      BY <3>2, PolicyUpdateDraws
    <3>5. Drawing(draws)
      BY <3>3
    <3> HIDE DEF draws
    <3>6. \A d \in draws : LearnerForm(d[3])
      BY <3>1, <3>2, <3>4, LearnerForms DEF LearnDraw
    <3> QED
      BY <2>4, <3>5, <3>6 DEF Formed
  <2>7. CASE Act \/ Evaluate
    <3>1. IsAgent /\ SessionPath(sessionRng) /\ NextKey
      BY <2>7 DEF Act, Evaluate, SaveTypes, KeyInv
    <3> DEFINE draws == ActionDraws(job, Split(sessionRng, 1))
    <3>2. Drawing(draws)
      BY <3>1 DEF NextKey
    <3>3. \A d \in draws : SessionForm(d[3])
      BY <3>1, ActionForms
    <3> HIDE DEF draws
    <3> QED
      BY <2>4, <3>2, <3>3 DEF Formed
  <2>8. CASE EvaluatePolicy
    <3>1. CASE job.kind = "dp"
      BY <2>3, <2>8, <3>1 DEF EvaluatePolicy
    <3>2. CASE job.kind # "dp"
      <4> DEFINE draws == EvaluationDraws(evalRng)
      <4>1. Drawing(draws)
        BY <2>8, <3>2 DEF EvaluatePolicy
      <4>2. \A d \in draws : EvalForm(d[3])
        BY EvalForms DEF KeyInv
      <4> HIDE DEF draws
      <4> QED
        BY <2>4, <4>1, <4>2 DEF Formed
    <3> QED
      BY <3>1, <3>2
  <2>9. CASE StartSession \/ StartPolicy
    <3> DEFINE draws == InitDraws(Root(0))
    <3>1. Drawing(draws)
      BY <2>9 DEF StartSession, StartPolicy
    <3>2. \A d \in draws : d[3] = InitKey
      BY OneDraw DEF InitDraws, InitKey
    <3> HIDE DEF draws
    <3> QED
      BY <2>4, <3>1, <3>2 DEF Formed
  <2>10. CASE DownloadWeights \/ Downloaded \/ WeightsUnreadable \/ Finish \/ OpenFile \/ Dump
              \/ Replace \/ SkipSave \/ Crash \/ Restart \/ UNCHANGED vars
    <3>1. drawn' = drawn \/ drawn' = {}
      BY <2>10 DEF DownloadWeights, Downloaded, WeightsUnreadable, Finish, OpenFile, Dump,
         Replace, SkipSave, Crash, Restart, vars
    <3> QED
      BY <2>3, <3>1
  <2> QED
    BY <2>5, <2>6, <2>7, <2>8, <2>9, <2>10 DEF Next
<1> QED
  BY <1>1, <1>2, SaveTypesInvariant, CreditInvariant, KeyInvariant, PTL DEF Spec

(* The two keys that the session shares with the agent.                    *)
LEMMA AgentKeysAre ==
  ASSUME NEW k \in Keys, Len(k) \in 3 .. 4, k[1] = 10, k[2] = 0, k[3] = 1, Len(k) = 4 => k[4] = 0
  PROVE  KeyOfAgent(k)
<1> DEFINE root == Root(0)
           l == Split(root, 0)
           m == Split(l, 1)
           o == Split(m, 0)
<1>1. Root(0) = <<10>>
  <2>1. 10 + 0 = 10
    OBVIOUS
  <2> QED
    BY <2>1, Zenon DEF Root
<1>2. root \in Keys /\ Len(root) = 1 /\ root[1] = 10
  <2>1. \A n \in Nat : <<n>> \in Keys /\ Len(<<n>>) = 1 /\ <<n>>[1] = n
    BY DEF Keys
  <2> QED
    BY <1>1, <2>1
<1>3. StateKey(Root(0)) = m /\ Split(StateKey(Root(0)), 0) = o
  BY DEF StateKey
<1> HIDE DEF root
<1>4. l \in Keys /\ Len(l) = 2 /\ l[1] = 10 /\ l[2] = 0
  <2>1. /\ l \in Keys /\ Len(l) = Len(root) + 1
        /\ \A p \in 1 .. Len(root) : l[p] = root[p]
        /\ l[Len(root) + 1] = 0
    BY <1>2, ChildIs
  <2> HIDE DEF l
  <2> QED
    BY <1>2, <2>1
<1> HIDE DEF l
<1>5. m \in Keys /\ Len(m) = 3 /\ m[1] = 10 /\ m[2] = 0 /\ m[3] = 1
  <2>1. /\ m \in Keys /\ Len(m) = Len(l) + 1
        /\ \A p \in 1 .. Len(l) : m[p] = l[p]
        /\ m[Len(l) + 1] = 1
    BY <1>4, ChildIs
  <2> HIDE DEF m
  <2> QED
    BY <1>4, <2>1
<1> HIDE DEF m
<1>6. o \in Keys /\ Len(o) = 4 /\ o[1] = 10 /\ o[2] = 0 /\ o[3] = 1 /\ o[4] = 0
  <2>1. /\ o \in Keys /\ Len(o) = Len(m) + 1
        /\ \A p \in 1 .. Len(m) : o[p] = m[p]
        /\ o[Len(m) + 1] = 0
    BY <1>5, ChildIs
  <2> HIDE DEF o
  <2> QED
    BY <1>5, <2>1
<1> HIDE DEF o
<1>7. k \in Seq(Nat) /\ m \in Seq(Nat) /\ o \in Seq(Nat)
  BY <1>5, <1>6 DEF Keys
<1>8. CASE Len(k) = 3
  <2>1. \A p \in 1 .. 3 : k[p] = m[p]
    BY <1>5
  <2>2. k = m
    BY <1>5, <1>7, <1>8, <2>1, SeqEqual
  <2> QED
    BY <1>3, <2>2 DEF KeyOfAgent
<1>9. CASE Len(k) = 4
  <2>1. \A p \in 1 .. 4 : k[p] = o[p]
    BY <1>6, <1>9
  <2>2. k = o
    BY <1>6, <1>7, <1>9, <2>1, SeqEqual
  <2> QED
    BY <1>3, <2>2 DEF KeyOfAgent
<1> QED
  BY <1>8, <1>9

(* Which of the keys is split from which. *)
LEMMA FormsTell ==
  ASSUME NEW k, NEW l, Formed(k), Formed(l), IsStrictPrefix(k, l)
  PROVE  KeyOfDropout(k, l) \/ KeyOfNextCrops(k, l) \/ KeyOfAgent(k)
<1>0. k \in Keys /\ l \in Keys
  BY InitKeyIs DEF Formed, SessionForm, EvalForm, LearnerForm, LearnerStart
<1>1. /\ Len(k) \in Nat /\ Len(l) \in Nat /\ Len(k) < Len(l)
      /\ \A p \in 1 .. Len(k) : k[p] = l[p]
      /\ Len(l) = Len(k) + 1 => l = Split(k, l[Len(l)])
  BY <1>0, PrefixIs
<1>2. CASE SessionForm(k) /\ SessionForm(l)
  <2>1. PICK n : LeavesAt(k, 1, n) /\ Len(k) = n + ActionTail
    BY <1>2 DEF SessionForm
  <2>2. PICK m : LeavesAt(l, 1, m) /\ Len(l) = m + ActionTail
    BY <1>2 DEF SessionForm
  <2>3. n = m
    BY <1>0, <2>1, <2>2, SameTurn
  <2> QED
    BY <1>1, <2>1, <2>2, <2>3
<1>3. CASE SessionForm(k) /\ LearnerForm(l)
  <2>1. PICK n : /\ LeavesAt(k, 1, n) /\ k[n] = 1 /\ Len(k) = n + ActionTail
                 /\ \A p \in n + 1 .. Len(k) : k[p] = 0
    BY <1>3 DEF SessionForm
  <2>2. n \in 2 .. Len(k) /\ (\A p \in 2 .. n - 1 : k[p] = 0) /\ ActionTail \in {0, 1}
    BY <2>1 DEF LeavesAt, ActionTail
  <2>3. l[1] = 10 /\ l[2] = 0 /\ l[3] = 1
    BY <1>3 DEF SessionForm, LearnerForm, LearnerStart
  <2>4. k[1] = 10 /\ k[2] = 0 /\ n # 2
    BY <1>1, <2>1, <2>2, <2>3
  <2>5. k[3] = 1 /\ n = 3
    BY <1>1, <2>1, <2>2, <2>3, <2>4
  <2>6. Len(k) \in 3 .. 4 /\ (Len(k) = 4 => k[4] = 0)
    BY <2>1, <2>2, <2>5
  <2> QED
    BY <1>0, <2>4, <2>5, <2>6, AgentKeysAre
<1>4. CASE LearnerForm(k) /\ SessionForm(l)
  <2>1. PICK m : /\ LeavesAt(l, 1, m) /\ Len(l) = m + ActionTail
                 /\ \A p \in m + 1 .. Len(l) : l[p] = 0
    BY <1>4 DEF SessionForm
  <2>2. m \in 2 .. Len(l) /\ l[m] # 0 /\ ActionTail \in {0, 1} /\ \A p \in 2 .. m - 1 : l[p] = 0
    BY <2>1 DEF LeavesAt, ActionTail
  <2>3. /\ k[2] = 0 /\ k[3] = 1
        /\ \E n : n \in 4 .. Len(k)
    BY <1>4 DEF SessionForm, LearnerForm, LearnerStart, StartLength, LeavesAt
  <2>4. Len(k) >= 4 /\ l[3] = 1 /\ 3 \in 2 .. Len(l)
    BY <1>1, <2>3
  <2>5. l[2] = 0
    BY <1>1, <2>3, <2>4
  <2>6. m = 3
    BY <1>1, <2>2, <2>1, <2>4, <2>5
  <2> QED
    BY <1>1, <2>1, <2>2, <2>4, <2>6
<1>5. CASE EvalForm(k) /\ EvalForm(l)
  <2>1. PICK n : LeavesAt(k, 1, n) /\ Len(k) = n + 1
    BY <1>5 DEF EvalForm
  <2>2. PICK m : LeavesAt(l, 1, m) /\ Len(l) = m + 1
    BY <1>5 DEF EvalForm
  <2>3. n = m
    BY <1>0, <2>1, <2>2, SameTurn
  <2> QED
    BY <1>1, <2>1, <2>2, <2>3
<1>6. CASE LearnerForm(k) /\ LearnerForm(l)
  <2>1. PICK n : LeavesAt(k, StartLength, n) /\ UpdateTail(k, n)
    BY <1>6 DEF LearnerForm
  <2>2. PICK m : LeavesAt(l, StartLength, m) /\ UpdateTail(l, m)
    BY <1>6 DEF LearnerForm
  <2>3. StartLength \in Nat /\ StartLength >= 2
    BY DEF StartLength
  <2>4. n = m /\ n \in Nat /\ n >= 3 /\ n <= Len(k)
    <3>1. n = m /\ n \in Nat /\ n \in StartLength + 1 .. Len(k) /\ n <= Len(k)
      BY <1>0, <2>1, <2>2, <2>3, SameTurn
    <3> QED
      BY <2>3, <3>1
  <2>5. /\ k[n] = l[n]
        /\ Len(k) >= n + 1 => k[n + 1] = l[n + 1]
        /\ Len(k) >= n + 2 => k[n + 2] = l[n + 2]
    BY <1>1, <2>4
  <2>6. CASE IsAgent /\ job.kind = "dsrl"
    BY <1>1, <2>1, <2>2, <2>4, <2>6 DEF UpdateTail
  <2>7. CASE IsAgent /\ job.kind # "dsrl"
    <3>1. AgentTail(k, n) /\ AgentTail(l, n)
      BY <2>1, <2>2, <2>4, <2>7 DEF UpdateTail
    <3>2. Len(k) = n + 1 /\ Len(l) = n + 2
      BY <1>1, <2>4, <3>1 DEF AgentTail
    <3>3. l = Split(k, l[n + 2])
      BY <1>1, <2>4, <3>2
    <3>4. CASE k[n] = 1 /\ k[n + 1] = 2
      <4>1. l[n + 2] \in 0 .. 1
        BY <2>4, <2>5, <3>1, <3>2, <3>4 DEF AgentTail
      <4>2. Len(k) > 2 /\ k[Len(k) - 1] = 1 /\ k[Len(k)] = 2
        BY <2>4, <3>2, <3>4
      <4>3. l[n + 2] = 0 \/ l[n + 2] = 1
        BY <4>1
      <4> QED
        BY <3>3, <4>2, <4>3 DEF KeyOfNextCrops
    <3>5. CASE k[n] # 1 /\ k[n + 1] = 1
      <4>1. l[n + 2] = 9
        BY <2>4, <2>5, <3>1, <3>2, <3>5 DEF AgentTail
      <4> QED
        BY <3>3, <4>1 DEF KeyOfDropout, FoldIn
    <3> QED
      BY <2>4, <3>1, <3>2, <3>4, <3>5 DEF AgentTail
  <2>8. CASE ~IsAgent /\ job.kind = "dp"
    <3>1. DPTail(k, n) /\ DPTail(l, n)
      BY <2>1, <2>2, <2>4, <2>8 DEF UpdateTail
    <3> QED
      BY <1>1, <2>4, <2>5, <3>1 DEF DPTail
  <2>9. CASE ~IsAgent /\ job.kind # "dp"
    <3>1. FlowTail(k, n) /\ FlowTail(l, n)
      BY <2>1, <2>2, <2>4, <2>9 DEF UpdateTail
    <3> QED
      BY <1>1, <2>4, <2>5, <3>1 DEF FlowTail
  <2> QED
    BY <2>6, <2>7, <2>8, <2>9
<1>7. CASE k = InitKey
  <2>1. Len(k) = 3 /\ k[1] = 10 /\ k[2] = 1 /\ k[3] = 9
    BY <1>7, InitKeyIs
  <2>2. Len(l) > 3 /\ l[1] = 10 /\ l[2] = 1 /\ l[3] = 9
    BY <1>1, <2>1
  <2>3. ~EvalForm(l) /\ ~LearnerForm(l) /\ l # InitKey
    <3>1. l[1] # 11 /\ l[2] # 0 /\ l[2] # 2
      BY <2>2
    <3>2. Len(l) # 3
      <4>1. Len(l) \in Nat /\ Len(l) > 3
        BY <1>1, <2>2
      <4>2. \A n \in Nat : n > 3 => n # 3
        OBVIOUS
      <4> QED
        BY <4>1, <4>2, Zenon
    <3> QED
      BY <3>1, <3>2, InitKeyIs DEF EvalForm, LearnerForm, LearnerStart
  <2>4. ASSUME SessionForm(l) PROVE FALSE
    <3>1. PICK m : LeavesAt(l, 1, m) /\ \A p \in m + 1 .. Len(l) : l[p] = 0
      BY <2>4 DEF SessionForm
    <3>2. m \in 2 .. Len(l) /\ \A p \in 2 .. m - 1 : l[p] = 0
      BY <3>1 DEF LeavesAt
    <3>3. m = 2
      BY <1>1, <2>2, <3>2
    <3> QED
      BY <1>1, <2>2, <3>1, <3>3
  <2> QED
    BY <2>3, <2>4 DEF Formed
<1>8. CASE l = InitKey
  <2>1. Len(l) = 3 /\ l[1] = 10 /\ l[2] = 1 /\ l[3] = 9
    BY <1>8, InitKeyIs
  <2>2. k # InitKey
    BY <1>1, <1>8
  <2>3. ~EvalForm(k)
    <3> SUFFICES ASSUME EvalForm(k) PROVE FALSE
      OBVIOUS
    <3>1. k[1] = 11 /\ Len(k) >= 1
      BY <1>1 DEF EvalForm, LeavesAt
    <3> QED
      BY <1>1, <2>1, <3>1
  <2>4. ~LearnerForm(k)
    <3> SUFFICES ASSUME LearnerForm(k) PROVE FALSE
      OBVIOUS
    <3>1. Len(k) >= 2 /\ k[2] # 1
      BY <1>1 DEF LearnerForm, LearnerStart
    <3> QED
      BY <1>1, <2>1, <3>1
  <2>5. ASSUME SessionForm(k) PROVE KeyOfDropout(k, l)
    <3>1. PICK n : LeavesAt(k, 1, n)
      BY <2>5 DEF SessionForm
    <3>2. Len(k) = 2
      <4>1. n \in 2 .. Len(k)
        BY <3>1 DEF LeavesAt
      <4>2. Len(k) \in Nat /\ Len(k) < 3
        BY <1>1, <2>1
      <4> QED
        BY <4>1, <4>2
    <3>3. l = Split(k, 9)
      BY <1>1, <2>1, <3>2
    <3> QED
      BY <3>3 DEF KeyOfDropout, FoldIn
  <2> QED
    BY <2>2, <2>3, <2>4, <2>5 DEF Formed
<1>9. k[1] = l[1] /\ Len(k) >= 1
  <2>1. Len(k) >= 1
    BY <1>1, InitKeyIs DEF Formed, SessionForm, EvalForm, LearnerForm, LearnerStart, LeavesAt
  <2> QED
    BY <1>1, <2>1
<1>10. /\ SessionForm(k) \/ LearnerForm(k) => k[1] = 10
       /\ SessionForm(l) \/ LearnerForm(l) => l[1] = 10
       /\ EvalForm(k) => k[1] = 11
       /\ EvalForm(l) => l[1] = 11
  BY DEF SessionForm, LearnerForm, LearnerStart, EvalForm
<1> QED
  BY <1>2, <1>3, <1>4, <1>5, <1>6, <1>7, <1>8, <1>9, <1>10 DEF Formed

(***************************************************************************)
(* No key that was drawn from is split, for any number of updates,         *)
(* actions, evaluations and restarts, but where the code does so: dropout  *)
(* beside the sampler, the next observation's crops below the actor's      *)
(* sample_rng, and the session's first two actions, whose keys are those   *)
(* of the initial weights and of the agent.                                *)
(***************************************************************************)
THEOREM DrawnKeysNotSplitCorrect == Spec => []DrawnKeysNotSplit
<1>1. FormInv => DrawnKeysNotSplit
  BY FormsTell DEF FormInv, DrawnKeysNotSplit
<1> QED
  BY <1>1, FormInvariant, PTL

(***************************************************************************)
(* Both together: draws that ought to be independent are, but for the      *)
(* exceptions above.                                                       *)
(***************************************************************************)
THEOREM KeysIndependentCorrect == Spec => []KeysIndependent
<1>1. DrawKeysDistinct /\ DrawnKeysNotSplit => KeysIndependent
  BY DEF KeysIndependent
<1> QED
  BY <1>1, DrawKeysDistinctCorrect, DrawnKeysNotSplitCorrect, PTL

-------------------------------------------------------------------------------
(* Types *)

(* What is to save: no more than two checkpoints.                          *)
ToSave == {s \in Seq(Checkpoints) : Len(s) <= 2}

(***************************************************************************)
(* An evaluation follows an action of the agent, or a step of the policy.  *)
(***************************************************************************)
RunInv ==
  /\ agent.step \in 0 .. UpdateBound /\ ratio \in 0 .. CtaRatio - 1
  /\ chunks \in 0 .. ChunkBound /\ run \in 1 .. RunBound
  /\ pc \in {"start", "download"} => round = 0
  /\ IsAgent => round <= chunks /\ (pc = "evaluate" => round < chunks)
  /\ ~IsAgent => round <= agent.step /\ (pc = "evaluate" => round < agent.step)
  /\ todo \in ToSave /\ writing \in Checkpoints \cup {NoFile}
  /\ OneDemo(window)

(* The lists of files that are saved. *)
LEMMA SaveLists ==
  ASSUME job \in Jobs, round \in Nat
  PROVE  /\ <<>> \in ToSave /\ SavesAtEnd \in ToSave /\ SavesAfter \subseteq ToSave
         /\ ~IsAgent /\ round < UpdateBound => SavesBefore \in ToSave
<1>1. Out \in Checkpoints /\ Best \in Checkpoints
  BY DEF Checkpoints
<1>2. /\ <<>> \in ToSave
      /\ \A f \in Checkpoints : <<f>> \in ToSave
      /\ \A f, g \in Checkpoints : <<f, g>> \in ToSave
  BY DEF ToSave
<1>3. SavesAtEnd \in ToSave
  BY <1>1, <1>2 DEF SavesAtEnd
<1>4. SavesAfter \subseteq ToSave
  BY <1>1, <1>2 DEF SavesAfter
<1>5. ASSUME ~IsAgent, round < UpdateBound PROVE SavesBefore \in ToSave
  <2>1. AtStep(round + 1) \in Checkpoints
    BY <1>5, TrainingAssumption DEF Checkpoints
  <2> QED
    BY <1>1, <1>2, <1>5, <2>1, PolicySaves
<1> QED
  BY <1>2, <1>3, <1>4, <1>5

(* A window without frames, where a run starts. *)
LEMMA NoWindowLies == OneDemo(NoWindow)
BY DEF OneDemo, NoWindow, Range

(* The invariant of a run holds. *)
LEMMA RunInvariant == Spec => []RunInv
<1> USE DEF scriptVars, learnVars, keyVars
<1>1. Init => RunInv
  <2> SUFFICES ASSUME Init PROVE RunInv
    OBVIOUS
  <2>1. <<>> \in ToSave
    BY SaveLists DEF Init
  <2>2. agent.step = 0
    BY DEF Init
  <2> QED
    BY <2>1, <2>2, NoWindowLies, TrainingAssumption DEF Init, RunInv
<1>2. SaveTypes /\ CreditInv /\ KeyInv /\ RunInv /\ [Next]_vars => RunInv'
  <2> SUFFICES ASSUME SaveTypes, CreditInv, KeyInv, RunInv, [Next]_vars PROVE RunInv'
    OBVIOUS
  <2>1. job \in Jobs /\ round \in Nat /\ job' = job
    BY DEF SaveTypes, Next, vars, DownloadWeights, Downloaded, WeightsUnreadable,
       StartSession, StartPolicy, CriticUpdate, FullUpdate, PretrainStep, Act, Evaluate,
       Finish, TrainPolicy, EvaluatePolicy, OpenFile, Dump, Replace, SkipSave, Crash, Restart
  <2>2. CASE DownloadWeights \/ Downloaded \/ WeightsUnreadable \/ Crash \/ UNCHANGED vars
    BY <2>1, <2>2 DEF RunInv, DownloadWeights, Downloaded, WeightsUnreadable, Crash, vars, IsAgent, OneDemo
  <2>3. CASE StartSession
    <3>1. AgentJob /\ IsAgent
      BY <2>3, TrainingAssumption
         DEF StartSession, SaveTypes, IsAgent, BCJob, Kinds, Trainers, AgentJob
    <3>2. agent'.step = 0
      BY <2>3, <3>1, FirstKeys DEF StartSession
    <3> QED
      BY <2>1, <2>3, <3>1, <3>2, TrainingAssumption DEF RunInv, StartSession, IsAgent, OneDemo
  <2>4. CASE StartPolicy
    <3>1. agent'.step = 0
      BY <2>4, FirstKeys DEF StartPolicy
    <3> QED
      BY <2>1, <2>4, <3>1, TrainingAssumption DEF RunInv, StartPolicy, IsAgent, OneDemo
  <2>5. CASE CriticUpdate \/ FullUpdate \/ PretrainStep
    <3>1. IsAgent /\ agent.step < UpdateBound
      BY <2>5 DEF CriticUpdate, FullUpdate, PretrainStep, Learning
    <3>2. agent'.step = agent.step + 1
      BY <2>5, <3>1, AgentLearns
    <3>3. ratio' \in 0 .. CtaRatio - 1
      BY <2>5, TrainingAssumption DEF RunInv, CriticUpdate, FullUpdate, PretrainStep
    <3>4. UNCHANGED <<pc, chunks, round, todo, writing, window, run>>
      BY <2>5 DEF CriticUpdate, FullUpdate, PretrainStep
    <3>5. agent'.step \in 0 .. UpdateBound
      BY <3>1, <3>2, TrainingAssumption DEF RunInv
    <3> QED
      BY <2>1, <3>1, <3>3, <3>4, <3>5 DEF RunInv, IsAgent, OneDemo
  <2>6. CASE Act
    BY <2>1, <2>6, TrainingAssumption DEF RunInv, Act, SaveTypes, IsAgent, OneDemo
  <2>7. CASE Evaluate
    <3>1. todo' \in ToSave
      BY <2>1, <2>7, SaveLists DEF Evaluate
    <3> QED
      BY <2>1, <2>7, <3>1 DEF RunInv, Evaluate, IsAgent, OneDemo
  <2>8. CASE Finish
    <3>1. todo' \in ToSave
      BY <2>1, <2>8, SaveLists DEF Finish
    <3> QED
      BY <2>1, <2>8, <3>1 DEF RunInv, Finish, IsAgent, OneDemo
  <2>9. CASE TrainPolicy
    <3>1. ~IsAgent /\ pc = "train" /\ agent.step < UpdateBound /\ job.kind \in Trainers
          /\ UNCHANGED <<ratio, chunks, round, writing, run>>
      BY <2>1, <2>9, TrainingAssumption DEF TrainPolicy, SaveTypes, IsAgent, BCJob, Job
    <3>2. PICK w \in Samples(job.kind) :
            agent' = UpdatePolicy(job.kind, agent, w).policy /\ window' = w
      BY <2>9 DEF TrainPolicy
    <3>3. agent \in Policy
      BY <3>1 DEF KeyInv
    <3>4. agent'.step = agent.step + 1
      BY <3>1, <3>2, <3>3, PolicyUpdateIs
    <3>5. OneDemo(window)'
      BY <3>1, <3>2, SamplesLie DEF OneDemo
    <3>6. round < UpdateBound
      BY <2>1, <3>1, TrainingAssumption DEF RunInv
    <3>7. todo' \in ToSave /\ pc' \in {"train", "evaluate"}
      BY <2>1, <2>9, <3>1, <3>6, SaveLists DEF TrainPolicy
    <3>8. agent'.step \in 0 .. UpdateBound /\ round < agent'.step
      BY <2>1, <3>1, <3>4, TrainingAssumption DEF RunInv
    <3> QED
      BY <2>1, <3>1, <3>5, <3>7, <3>8 DEF RunInv, IsAgent
  <2>10. CASE EvaluatePolicy
    <3>1. todo' \in ToSave
      BY <2>1, <2>10, SaveLists DEF EvaluatePolicy
    <3> QED
      BY <2>1, <2>10, <3>1 DEF RunInv, EvaluatePolicy, IsAgent, OneDemo
  <2>11. CASE OpenFile
    <3>1. todo \in Seq(Checkpoints) /\ Len(todo) <= 2 /\ todo # <<>>
      BY <2>11 DEF OpenFile, RunInv, ToSave
    <3>2. Head(todo) \in Checkpoints /\ Tail(todo) \in Seq(Checkpoints) /\ Len(Tail(todo)) <= 2
      BY <3>1, HeadTailProperties
    <3> QED
      BY <2>1, <2>11, <3>2 DEF RunInv, OpenFile, IsAgent, OneDemo, ToSave
  <2>12. CASE Dump
    BY <2>1, <2>12 DEF RunInv, Dump, IsAgent, OneDemo
  <2>13. CASE Replace \/ SkipSave
    BY <2>1, <2>13 DEF RunInv, Replace, SkipSave, IsAgent, OneDemo
  <2>14. CASE Restart
    <3>1. agent'.step = 0 /\ todo' \in ToSave
      BY <2>1, <2>14, SaveLists DEF Restart
    <3>2. OneDemo(window)'
      BY <2>14, NoWindowLies DEF Restart, OneDemo
    <3>3. run' \in 1 .. RunBound
      BY <2>14, TrainingAssumption DEF Restart, RunInv
    <3> QED
      BY <2>1, <2>14, <3>1, <3>2, <3>3, TrainingAssumption DEF RunInv, Restart, IsAgent
  <2> QED
    BY <2>2, <2>3, <2>4, <2>5, <2>6, <2>7, <2>8, <2>9, <2>10, <2>11, <2>12, <2>13, <2>14 DEF Next
<1> QED
  BY <1>1, <1>2, SaveTypesInvariant, CreditInvariant, KeyInvariant, PTL DEF Spec

(***************************************************************************)
(* The types of a training process, and every window of a batch inside its *)
(* own demonstration (dataset_loader.py flow_sample and dp_sample), for    *)
(* demonstrations of any lengths, any horizon and any history.             *)
(***************************************************************************)
THEOREM TypeCorrect == Spec => []TypeOK
<1>1. SaveTypes /\ KeyInv /\ RunInv => TypeOK
  <2> SUFFICES ASSUME SaveTypes, KeyInv, RunInv PROVE TypeOK
    OBVIOUS
  <2>1. round \in 0 .. UpdateBound + ChunkBound
    BY TrainingAssumption DEF SaveTypes, RunInv
  <2>2. todo \in BoundedSeq(Checkpoints, 2)
    <3>1. todo \in [1 .. Len(todo) -> Checkpoints] /\ Len(todo) \in 0 .. 2
      <4>1. todo \in Seq(Checkpoints) /\ Len(todo) <= 2
        BY DEF RunInv, ToSave
      <4>2. todo \in [1 .. Len(todo) -> Checkpoints] /\ Len(todo) \in Nat
        BY <4>1, LenProperties
      <4> QED
        BY <4>1, <4>2
    <3> QED
      BY <3>1 DEF BoundedSeq, SeqOf
  <2>3. files \in [Files -> {None, Torn, Whole}] /\ reused \in BOOLEAN
    BY DEF SaveTypes, FileStates, KeyInv
  <2>4. pc \in {"start", "download", "act", "evaluate", "train", "end", "dead"}
    BY DEF SaveTypes
  <2> QED
    BY <2>1, <2>2, <2>3, <2>4 DEF SaveTypes, RunInv, TypeOK
<1> QED
  BY <1>1, SaveTypesInvariant, KeyInvariant, RunInvariant, PTL
===============================================================================
