------------------------------- MODULE MCTraining ------------------------------
(***************************************************************************)
(* Training with three stored transitions, two demonstrations of two and   *)
(* three steps, and one job of every kind for each choice of where an      *)
(* episode was done and of the data that matters to its losses.            *)
(***************************************************************************)
EXTENDS Training

Dones == {{}, {2}, {3}}
SACJobs == [kind : {"sac"}, encoder : {"none"}, bc : {"on"}, redq : {TRUE},
            done : Dones, demos : {{}, {3}}, interventions : {{3}}]
DSRLScriptJobs == [kind : {"sac"}, encoder : {"resnet"}, bc : {"off"}, redq : {FALSE},
                   done : {{2}}, demos : {{}}, interventions : {{}}]
ResidualJobs == [kind : {"residual"}, encoder : {"resnet", "resnet-pretrained"},
                 bc : {"off", "only"}, redq : {FALSE},
                 done : {{2}}, demos : {{2, 3}}, interventions : {{2, 3}}]
QOILJobs == [kind : {"qoil"}, encoder : {"resnet"}, bc : {"on"}, redq : {FALSE},
             done : Dones, demos : {{3}}, interventions : {{3}, {2, 3}}]
DSRLJobs == [kind : {"dsrl"}, encoder : {"none"}, bc : {"off"}, redq : {FALSE},
             done : {{}, {2}}, demos : {{3}}, interventions : {{3}}]

MCJobs == BCJob \cup SACJobs \cup DSRLScriptJobs \cup ResidualJobs \cup QOILJobs \cup DSRLJobs

===============================================================================
