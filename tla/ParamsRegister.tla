---------------------------- MODULE ParamsRegister ----------------------------
(***************************************************************************)
(* What a fleet of actors is promised about the learner's parameters: a    *)
(* register that the learner overwrites and every actor reads.  A read is  *)
(* never older than what was published when it began, never older than the *)
(* actor's last one, and never of parameters not yet computed.             *)
(***************************************************************************)
EXTENDS Naturals

CONSTANT Clients

VARIABLES version,   \* how many parameters were published
          asked,     \* the version published when each client last asked
          seen       \* the parameters each client acts with

Init ==
  /\ version = 0
  /\ asked = [c \in Clients |-> 0]
  /\ seen = [c \in Clients |-> 0]

Publish == version' = version + 1 /\ UNCHANGED <<asked, seen>>

Ask(c) ==
  /\ asked' = [asked EXCEPT ![c] = version]
  /\ UNCHANGED <<version, seen>>

\* One more than version: the agent is replaced before it is counted.
Read(c) ==
  /\ \E p \in 0..(version + 1) :
       /\ p >= asked[c] /\ p >= seen[c]
       /\ seen' = [seen EXCEPT ![c] = p]
  /\ UNCHANGED <<version, asked>>

Next == Publish \/ \E c \in Clients : Ask(c) \/ Read(c)

Spec == Init /\ [][Next]_<<version, asked, seen>>
==============================================================================
