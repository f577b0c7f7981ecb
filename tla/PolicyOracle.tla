----------------------------- MODULE PolicyOracle -----------------------------
(***************************************************************************)
(* What BasePolicyClient.query promises its actor: a question is answered  *)
(* once, by a chunk for this very observation, or it fails.                *)
(***************************************************************************)
CONSTANTS Actors, Questions, NoQuestion

VARIABLES asked,   \* the question each actor waits for
          result   \* what its last query came to

Init ==
  /\ asked = [a \in Actors |-> NoQuestion]
  /\ result = [a \in Actors |-> [kind |-> "none", for |-> NoQuestion]]

Ask(a) ==
  /\ asked[a] = NoQuestion
  /\ \E q \in Questions : q # result[a].for /\ asked' = [asked EXCEPT ![a] = q]
  /\ UNCHANGED result

Answer(a) ==
  /\ asked[a] # NoQuestion
  /\ \E kind \in {"chunk", "error"} :
       result' = [result EXCEPT ![a] = [kind |-> kind, for |-> asked[a]]]
  /\ asked' = [asked EXCEPT ![a] = NoQuestion]

Next == \E a \in Actors : Ask(a) \/ Answer(a)

Spec == Init /\ [][Next]_<<asked, result>>
==============================================================================
