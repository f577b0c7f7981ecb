------------------------------ MODULE ReplayLog ------------------------------
(***************************************************************************)
(* What a replay buffer promises its learner, without slots, indices or    *)
(* frames: a sliding window over the history of insertions.  The sampling  *)
(* distribution is supported on exactly the transitions of log.            *)
(***************************************************************************)
EXTENDS Naturals, Sequences

CONSTANTS Transitions,  \* the rows a sample can return
          MaxEvict,     \* how many old rows one call may push out
          Batches       \* how many rows one call may bring

VARIABLE log            \* the rows that can be sampled, oldest first

Init == log = <<>>

(***************************************************************************)
(* The new transitions can be sampled at once, each exactly once, and as   *)
(* the newest, in order; only the oldest rows make room for them.          *)
(***************************************************************************)
Add(trs) ==
  \E n \in 0..MaxEvict :
    /\ n <= Len(log)
    /\ log' = SubSeq(log, n + 1, Len(log)) \o trs

Next == \E b \in Batches : \E trs \in [1..b -> Transitions] : Add(trs)

Spec == Init /\ [][Next]_log
==============================================================================
