------------------------------ MODULE MCRollout ------------------------------
(***************************************************************************)
(* Every script, episodes of at most five steps, chunks of two, histories  *)
(* of two frames and a gate that looks two steps back: an episode ends in  *)
(* the middle of a chunk, and a gate window spans two chunks.              *)
(***************************************************************************)
EXTENDS Rollout
==============================================================================
