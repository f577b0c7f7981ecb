---------------------------- MODULE MCBasePolicy ----------------------------
(***************************************************************************)
(* An actor of two queries and one of one, a connection that breaks and a  *)
(* restart.                                                                *)
(***************************************************************************)
EXTENDS BasePolicy, TLC

CONSTANTS a1, a2

MCQuestionBound == a1 :> 2 @@ a2 :> 1
==============================================================================
