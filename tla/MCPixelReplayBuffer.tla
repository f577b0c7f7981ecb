------------------------- MODULE MCPixelReplayBuffer -------------------------
(***************************************************************************)
(* Observations of two frames, over two images: resets (a repeated first   *)
(* frame), steps that continue some of the others, and by the same token   *)
(* transitions that are out of step with whatever was inserted before.     *)
(***************************************************************************)
EXTENDS PixelReplayBuffer

CONSTANTS f, g

MCStack == 2

Pix(a, b, c) == [k \in 0..MCStack |-> <<a, b, c>>[k + 1]]

MCTransitions ==
  [pix : {Pix(f, f, g), Pix(f, g, f), Pix(g, f, g), Pix(g, g, f)}, done : BOOLEAN]

\* One frame per observation, as every example of the repository has it.
MCSingleFrame == [pix : [0..1 -> {f, g}], done : BOOLEAN]
==============================================================================
