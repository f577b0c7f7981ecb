--------------------------- MODULE MCDemoWarmStart ---------------------------
(* Two short demos, two actions a chunk.                                    *)
EXTENDS DemoWarmStart

MCDemoOf == [s \in 0..10 |-> IF s < 6 THEN 0 ELSE 1]
MCDones == {5, 10}
==============================================================================
