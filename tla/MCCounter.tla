------------------------------ MODULE MCCounter ------------------------------
(* Main and two workers count to two each. *)
EXTENDS SharedCounter
CONSTANTS w1, w2
MCWorkers == {w1, w2}
MCPlatforms == {"waits"}
=============================================================================
