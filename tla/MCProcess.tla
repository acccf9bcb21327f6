------------------------------ MODULE MCProcess ------------------------------
(* Two threads of one process run a command each, in these pairings. *)
EXTENDS StdProcess
CONSTANTS s1, s2
MCSpawners == {s1, s2}
Pairings == {<<"status", "talk">>, <<"status", "output">>, <<"talk", "talk">>, <<"talk", "output">>,
             <<"output", "output">>, <<"talk", "outputPiped">>, <<"status", "outputPiped">>}
MCCalls == {[s \in MCSpawners |-> IF s = s1 THEN p[1] ELSE p[2]] : p \in Pairings}
=============================================================================
