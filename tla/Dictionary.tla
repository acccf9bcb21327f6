----------------------------- MODULE Dictionary -----------------------------
(***************************************************************************)
(* What a map promises: a function from the keys it has to values, and     *)
(* calls that answer for it.                                               *)
(***************************************************************************)
EXTENDS Naturals, FiniteSets, Functions

CONSTANTS Keys, Values, None

VARIABLES map,      \* the function
          answer    \* what the last call answered

vars == <<map, answer>>

At(k) == IF k \in DOMAIN map THEN map[k] ELSE None

Init == map = [k \in {} |-> None] /\ answer = None

\* A new value for a key, for the old one.
Insert(k, v) ==
  /\ map' = [x \in DOMAIN map \cup {k} |-> IF x = k THEN v ELSE map[x]]
  /\ answer' = At(k)

Remove(k) == map' = Restrict(map, DOMAIN map \ {k}) /\ answer' = At(k)
Get(k) == answer' = At(k) /\ UNCHANGED map
Count == answer' = Cardinality(DOMAIN map) /\ UNCHANGED map
Clear == map' = [k \in {} |-> None] /\ answer' = None

Next ==
  \/ \E k \in Keys : Remove(k) \/ Get(k) \/ \E v \in Values : Insert(k, v)
  \/ Count \/ Clear

Spec == Init /\ [][Next]_vars
=============================================================================
