----------------------------- MODULE Temporaries -----------------------------
(***************************************************************************)
(* FlowExec on functions whose calls leave owners in temporaries and hand  *)
(* out pointers into them, with the drops PromptDrops put between the      *)
(* statements: a drop is executed as the move of its temporary.            *)
(***************************************************************************)
EXTENDS FlowExec

CONSTANTS Owners,   \* the temporaries whose type needs drop
          Views     \* the locals that may hold a pointer

P == INSTANCE PromptDrops

\* Temporaries l may point into: one whose address it is, and whatever the
\* operands of its assignment may point into, a call's arguments included.
PointeesOf(f, pts, l) ==
  UNION {IF P!IsRef(f, bs[1], bs[2]) THEN P!Used(f, bs[1], bs[2])
         ELSE UNION {pts[k] : k \in P!Used(f, bs[1], bs[2])} :
         bs \in {c \in ToSet(P!AllCode(f)) : l \in P!Defined(f, c[1], c[2])}}
RECURSIVE PointsTo(_, _)
PointsTo(f, pts) ==
  LET next == [l \in Locals |-> PointeesOf(f, pts, l)] IN IF next = pts THEN pts ELSE PointsTo(f, next)
Pointees(l) == PointsTo(fn, [k \in Locals |-> {}])[l]

Calls == InBlock /\ pc[2] >= fn.blocks[pc[1]].term /\ fn.blocks[pc[1]].kind = "flow"

\* A call is handed no pointer into a temporary that is gone: its drop comes
\* after the last use of the temporary and of what was derived from it
\* (insert_prompt_drops; README: "data is released right after usage").
NoDanglingArgument ==
  Calls /\ Instr.op \in {"copy", "move"} /\ Instr.place.local \in Views
    => \A t \in Pointees(Instr.place.local) \cap Owners :
         env[[local |-> t, field |-> Whole]] # "moved"

\* What a temporary owns is released before the temporary is used again, in
\* the next iteration of a loop, and before the function returns.
TemporariesReleased == \A leaf \in lost : leaf.local \notin Owners
=============================================================================
