------------------------------ MODULE FlowState ------------------------------
(***************************************************************************)
(* The value-state domain of the ownership analysis (zeen-flow/state.rs):  *)
(* what the analysis knows of a local variable at a program point, how a   *)
(* read is judged, and how writes, moves and control-flow joins change it. *)
(***************************************************************************)
EXTENDS Mir

\* ValueState
ValueStates == {"Uninitialized", "Initialized", "Moved", "MaybeInitialized", "MaybeMoved"}

\* LocalState: a whole value, or the fields written or moved one by one
WholeStates == [tag : {"Whole"}, value : ValueStates]
PartialStates ==
  [tag : {"Partial"}, fields : UNION {[S -> ValueStates] : S \in SUBSET Fields}, untracked : ValueStates]
LocalStates == WholeStates \cup PartialStates

AsWhole(v) == [tag |-> "Whole", value |-> v]
AsPartial(fs, u) == [tag |-> "Partial", fields |-> fs, untracked |-> u]

\* PartialMoveState::field, set_field, all_fields_initialized
FieldState(p, f) == IF f \in DOMAIN p.fields THEN p.fields[f] ELSE p.untracked
SetField(p, f, v) ==
  [p EXCEPT !.fields = [g \in DOMAIN p.fields \cup {f} |-> IF g = f THEN v ELSE p.fields[g]]]
AllFieldsInitialized(p) ==
  /\ p.untracked = "Initialized"
  /\ \A f \in DOMAIN p.fields : p.fields[f] = "Initialized"

\* A FunctionState maps every local; a local the code's map does not hold is
\* Whole(Uninitialized), as state_of and merge read it.
FunctionStates == [Locals -> LocalStates]
Unset == [l \in Locals |-> AsWhole("Uninitialized")]

ReadValue(v) == IF v = "Initialized" THEN "Ok" ELSE v

\* read_place
ReadPlace(st, p) ==
  LET s == st[p.local] IN
  IF s.tag = "Whole" THEN ReadValue(s.value)
  ELSE IF p.field # Whole THEN ReadValue(FieldState(s, p.field))
  ELSE IF AllFieldsInitialized(s) THEN "Ok" ELSE "PartiallyMoved"

\* The state a field write leaves a partially initialized local in.
Settled(p) == IF AllFieldsInitialized(p) THEN AsWhole("Initialized") ELSE p

\* write_struct_place: for a field of a struct it lists every field as
\* uninitialized before write_place sets the first one.
RebuildUnlisted(l) == AsPartial([f \in {} |-> "Initialized"], "Initialized")  \* mutant: none listed
Rebuild(l) ==
  AsPartial([f \in FieldsOf[l] |-> "Uninitialized"], IF FieldsOf[l] = {} THEN "Uninitialized" ELSE "Initialized")

\* write_place and write_struct_place
WritePlace(st, p) ==
  LET s == st[p.local]
  IN [st EXCEPT ![p.local] =
        IF p.field = Whole THEN AsWhole("Initialized")
        ELSE IF s.tag = "Partial" THEN Settled(SetField(s, p.field, "Initialized"))
        ELSE IF s.value \in {"Moved", "Uninitialized"} THEN SetField(Rebuild(p.local), p.field, "Initialized")
        ELSE AsWhole("Initialized")]

\* move_place
MovePlace(st, p) ==
  LET s == st[p.local]
      live == AsPartial([f \in {} |-> "Moved"], "Initialized")
  IN [st EXCEPT ![p.local] =
        IF p.field = Whole THEN AsWhole("Moved")
        ELSE IF s.tag = "Partial" THEN SetField(s, p.field, "Moved")
        ELSE IF s.value = "Initialized" THEN SetField(live, p.field, "Moved")
        ELSE AsWhole("Moved")]

\* join_value: MaybeInitialized absorbs everything, MaybeMoved everything else;
\* two different definite states give MaybeMoved when one of them is Moved.
JoinValue(x, y) ==
  IF x = y THEN x
  ELSE IF "MaybeInitialized" \in {x, y} THEN "MaybeInitialized"
  ELSE IF {"MaybeMoved", "Moved"} \cap {x, y} # {} THEN "MaybeMoved"
  ELSE "MaybeInitialized"

\* join_partial_with_whole. Its last branch is dead: a tracking state joined
\* with Uninitialized is never Initialized, so no field is left to patch.
JoinPartialWhole(p, w) ==
  AsPartial([f \in DOMAIN p.fields |-> JoinValue(p.fields[f], w)], JoinValue(p.untracked, w))

\* join_local: of two partial states only the right one's listed fields are joined.
JoinLocal(a, b) ==
  IF a.tag = "Whole" /\ b.tag = "Whole" THEN AsWhole(JoinValue(a.value, b.value))
  ELSE IF a.tag = "Partial" /\ b.tag = "Partial"
       THEN AsPartial([f \in DOMAIN a.fields \cup DOMAIN b.fields |->
                         IF f \in DOMAIN b.fields THEN JoinValue(FieldState(a, f), b.fields[f])
                         ELSE a.fields[f]],
                      a.untracked)
  ELSE IF a.tag = "Partial" THEN JoinPartialWhole(a, b.value)
  ELSE JoinPartialWhole(b, a.value)

\* FunctionState::merge; it reports a change when the result differs from the left.
Merge(left, right) == [l \in Locals |-> JoinLocal(left[l], right[l])]
=============================================================================
