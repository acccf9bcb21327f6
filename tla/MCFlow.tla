-------------------------------- MODULE MCFlow --------------------------------
(***************************************************************************)
(* FlowExec over families of source programs, lowered by MirLower: a       *)
(* variable x of a type with a Drop implementation through branches, loops *)
(* and nested scopes, and structs s and d of two owned fields f and g,     *)
(* moved, written and read field by field. Every filling of the slots. And *)
(* calls whose arguments and receivers are temporaries that own.           *)
(***************************************************************************)
EXTENDS Temporaries, MirLower

X == "x"      \* of a type with a Drop implementation
S == "s"      \* a struct without one
D == "d"      \* a struct with one

\* Temporaries that own, and that point.
MCTemps == [owner |-> <<"o1", "o2", "o3", "o4", "o5", "o6">>, view |-> <<"v1", "v2", "v3", "v4">>]
MCOwners == ToSet(MCTemps.owner)
MCViews == ToSet(MCTemps.view) \cup {"q"}
MCUnnamed == ToSet(MCTemps.owner) \cup ToSet(MCTemps.view)
MCDropWhole == {X, D} \cup MCOwners

Of(l, f) == [local |-> l, field |-> f]
Let(l, init) == <<[k |-> "let", l |-> l, init |-> init]>>
AssignTo(l, f) == <<[k |-> "assign", p |-> Of(l, f)]>>
ReadOf(l, f) == <<[k |-> "read", p |-> Of(l, f)]>>
ConsumeOf(l, f) == <<[k |-> "consume", p |-> Of(l, f)]>>
Assign == AssignTo(X, Whole)
Read == ReadOf(X, Whole)
Consume == ConsumeOf(X, Whole)
Eval(e) == <<[k |-> "eval", e |-> e]>>
Block(body) == Eval(BlockOf(body))
If(then, else) ==
  Eval([k |-> "if", ty |-> "plain", then |-> BlockOf(then),
        else |-> IF else = <<>> THEN <<>> ELSE <<BlockOf(else)>>])
Loop(label, body, update, else) ==
  <<[k |-> "while", label |-> label, body |-> BlockOf(body), update |-> update, else |-> else]>>
While(body) == Loop(None, body, <<>>, <<>>)
Break(label) == <<[k |-> "break", label |-> label]>>
Continue(label) == <<[k |-> "continue", label |-> label]>>
Abort == [k |-> "abort"]
Return(op) == <<[k |-> "return", op |-> op, p |-> Of(X, Whole)]>>
Lets(l) == {Let(l, TRUE), Let(l, FALSE)}

-----------------------------------------------------------------------------
(* One variable. *)
Slot == {<<>>, Assign, Read, Consume}
Leave == {<<>>, Break(None), Continue(None), Return("none")}

\* let x; s1; if { s2 } else { s3; exit? }; s4
Branches ==
  {d \o s1 \o If(s2, s3 \o e) \o s4 :
     d \in Lets(X), s1 \in Slot, s2 \in Slot, s3 \in Slot \ {<<>>},
     e \in {<<>>, Return("none"), Return("move"), Return("copy")}, s4 \in Slot}

\* let x; while { s1; if { s2; exit? }; s3 }; s4
Loops ==
  {d \o While(s1 \o If(s2 \o e, <<>>) \o s3) \o s4 :
     d \in Lets(X), s1 \in Slot, s2 \in Slot, e \in Leave, s3 \in Slot, s4 \in {Read, Consume, <<>>}}

\* while { let x; s1; if { s2; exit? }; s3; s4 }
ScopedLoops ==
  {While(d \o s1 \o If(s2 \o e, <<>>) \o s3 \o s4) :
     d \in Lets(X), s1 \in Slot, s2 \in Slot, e \in Leave, s3 \in Slot, s4 \in Slot}

\* fn (x) { if { s1 }; while { s2 }; s3 }
OfParam == {If(s1, <<>>) \o While(s2) \o s3 : s1 \in Slot, s2 \in Slot, s3 \in Slot}

\* let x; while 'a { while 'b { s1; if { s2; leave 'a or 'b }; } update s3 else { s4 }; s5 }; s6
LabelledLeave == {Break("a"), Continue("a"), Break("b"), Continue(None)}
LabelledLoops ==
  {Let(X, TRUE) \o Loop("a", Loop("b", s1 \o If(s2 \o e, <<>>), s3, s4) \o s5, <<>>, <<>>) \o s6 :
     s1 \in {<<>>, Assign}, s2 \in {<<>>, Consume}, e \in LabelledLeave, s3 \in {<<>>, Assign},
     s4 \in {<<>>, <<BlockOf(Consume)>>}, s5 \in {<<>>, Assign}, s6 \in {<<>>, Consume}}

\* let x; if { s1; todo! } else { s2 }; s3
Aborting ==
  {Let(X, TRUE) \o If(s1 \o Eval(Abort), s2) \o s3 :
     s1 \in Slot, s2 \in {<<>>, Consume, Eval(Abort)}, s3 \in Slot}

\* while { if { exit; s }; }: a statement after the one that leaves
DeadCode == {Let(X, TRUE) \o While(If(e \o Read, <<>>)) : e \in Leave \ {<<>>}}

\* while { let x; if { exit } }, and a value given away on one branch only
BreakOut == {While(Let(X, TRUE) \o If(e, <<>>)) : e \in Leave}
GivenAwayOnce == {Let(X, TRUE) \o If(Consume, <<>>)}

-----------------------------------------------------------------------------
(* A struct of two fields. *)
Uses(l) == {ConsumeOf(l, Whole), ConsumeOf(l, "f"), ConsumeOf(l, "g"), ReadOf(l, "f")}
WholeSlot(l) == Uses(l) \cup {<<>>, AssignTo(l, Whole)}
FieldSlot(l) == WholeSlot(l) \cup {AssignTo(l, "f"), AssignTo(l, "g")}

\* { let l; s1; s2; s3; s4 } with every field operation in s1 and s2, no branch
Straight(l, thirds) ==
  {Block(d \o s1 \o s2 \o s3 \o s4) :
     d \in Lets(l), s1 \in FieldSlot(l), s2 \in FieldSlot(l), s3 \in thirds, s4 \in {<<>>} \cup Uses(l)}

Thirds == {<<>>, ConsumeOf(S, Whole), ReadOf(S, "f"), AssignTo(S, "g")}

\* { let l; s1; if { s2 } else { s3 }; s4 } without writes to a single field
Joined(l) ==
  {Block(d \o s1 \o If(s2, s3) \o s4) :
     d \in Lets(l), s1 \in WholeSlot(l), s2 \in WholeSlot(l), s3 \in WholeSlot(l) \ {<<>>}, s4 \in WholeSlot(l)}

\* { let s; if { s1 }; s2; s3 } with every field operation
Rebuilt == {Block(Let(S, TRUE) \o If(s1, <<>>) \o s2 \o s3) :
              s1 \in FieldSlot(S), s2 \in FieldSlot(S), s3 \in Uses(S)}

\* { let s; if { if { s1 } else { s2 } } else { s3 }; s4 }
Nested == {Block(Let(S, TRUE) \o If(If(s1, s2), s3) \o s4) :
             s1 \in Uses(S), s2 \in Uses(S), s3 \in Uses(S), s4 \in Uses(S)}

\* fn drop(d) { if { s1 }; s2 }
DropBodies == {If(s1, <<>>) \o s2 : s1 \in WholeSlot(D), s2 \in WholeSlot(D)}

-----------------------------------------------------------------------------
(* Temporaries. *)
Call(ty, args) == [k |-> "call", ty |-> ty, args |-> args]
RefOf(e) == [k |-> "ref", e |-> e]
Recv(e, ty) == [k |-> "recv", e |-> e, ty |-> ty]
Choice(ty, then, else) == [k |-> "if", ty |-> ty, then |-> then, else |-> <<else>>]
Var(l) == [k |-> "var", l |-> l, ty |-> IF l \in MCDropWhole THEN "owner" ELSE "view"]
Bind(l, e) == <<[k |-> "bind", l |-> l, e |-> e]>>

Make == Call("owner", <<>>)                 \* make()
View == Call("view", <<RefOf(Make)>>)       \* make().view()
Guard == Call("owner", <<RefOf(Var(X))>>)   \* x.guard()
Chosen == Choice("owner", Make, Make)       \* if { make() } else { make() }

\* What a call takes: &make(), make().view(), make(), &if..., &x.guard(), and x itself
OfOwner == {RefOf(Make), Make, Recv(Make, "owner"), RefOf(Guard)}
OfX == {Var(X), Recv(Var(X), "owner")}
Args == OfOwner \cup {View, RefOf(Chosen)}
Shown(e) == Eval(Call("plain", <<e>>))
Shows(args) == {Shown(e) : e \in args} \cup {Eval(Make), Eval(Guard)}
ShownBoth == {Eval(Call("plain", <<d, e>>)) : d \in Args \cup OfX, e \in OfOwner \cup OfX \cup {View}}

\* let x; show(e, e'); and show(e); show(e')
TempCalls == {Let(X, TRUE) \o s : s \in ShownBoth} \cup {Let(X, TRUE) \o s \o t : s \in Shows(Args), t \in Shows(OfOwner)}
\* let x; if { show(e) } else { show(e') }; show(e)
TempBranches ==
  {Let(X, TRUE) \o If(s, t) \o u : s \in Shows(OfOwner \cup {View}), t \in Shows({RefOf(Make)}), u \in Shows({Make})}
\* let x; while { show(e); if { leave }; show(e') }
TempLoops ==
  {Let(X, TRUE) \o While(s \o If(e, <<>>) \o t) : s \in Shows(OfOwner), e \in Leave, t \in Shows(OfOwner)}
\* let x; show(e, if { make() } else { return, or todo! })
TempLeaves ==
  {Let(X, TRUE) \o Eval(Call("plain", <<d, Choice("owner", Make, e)>>)) :
     d \in Args, e \in {BlockOf(Return("none")), Abort}}

\* show(make().view().again()); let q = make().view(); show(q) or show(q.again()); and
\* a view made in a loop
Chained == {Shown(Call("view", <<Recv(View, "view")>>))}
Bound == {Bind("q", View) \o Shown(e) : e \in {Var("q"), Call("view", <<Recv(Var("q"), "view")>>)}}
LoopedViews == {While(Shown(View))}

-----------------------------------------------------------------------------
BlockIds == 1 .. 15
MCLocals == {X, S, D} \cup MCOwners \cup MCViews
MCFieldsOf == [l \in MCLocals |-> IF l \in {S, D} THEN {"f", "g"} ELSE {}]
Lowered(params, dropSelf, bodies) == {LowerFn(params, dropSelf, b) : b \in bodies}

\* A body with the name of its family, which says what the function around it takes.
VariableCases ==
  ({"branch"} \X (Branches \cup Aborting)) \cup ({"loop"} \X (Loops \cup LabelledLoops))
  \cup ({"scope"} \X ScopedLoops) \cup ({"param"} \X OfParam)
StructCases ==
  ({"fields"} \X Straight(S, Thirds)) \cup ({"joined"} \X Joined(S))
  \cup ({"whole"} \X Straight(D, {<<>>})) \cup ({"drop"} \X DropBodies)
LowerCase(c) ==
  CASE c[1] = "temps" -> P!InsertPromptDrops(LowerFn({}, None, c[2]))
    [] c[1] = "param" -> LowerFn({X}, None, c[2])
    [] c[1] = "drop"  -> LowerFn({D}, D, c[2])
    [] OTHER          -> LowerFn({}, None, c[2])
TempCases == {"temps"} \X (TempCalls \cup TempBranches \cup TempLoops \cup TempLeaves)
MCFunctions == {LowerCase(c) : c \in VariableCases \cup StructCases \cup TempCases}

\* The trees that a sequence of trees is made of.
RECURSIVE Parts(_)
Children(s) ==
  CASE s.k \in {"bind", "eval", "ref", "recv"} -> <<s.e>>
    [] s.k = "while" -> <<s.body>> \o s.update \o s.else
    [] s.k = "if"    -> <<s.then>> \o s.else
    [] s.k = "call"  -> s.args
    [] s.k = "block" -> s.body
    [] OTHER         -> <<>>
Parts(trees) == ToSet(trees) \cup UNION {Parts(Children(s)) : s \in ToSet(trees)}

\* What is proved of compiled functions is proved of these: every body is made of
\* legal trees and lowered to its end, inside of the blocks there are, prompt
\* drops add drops of temporaries only, and the first families and the last use
\* no local in part.
ASSUME CasesAreCompiled ==
  \A c \in VariableCases \cup StructCases \cup TempCases :
    LET T == Parts(c[2])
        f == LowerFn({}, None, c[2])
    IN /\ Trees(T) /\ Complete(c[2]) /\ f.size <= Cardinality(Blocks)
       /\ DropsAdded(LowerCase(c), f, MCOwners)
       /\ c \in VariableCases \cup TempCases => MovesWhole(T, Locals)

\* Families on which a property of the run does not hold.
BreakOutFunctions == Lowered({}, None, BreakOut)
GivenAwayFunctions == Lowered({}, None, GivenAwayOnce)
DeadCodeFunctions == Lowered({}, None, DeadCode)
NestedFunctions == Lowered({}, None, Nested)
ChainedFunctions == {LowerCase(c) : c \in {"temps"} \X (Chained \cup Bound)}
LoopedViewFunctions == {LowerCase(c) : c \in {"temps"} \X LoopedViews}
TempFunctions == {LowerCase(c) : c \in TempCases}
RebuiltFunctions == Lowered({}, None, Rebuilt)
=============================================================================
