------------------------------- MODULE MirLower -------------------------------
(***************************************************************************)
(* MIR lowering (zeen-mir/lowering.rs): blocks, scopes, branches, loops,   *)
(* break, continue, return, and calls with the temporaries they need, from *)
(* a tree of statements and expressions to the function record of Mir.     *)
(* Conditions and temporaries that neither own nor point are left out.     *)
(*                                                                         *)
(* A statement or expression is a record with a kind k. Statements:        *)
(*   let      declares l, and writes it when init   bind     let l = e     *)
(*   assign   writes the place p                    read     copies p      *)
(*   consume  passes p to a call by value           eval     evaluates e   *)
(*   return   of operand op ("none", "copy" or "move") p                   *)
(*   while    a loop around body, with an update statement and an else     *)
(*            block, each in a sequence that is empty when there is none   *)
(*   break, continue   of the loop named label, or None                    *)
(* Expressions, ty being "owner" of a type that needs drop, "view" of one  *)
(* that points, and "plain" of any other:                                  *)
(*   call     with args             var    a variable l                    *)
(*   ref      &e, or e as the receiver of a method that takes a pointer    *)
(*   recv     e as the receiver of a method that takes it as it is         *)
(*   if       with then, and else in a sequence, empty when there is none  *)
(*   block    a scope around body   abort  todo! or unreachable!           *)
(*                                                                         *)
(* The functions of the code call each other down the tree. Here todo is   *)
(* what they still have to do: trees, and what follows when a call for a   *)
(* subtree has returned (endScope, else, meet, endLoop, join, arg, refer,  *)
(* receive, store).                                                        *)
(***************************************************************************)
EXTENDS Mir, SequencesExt

CONSTANTS
  Temps,    \* for "owner" and "view", the names of a function's temporaries in order
  MaxSteps  \* a bound on the steps that lower one function

TempTypes == {"owner", "view"}
ASSUME TempsAssumption == Temps \in [TempTypes -> Seq(Locals)] /\ MaxSteps \in Nat

StmtKinds == {"let", "bind", "assign", "read", "consume", "eval", "return", "while", "break", "continue"}
ExprKinds == {"call", "ref", "recv", "if", "block", "var", "abort"}
OwnPlaces == UNION {PlacesOf(l) : l \in Locals}
AtMostOne(T) == {<<>>} \cup {<<s>> : s \in T}

\* T is a set of such trees: with each it holds what it is made of.
Trees(T) ==
  \A s \in T :
    /\ s.k \in StmtKinds \cup ExprKinds
    /\ s.k = "let" => s.l \in Locals /\ s.init \in BOOLEAN
    /\ s.k = "bind" => s.l \in Locals /\ s.e \in T
    /\ s.k \in {"assign", "read", "consume"} => s.p \in OwnPlaces
    /\ s.k = "eval" => s.e \in T
    /\ s.k = "return" => s.op = "none" \/ (s.op \in {"copy", "move"} /\ s.p \in OwnPlaces)
    /\ s.k = "while" => s.body \in T /\ s.update \in AtMostOne(T) /\ s.else \in AtMostOne(T)
    /\ s.k = "call" => s.args \in Seq(T) /\ s.ty \in TempTypes \cup {"plain"}
    /\ s.k = "ref" => s.e \in T
    /\ s.k = "recv" => s.e \in T /\ s.ty \in TempTypes
    /\ s.k = "if" => s.then \in T /\ s.else \in AtMostOne(T) /\ s.ty \in TempTypes \cup {"plain"}
    /\ s.k = "block" => s.body \in Seq(T)
    /\ s.k = "var" => s.l \in Locals /\ s.ty \in TempTypes

VarPlace(l) == [local |-> l, field |-> Whole]
Entry(op, p) == [op |-> op, place |-> p, stmt |-> 0]
Numbered(entries, n) == [i \in DOMAIN entries |-> [entries[i] EXCEPT !.stmt = n]]

\* BasicBlock: operands are the reads and writes of its terminator.
OpenBlock == [stmts |-> <<>>, operands |-> <<>>, succ |-> <<>>, kind |-> "unreachable"]

\* FnBuilder::new, and the block its callers lower into (cur). final is
\* finalized_unreachable, used counts the temporaries, value is the operand of
\* the expression just lowered, <<>> for a constant.
NewBuilder(body) ==
  [blocks |-> <<OpenBlock>>, cur |-> 1, scopes |-> <<>>, loops |-> <<>>, diverged |-> FALSE, final |-> {},
   used |-> [ty \in TempTypes |-> 0], value |-> <<>>, todo |-> body]

\* new_block: the new block's number is the count of blocks so far plus one.
NewBlocks(fb, n) == [fb EXCEPT !.blocks = @ \o [i \in 1 .. n |-> OpenBlock]]
NewBlock(fb) == NewBlocks(fb, 1)
Newest(fb) == Len(fb.blocks)
MoveTo(fb, b) == [fb EXCEPT !.cur = b]
Then(fb, items) == [fb EXCEPT !.todo = items \o @]
IsOpen(fb, b) == b \notin fb.final /\ fb.blocks[b].kind = "unreachable"

\* push_stmt, also on a block that has its terminator.
PushStmt(fb, entries) == [fb EXCEPT !.blocks[fb.cur].stmts = @ \o Numbered(entries, Len(@) + 1)]

\* set_terminator, with the operands the terminator consumes.
SetTerminator(fb, b, kind, operands, succ) ==
  [fb EXCEPT !.blocks[b] = [@ EXCEPT !.operands = operands, !.succ = succ, !.kind = kind]]
JumpTo(fb, b, target) == SetTerminator(fb, b, "flow", <<>>, <<target>>)
JoinForgotten(fb, b, target) == fb  \* mutant of JoinIfOpen
JoinIfOpen(fb, b, target) == IF IsOpen(fb, b) THEN JumpTo(fb, b, target) ELSE fb

\* reroute_after_flow_cut
Reroute(fb) ==
  IF IsOpen(fb, fb.cur) THEN fb
  ELSE [NewBlock(fb) EXCEPT !.diverged = TRUE, !.cur = Newest(fb) + 1]

-----------------------------------------------------------------------------
(* Temporaries and operands. *)

NewTemp(fb, ty) == [fb EXCEPT !.used[ty] = @ + 1]
NewestTemp(fb, ty) == Temps[ty][fb.used[ty]]
WithValue(fb, op, l) == [fb EXCEPT !.value = <<Entry(op, VarPlace(l))>>]
NoValue(fb) == [fb EXCEPT !.value = <<>>]

\* place_to_operand: a pointer is copied, an owner is moved.
PlaceOperand(fb, l, ty) == WithValue(fb, IF ty = "owner" THEN "move" ELSE "copy", l)

\* MirStatement::Assign of Rvalue::Use(value) to l
AssignValue(fb, l) == PushStmt(fb, fb.value \o <<Entry("write", VarPlace(l))>>)

\* lower_expr_to_place_or_temp, of an expression that is not a place
IntoTemp(fb, ty) == AssignValue(NewTemp(fb, ty), NewestTemp(NewTemp(fb, ty), ty))

-----------------------------------------------------------------------------
(* Statements. *)

\* A local declared outside of any block statement belongs to no scope.
Declare(fb, l) == IF fb.scopes = <<>> THEN fb ELSE [fb EXCEPT !.scopes[Len(fb.scopes)] = Append(@, l)]
DeclareLive(fb, l) == Declare(PushStmt(fb, <<Entry("live", VarPlace(l))>>), l)
LowerLet(fb, s) ==
  IF s.init THEN PushStmt(DeclareLive(fb, s.l), <<Entry("write", VarPlace(s.l))>>) ELSE DeclareLive(fb, s.l)
LowerBind(fb, s) == Then(DeclareLive(fb, s.l), <<s.e, [k |-> "store", l |-> s.l]>>)

\* A call reads its operands as the terminator of a block and returns to a new one.
EmitCall(fb, operands) ==
  MoveTo(SetTerminator(NewBlock(fb), fb.cur, "flow", operands, <<Newest(fb) + 1>>), Newest(fb) + 1)
LowerConsume(fb, s) == EmitCall(fb, <<Entry("move", s.p)>>)

\* A returned local of the innermost scope is first moved to a temporary.
LowerReturn(fb, s) ==
  LET operand == IF s.op = "none" THEN <<>> ELSE <<Entry(s.op, s.p)>>
      scoped == /\ s.op # "none" /\ fb.scopes # <<>>
                /\ s.p.local \in ToSet(Last(fb.scopes))
  IN IF scoped THEN SetTerminator(PushStmt(fb, operand), fb.cur, "return", <<>>, <<>>)
     ELSE SetTerminator(fb, fb.cur, "return", operand, <<>>)

\* loop_target: the innermost loop, or the innermost of that label.
Targets(fb, label) == {n \in DOMAIN fb.loops : label \in {None, fb.loops[n].label}}
LoopTarget(fb, label) == fb.loops[Max(Targets(fb, label))]

\* HirStmtKind::While: header, body, exit, the block that a loop which ends by its
\* condition goes to (natural), and the block that continue goes to (next).
Join(to, next) == [k |-> "join", to |-> to, next |-> next]
BlockOf(body) == [k |-> "block", body |-> body]
LowerWhile(fb, s) ==
  LET header == Newest(fb) + 1
      exit == header + 2
      natural == IF s.else = <<>> THEN exit ELSE exit + 1
      next == IF s.update = <<>> THEN header ELSE natural + 1
      created == NewBlocks(fb, 3 + Len(s.else) + Len(s.update))
      test == SetTerminator(JumpTo(created, fb.cur, header), header, "flow", <<>>, <<header + 1, natural>>)
      update == IF s.update = <<>> THEN <<>> ELSE <<Join(next, next)>> \o s.update
      else == IF s.else = <<>> THEN <<>> ELSE s.else \o <<Join(exit, exit)>>
  IN Then([test EXCEPT !.cur = header + 1,
                       !.loops = Append(@, [label |-> s.label, brk |-> exit, cont |-> next])],
          <<s.body, [k |-> "endLoop"]>> \o update \o <<Join(header, natural)>> \o else)

LowerStmt(fb, s) ==
  CASE s.k = "let"      -> LowerLet(fb, s)
    [] s.k = "bind"     -> LowerBind(fb, s)
    [] s.k = "assign"   -> PushStmt(fb, <<Entry("write", s.p)>>)
    [] s.k = "read"     -> PushStmt(fb, <<Entry("copy", s.p)>>)
    [] s.k = "consume"  -> LowerConsume(fb, s)
    [] s.k = "eval"     -> Then(fb, <<s.e>>)
    [] s.k = "return"   -> LowerReturn(fb, s)
    [] s.k = "while"    -> LowerWhile(fb, s)
    [] s.k = "break"    -> JumpTo(fb, fb.cur, LoopTarget(fb, s.label).brk)
    [] s.k = "continue" -> JumpTo(fb, fb.cur, LoopTarget(fb, s.label).cont)

-----------------------------------------------------------------------------
(* Expressions. *)

\* HirExprKind::Block
LowerBlock(fb, e) == Then([fb EXCEPT !.scopes = Append(@, <<>>)], Append(e.body, [k |-> "endScope"]))

\* A switch from the current block to two new ones, the next two numbers.
Split(fb) ==
  SetTerminator(NewBlocks(fb, 2), fb.cur, "flow", <<>>, <<Newest(fb) + 1, Newest(fb) + 2>>)

\* HirExprKind::If: the then block, the else block, and a block where their ends meet.
LowerIf(fb, e) ==
  Then(MoveTo(Split(fb), Newest(fb) + 1),
       <<e.then, [k |-> "else", at |-> Newest(fb) + 2, else |-> e.else, ty |-> e.ty]>>)

\* Arguments are lowered left to right, and read by the call only, whose
\* destination is a new temporary.
CallInto(fb, operands, ty) ==
  LET t == NewTemp(fb, ty)
      dest == NewestTemp(t, ty)
  IN PlaceOperand(EmitCall(t, Append(operands, Entry("write", VarPlace(dest)))), dest, ty)
LowerArgs(fb, left, operands, ty) ==
  IF left # <<>>
  THEN Then(fb, <<Head(left), [k |-> "arg", left |-> Tail(left), operands |-> operands, ty |-> ty]>>)
  ELSE IF ty = "plain" THEN NoValue(EmitCall(fb, operands)) ELSE CallInto(fb, operands, ty)

\* UnaryOp::AddrOf, and lower_place_receiver_operand for a pointer receiver:
\* a value that is no place is first stored in a temporary.
PointTo(fb, l) ==
  LET t == NewTemp(fb, "view")
      p == NewestTemp(t, "view")
  IN WithValue(PushStmt(t, <<Entry("copy", VarPlace(l)), Entry("write", VarPlace(p))>>), "move", p)
LowerRef(fb, e) == IF e.e.k = "var" THEN PointTo(fb, e.e.l) ELSE Then(fb, <<e.e, [k |-> "refer"]>>)

\* lower_receiver_operand of a receiver taken as it is: a variable is the operand
\* itself, any other value is first stored in a temporary.
LowerRecv(fb, e) ==
  IF e.e.k = "var" THEN PlaceOperand(fb, e.e.l, e.ty) ELSE Then(fb, <<e.e, [k |-> "receive", ty |-> e.ty]>>)

\* lower_diverging_macro: the block after it is unreachable for good.
LowerAbort(fb) ==
  [SetTerminator(NewBlock(fb), fb.cur, "flow", <<>>, <<>>) EXCEPT
     !.cur = Newest(fb) + 1, !.final = @ \cup {Newest(fb) + 1}, !.value = <<>>]

LowerExpr(fb, e) ==
  CASE e.k = "call"  -> LowerArgs(fb, e.args, <<>>, e.ty)
    [] e.k = "ref"   -> LowerRef(fb, e)
    [] e.k = "recv"  -> LowerRecv(fb, e)
    [] e.k = "if"    -> LowerIf(fb, e)
    [] e.k = "block" -> LowerBlock(fb, e)
    [] e.k = "var"   -> PlaceOperand(fb, e.l, e.ty)
    [] e.k = "abort" -> LowerAbort(fb)

-----------------------------------------------------------------------------
(* What follows a subtree. *)

\* At the end of a block its locals die, last declared first, each by a statement.
EndScope(fb) ==
  LET locals == Reverse(Last(fb.scopes)) IN
  [fb EXCEPT !.scopes = Front(@), !.value = <<>>,
             !.blocks[fb.cur].stmts =
                @ \o [i \in DOMAIN locals |-> [op |-> "dead", place |-> VarPlace(locals[i]), stmt |-> Len(@) + i]]]

Arm(fb) == [cur |-> fb.cur, value |-> fb.value]
LowerElse(fb, i) == Then(MoveTo(fb, i.at), i.else \o <<[k |-> "meet", arm |-> Arm(fb), ty |-> i.ty]>>)

\* Each arm that does not leave assigns the value, if there is one.
ArmEnds(fb, arm, result, join) ==
  IF IsOpen(fb, arm.cur)
  THEN JumpTo(AssignValue([fb EXCEPT !.cur = arm.cur, !.value = arm.value], result), arm.cur, join)
  ELSE fb
Meet(fb, i) ==
  LET join == Newest(fb) + 1
      t == NewTemp(NewBlock(fb), i.ty)
      result == NewestTemp(t, i.ty)
  IN IF i.ty = "plain"
     THEN NoValue(MoveTo(JoinIfOpen(JoinIfOpen(NewBlock(fb), i.arm.cur, join), fb.cur, join), join))
     ELSE WithValue(MoveTo(ArmEnds(ArmEnds(t, i.arm, result, join), Arm(fb), result, join), join), "move", result)

Refer(fb) == LET t == IntoTemp(fb, "owner") IN PointTo(t, NewestTemp(t, "owner"))
\* lower_receiver_operand, once the receiver has been lowered
Receive(fb, ty) == LET t == IntoTemp(fb, ty) IN PlaceOperand(t, NewestTemp(t, ty), ty)

Resume(fb, i) ==
  CASE i.k = "endScope" -> EndScope(fb)
    [] i.k = "else"     -> LowerElse(fb, i)
    [] i.k = "meet"     -> Meet(fb, i)
    [] i.k = "endLoop"  -> [fb EXCEPT !.loops = Front(@)]
    [] i.k = "join"     -> MoveTo(JoinIfOpen(fb, fb.cur, i.to), i.next)
    [] i.k = "arg"      -> LowerArgs(fb, i.left, i.operands \o fb.value, i.ty)
    [] i.k = "refer"    -> Refer(fb)
    [] i.k = "receive"  -> Receive(fb, i.ty)
    [] i.k = "store"    -> AssignValue(fb, i.l)

-----------------------------------------------------------------------------
(* Functions. *)

\* loop_target panics when there is no such loop: nothing follows.
Panics(fb) == Head(fb.todo).k \in {"break", "continue"} /\ Targets(fb, Head(fb.todo).label) = {}

Perform(fb, i) ==
  IF i.k \in StmtKinds THEN LowerStmt(Reroute(fb), i)
  ELSE IF i.k \in ExprKinds THEN LowerExpr(fb, i)
  ELSE Resume(fb, i)
\* No more temporaries than there are names for.
Named(fb) == \A ty \in TempTypes : fb.used[ty] <= Len(Temps[ty])
LowerStep(fb) ==
  LET next == Perform([fb EXCEPT !.todo = Tail(@)], Head(fb.todo)) IN
  IF fb.todo # <<>> /\ ~Panics(fb) /\ Named(next) THEN next ELSE fb

\* The builder after n steps.
Lowering(body) ==
  LET after[n \in 0 .. MaxSteps] == IF n = 0 THEN NewBuilder(body) ELSE LowerStep(after[n - 1]) IN after

\* lower_fn_body: a body that never lost its flow returns at its end.
ReturnAtEnd(fb) ==
  IF ~fb.diverged /\ fb.blocks[fb.cur].kind = "unreachable"
  THEN SetTerminator(fb, fb.cur, "return", <<>>, <<>>) ELSE fb

\* The terminator is the statement after the last.
MirBlock(block) ==
  [code |-> block.stmts \o Numbered(block.operands, Len(block.stmts) + 1), term |-> Len(block.stmts) + 1,
   succ |-> block.succ, kind |-> block.kind]
\* Blocks not used by this function are empty.
FunctionOf(fb, params, dropSelf) ==
  [entry |-> 1, params |-> params, dropSelf |-> dropSelf, size |-> Newest(fb),
   blocks |-> [b \in Blocks |-> MirBlock(IF b <= Newest(fb) THEN fb.blocks[b] ELSE OpenBlock)]]
LowerFn(params, dropSelf, body) == FunctionOf(ReturnAtEnd(Lowering(body)[MaxSteps]), params, dropSelf)

-----------------------------------------------------------------------------
\* Nothing of the body is left to do, and no statement is behind one that leaves.
Complete(body) == Lowering(body)[MaxSteps].todo = <<>> /\ ~Lowering(body)[MaxSteps].diverged

\* The trees of T move and write the locals of W only whole.
MovesWhole(T, W) ==
  \A s \in T :
    (s.k \in {"assign", "consume"} \/ (s.k = "return" /\ s.op = "move")) /\ s.p.local \in W
      => s.p.field = Whole

\* Two functions whose blocks differ in their statements only.
SameFlow(f, g) ==
  /\ f.entry = g.entry
  /\ \A b \in Blocks : f.blocks[b].kind = g.blocks[b].kind /\ f.blocks[b].succ = g.blocks[b].succ

\* f is g with drops of locals of D, as PromptDrops puts them, and reads, moves
\* and writes nothing else.
DropsAdded(f, g, D) ==
  /\ SameFlow(f, g)
  /\ \A b \in Blocks : \A i \in 1 .. Len(f.blocks[b].code) :
       LET e == f.blocks[b].code[i] IN
       \/ e.op = "move" /\ e.place \in {VarPlace(l) : l \in D}
       \/ \E j \in 1 .. Len(g.blocks[b].code) :
            LET d == g.blocks[b].code[j] IN e.op = d.op /\ e.place = d.place
=============================================================================
