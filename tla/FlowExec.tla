------------------------------- MODULE FlowExec -------------------------------
(***************************************************************************)
(* Runs the function that DataFlow accepted, with the drops it placed:     *)
(* what the emitted code does to the values (zeen-codegen-llvm).           *)
(***************************************************************************)
EXTENDS DataFlow

VARIABLES
  pc,       \* <<block, index>>: the entry about to be executed
  due,      \* drops placed before that entry and not yet executed
  env,      \* [Leaves -> {"uninit", "init", "moved"}]: what a slot holds
  dropped,  \* leaves whose value has been dropped
  lost      \* leaves whose live value became unreachable without a drop
runVars == <<pc, due, env, dropped, lost>>
vars == <<flowVars, runVars>>

\* The separately owned parts of a place.
LeavesOf(p) ==
  IF p.field = Whole /\ FieldsOf[p.local] # {}
  THEN {[local |-> p.local, field |-> f] : f \in FieldsOf[p.local]} ELSE {p}
Leaves == UNION {LeavesOf([local |-> l, field |-> Whole]) : l \in Locals}

Live(leaf) == env[leaf] = "init" /\ leaf \notin dropped
\* Leaves of a place that own something nobody else will release.
Owning(p) == {leaf \in LeavesOf(p) : Live(leaf) /\ (leaf.local \in DropWhole \/ leaf.field \in DropFields)}

ExecInit ==
  /\ pc = <<fn.entry, 1>> /\ due = {} /\ dropped = {} /\ lost = {}
  /\ env = [leaf \in Leaves |-> IF leaf.local \in fn.params THEN "init" ELSE "uninit"]

Goto(b, i) == pc' = <<b, i>> /\ due' = DropsAt(b, i)

Start ==
  /\ Accepted
  /\ phase' = "run"
  /\ Goto(fn.entry, 1)
  /\ UNCHANGED <<fn, worklist, cur, edge, blockIn, seen, errors, env, dropped, lost>>

Running == phase = "run" /\ due = {}
InBlock == Running /\ pc[2] <= Len(Code(pc[1]))
Instr == Code(pc[1])[pc[2]]
Executes(op) == InBlock /\ Instr.op = op
Step == Goto(pc[1], pc[2] + 1) /\ UNCHANGED flowVars

\* MirStatement::Drop
ExecDrop ==
  /\ phase = "run"
  /\ \E d \in due : due' = due \ {d} /\ dropped' = dropped \cup LeavesOf(d[2])
  /\ UNCHANGED <<flowVars, pc, env, lost>>

ExecCopy == Executes("copy") /\ Step /\ UNCHANGED <<env, dropped, lost>>

ExecMove ==
  /\ Executes("move") /\ Step
  /\ env' = [leaf \in Leaves |-> IF leaf \in LeavesOf(Instr.place) THEN "moved" ELSE env[leaf]]
  /\ UNCHANGED <<dropped, lost>>

\* A store overwrites what the slot held.
ExecWrite ==
  /\ Executes("write") /\ Step
  /\ env' = [leaf \in Leaves |-> IF leaf \in LeavesOf(Instr.place) THEN "init" ELSE env[leaf]]
  /\ dropped' = dropped \ LeavesOf(Instr.place)
  /\ lost' = lost \cup Owning(Instr.place)

\* The next iteration's variable takes the slot of the previous one.
ExecLive ==
  /\ Executes("live") /\ Step
  /\ env' = [leaf \in Leaves |-> IF leaf.local = Instr.place.local THEN "uninit" ELSE env[leaf]]
  /\ dropped' = {leaf \in dropped : leaf.local # Instr.place.local}
  /\ lost' = lost \cup Owning(Instr.place)

ExecDead ==
  /\ Executes("dead") /\ Step
  /\ lost' = lost \cup Owning(Instr.place)
  /\ UNCHANGED <<env, dropped>>

\* goto, switch and call: the condition is left open.
ExecBranch ==
  /\ Running /\ ~InBlock /\ fn.blocks[pc[1]].kind = "flow"
  /\ \E s \in ToSet(Succ(pc[1])) : Goto(s, 1)
  /\ UNCHANGED <<flowVars, env, dropped, lost>>

ExecReturn ==
  /\ Running /\ ~InBlock /\ fn.blocks[pc[1]].kind = "return"
  /\ phase' = "returned"
  /\ lost' = lost \cup UNION {Owning([local |-> l, field |-> Whole]) : l \in Locals \ {fn.dropSelf}}
  /\ UNCHANGED <<fn, worklist, cur, edge, blockIn, seen, errors, pc, due, env, dropped>>

Init == FlowInit /\ ExecInit
Analysis == FlowNext /\ UNCHANGED runVars
Execution ==
  \/ Start \/ ExecDrop \/ ExecCopy \/ ExecMove \/ ExecWrite
  \/ ExecLive \/ ExecDead \/ ExecBranch \/ ExecReturn
Next == Analysis \/ Execution
Spec == Init /\ [][Next]_vars /\ WF_vars(Analysis)

-----------------------------------------------------------------------------
\* A local that f moves and writes only as a whole; it may read its fields.
MovedWhole(f, l) ==
  \A b \in Blocks : \A i \in 1 .. Len(f.blocks[b].code) :
    LET e == f.blocks[b].code[i] IN e.op \in {"move", "write"} /\ e.place.local = l => e.place.field = Whole

\* The states the analysis can be in.
TypeOK ==
  /\ phase \in {"scan", "done", "run", "returned"}
  /\ cur \in Blocks \cup {None} /\ edge \in Nat \ {0}
  /\ worklist \in Seq(Blocks)
  /\ blockIn \in [Blocks -> FunctionStates \cup {None}]
  /\ seen \in [Blocks -> Seq(FunctionStates)]
  /\ env \in [Leaves -> {"uninit", "init", "moved"}]
  /\ dropped \subseteq Leaves /\ lost \subseteq Leaves

Reads == InBlock /\ Instr.op \in {"copy", "move"}

\* An accepted function never reads a value that is uninitialized or was moved
\* out on the path taken (check_read against every execution, joins and loops
\* included).
NoUseAfterMove == Reads => \A leaf \in LeavesOf(Instr.place) : env[leaf] = "init"

\* No read of a value after the drop placed for it (drop_insert_position). The
\* operand a return copies is excepted: insert_drops drops before the
\* terminator reads it, from a slot the drop itself leaves as it was.
NoUseAfterDrop ==
  Reads /\ ~(Instr.op = "copy" /\ fn.blocks[pc[1]].kind = "return" /\ pc[2] >= fn.blocks[pc[1]].term)
    => LeavesOf(Instr.place) \cap dropped = {}

\* Every drop that is executed finds a live value: nothing is dropped twice,
\* dropped after it was moved away, or dropped before it was written.
DropIsLive(d) == \A leaf \in LeavesOf(d[2]) : Live(leaf)
DropsAreLive == phase = "run" => \A d \in due : DropIsLive(d)

\* What the analysis knows to be initialized where its scope ends, at its
\* StorageDead or at a return, has been dropped by then on every path.
LocalIsReleased(l) ==
  /\ Executes("dead") /\ Instr.place.local = l /\ seen[pc[1]][pc[2]][l] = AsWhole("Initialized")
       => Owning(Instr.place) = {}
  /\ Running /\ ~InBlock /\ fn.blocks[pc[1]].kind = "return" /\ l # fn.dropSelf
       /\ Last(seen[pc[1]])[l] = AsWhole("Initialized")
       => Owning([local |-> l, field |-> Whole]) = {}
OwnedIsReleased == \A l \in Locals : LocalIsReleased(l)

\* Whatever an accepted function owned has been released when it returns.
AllReleased == phase = "returned" => lost = {}

\* No execution runs off a block whose terminator was never set.
NoFallThrough == Running /\ ~InBlock => fn.blocks[pc[1]].kind # "unreachable"

\* At the fixpoint a second pass over any block changes no entry state.
FixpointStable ==
  phase = "done" =>
    \A b \in Blocks : blockIn[b] # None =>
      /\ Visited(b) /\ seen[b][1] = blockIn[b]
      /\ \A s \in ToSet(Succ(b)) : blockIn[s] # None /\ Merge(blockIn[s], Last(seen[b])) = blockIn[s]

\* The analysis of any function ends.
AnalysisEnds == <>(phase # "scan")
=============================================================================
