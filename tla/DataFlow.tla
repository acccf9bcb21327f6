------------------------------- MODULE DataFlow -------------------------------
(***************************************************************************)
(* DataFlow::analyze_function (zeen-flow/analysis.rs): the forward pass    *)
(* over the MIR of one function that finds what is initialized or moved at *)
(* every point, reports misuse, and decides where values are dropped.      *)
(*                                                                         *)
(* block_in_states is blockIn. seen[b] holds the states before each entry  *)
(* of b in its last pass and, last, the one after the block: current is    *)
(* its last element while b is scanned, storage_states are its values at   *)
(* the StorageDead entries, exit_states its last value at a Return. edge   *)
(* is the position in succ of the successor about to be entered.           *)
(***************************************************************************)
EXTENDS FlowState, SequencesExt

CONSTANTS
  Functions,    \* the MIR functions analysed, one per behaviour
  DropWhole,    \* locals dropped as one value: a Drop implementation, an enum, a closure
  DropFields,   \* fields whose type needs drop
  Unnamed       \* temporaries: locals without a name

ASSUME DropAssumption == DropWhole \subseteq Locals /\ DropFields \subseteq Fields /\ Unnamed \subseteq Locals

\* The functions are well-formed MIR.
ASSUME FunctionsAssumption ==
  /\ None \notin Blocks /\ None \notin FunctionStates
  /\ \A f \in Functions : WellFormed(f)

VARIABLES fn, phase, worklist, cur, edge, blockIn, seen, errors
flowVars == <<fn, phase, worklist, cur, edge, blockIn, seen, errors>>

Code(b) == fn.blocks[b].code
Succ(b) == fn.blocks[b].succ
Current == Last(seen[cur])
Op == Code(cur)[Len(seen[cur])]
Scanning == phase = "scan" /\ cur # None
AtTerminator == Scanning /\ Len(seen[cur]) = Len(Code(cur)) + 1
At(op) == Scanning /\ Len(seen[cur]) <= Len(Code(cur)) /\ Op.op = op

\* type_needs_drop
NeedsDrop(l) == l \in DropWhole \/ FieldsOf[l] \cap DropFields # {}

\* A diagnostic names the local (local_name_and_source): of a temporary, which
\* has no name, nothing is ever reported.
Reported(kind, p) == IF p.local \in Unnamed THEN {} ELSE {[kind |-> kind, place |-> p]}

\* check_read and read_error
ReadErrors(st, p) ==
  LET outcome == ReadPlace(st, p) IN
  CASE outcome = "Ok" -> {}
    [] outcome \in {"Uninitialized", "MaybeInitialized"} -> Reported("UseOfUninitialized", p)
    [] outcome \in {"Moved", "MaybeMoved"} -> Reported("UseAfterMove", p)
    [] OTHER -> Reported("UseOfPartiallyMoved", p)

FlowInit ==
  /\ fn \in Functions
  /\ phase = "scan"
  /\ worklist = <<fn.entry>>
  /\ cur = None /\ edge = 1
  /\ blockIn = [b \in Blocks |->
       IF b = fn.entry
       THEN [l \in Locals |-> AsWhole(IF l \in fn.params THEN "Initialized" ELSE "Uninitialized")]
       ELSE None]
  /\ seen = [b \in Blocks |-> <<>>]
  /\ errors = {}

\* worklist.pop(): the block is scanned again from its current entry state.
PopBlock ==
  /\ phase = "scan" /\ cur = None /\ worklist # <<>>
  /\ cur' = Last(worklist)
  /\ worklist' = Front(worklist)
  /\ seen' = [seen EXCEPT ![cur'] = <<blockIn[cur']>>]
  /\ edge' = 1
  /\ UNCHANGED <<fn, phase, blockIn, errors>>

\* The state after the entry, and the diagnostics it raises.
Record(st, errs) ==
  /\ seen' = [seen EXCEPT ![cur] = Append(@, st)]
  /\ errors' = errors \cup errs
  /\ UNCHANGED <<fn, phase, worklist, cur, edge, blockIn>>

\* consume_copy_place
ConsumeCopy == At("copy") /\ Record(Current, ReadErrors(Current, Op.place))

\* consume_move_place of a value that is not Copy
ConsumeMove ==
  /\ At("move")
  /\ LET p == Op.place
         out == IF p.field # Whole /\ p.local \in DropWhole
                THEN Reported("MoveOutOfDrop", p) ELSE {}
     IN Record(MovePlace(Current, p), ReadErrors(Current, p) \cup out)

\* write_destination
WriteDestination == At("write") /\ Record(WritePlace(Current, Op.place), {})

\* StorageLive makes the local uninitialized, StorageDead marks it moved.
StorageLive ==
  At("live") /\ Record([Current EXCEPT ![Op.place.local] = AsWhole("Uninitialized")], {})
StorageDead ==
  At("dead") /\ Record([Current EXCEPT ![Op.place.local] = AsWhole("Moved")], {})

\* The terminator's successors, in order: the state is merged into the entry
\* state of each, and one seen for the first time or changed by the merge goes
\* on the worklist.
NextEntry == Merge(blockIn[Succ(cur)[edge]], Current)
RequeueUnseen(old, new) == old = None  \* mutant: a changed one is not scanned again
RequeueAlways(old, new) == TRUE        \* mutant: an unchanged one is, too
Requeue(old, new) == old # new

EnterSuccessor ==
  /\ AtTerminator /\ edge <= Len(Succ(cur))
  /\ LET s == Succ(cur)[edge]
         entry == IF blockIn[s] = None THEN Current ELSE NextEntry
     IN /\ blockIn' = [blockIn EXCEPT ![s] = entry]
        /\ worklist' = IF Requeue(blockIn[s], entry) THEN Append(worklist, s) ELSE worklist
  /\ edge' = edge + 1
  /\ UNCHANGED <<fn, phase, cur, seen, errors>>

EndBlock ==
  /\ AtTerminator /\ edge > Len(Succ(cur))
  /\ cur' = None
  /\ UNCHANGED <<fn, phase, worklist, edge, blockIn, seen, errors>>

-----------------------------------------------------------------------------
(* Drop placement, from the states of the finished pass. *)

\* expand_live_drops and expand_partial_drops
LiveDrops(l) ==
  IF l \in DropWhole THEN {[local |-> l, field |-> Whole]}
  ELSE {[local |-> l, field |-> f] : f \in FieldsOf[l] \cap DropFields}
PartialDropsAll(l, s) == LiveDrops(l)  \* mutant: moved fields are dropped, too
PartialDrops(l, s) ==
  IF l \in DropWhole THEN {}
  ELSE {[local |-> l, field |-> f] : f \in {g \in FieldsOf[l] \cap DropFields : FieldState(s, g) = "Initialized"}}

\* collect_local_drops; a maybe moved or maybe initialized local is not dropped.
LocalDrops(l, s) ==
  IF s.tag = "Partial" THEN PartialDrops(l, s)
  ELSE IF s.value = "Initialized" THEN LiveDrops(l) ELSE {}

Visited(b) == Len(seen[b]) = Len(Code(b)) + 1
DeadPoints(b) == {k \in 1 .. Len(Code(b)) : Code(b)[k].op = "dead" /\ NeedsDrop(Code(b)[k].place.local)}

\* stmt_reads_local and stmt_writes_local, over the entries js of a block
EntriesOn(code, js, l, ops) == {j \in js : code[j].op \in ops /\ code[j].place.local = l}
FirstRead(reads) == CHOOSE j \in reads : \A i \in reads : j <= i  \* mutant of LastRead
LastRead(reads) == CHOOSE j \in reads : \A i \in reads : i <= j
RewrittenNever(code, after, l) == FALSE  \* mutant: the later write is overlooked
Rewritten(code, after, l) == EntriesOn(code, after, l, {"write"}) # {}

\* drop_insert_position: right after the last statement of the block that
\* reads the local, unless a later statement writes it.
HoistPoint(b, k) ==
  LET code == Code(b)
      l == code[k].place.local
      reads == EntriesOn(code, 1 .. k - 1, l, {"copy", "move"})
      after == {j \in 1 .. k : code[j].stmt > code[LastRead(reads)].stmt}
  IN IF reads = {} \/ Rewritten(code, after, l) THEN k ELSE CHOOSE j \in after : \A i \in after : j <= i

\* insert_scope_drops
ScopeDropsAt(b, i) ==
  UNION {LET l == Code(b)[k].place.local IN {k} \X LocalDrops(l, seen[b][k][l]) :
         k \in {j \in DeadPoints(b) : HoistPoint(b, j) = i}}

\* insert_drops: before the terminator of a returning block, for what is still
\* live in its exit state; never the self parameter of a Drop implementation.
ExitDropsAt(b, i) ==
  IF fn.blocks[b].kind # "return" \/ i # fn.blocks[b].term THEN {}
  ELSE {<<0, p>> : p \in {q \in Places : /\ q \in LocalDrops(q.local, Last(seen[b])[q.local])
                                         /\ q # [local |-> fn.dropSelf, field |-> Whole]}}

DropsAt(b, i) == IF Visited(b) THEN ScopeDropsAt(b, i) \cup ExitDropsAt(b, i) ELSE {}

\* The scope-end diagnostics of insert_scope_drops.
ScopeErrors ==
  UNION {UNION {Reported("MaybeUninitializedDrop", Code(b)[k].place) :
                  k \in {j \in DeadPoints(b) : /\ Visited(b)
                                              /\ seen[b][j][Code(b)[j].place.local] = AsWhole("MaybeInitialized")}}
          : b \in Blocks}

\* insert_scope_drops, insert_drops and finish: the function is accepted when
\* no error was reported.
Finish ==
  /\ phase = "scan" /\ cur = None /\ worklist = <<>>
  /\ phase' = "done"
  /\ errors' = errors \cup ScopeErrors
  /\ UNCHANGED <<fn, worklist, cur, edge, blockIn, seen>>

FlowNext ==
  \/ PopBlock \/ ConsumeCopy \/ ConsumeMove \/ WriteDestination
  \/ StorageLive \/ StorageDead \/ EnterSuccessor \/ EndBlock \/ Finish

Accepted == phase = "done" /\ errors = {}
=============================================================================
