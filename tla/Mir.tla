---------------------------------- MODULE Mir ----------------------------------
(***************************************************************************)
(* MIR functions (zeen-mir/lib.rs), as far as ownership depends on them.   *)
(* A function is a record of                                               *)
(*   entry    the entry block                                              *)
(*   params   the parameters                                               *)
(*   dropSelf the self parameter of a Drop implementation, or None         *)
(*   size     the number of its blocks                                     *)
(*   blocks   [Blocks -> block], a block being a record of                 *)
(*     code   its statements and terminator as the sequence of reads and   *)
(*            writes they consist of, each [op, place, stmt] with the      *)
(*            number of its statement                                      *)
(*     term   the index of the first entry that belongs to the terminator  *)
(*     succ   the successor blocks, in successor_blocks order              *)
(*     kind   "flow" (goto, switch, call; a call that never returns has no *)
(*            successor), "return", or "unreachable"                       *)
(*                                                                         *)
(* A place is a local and its FIRST field projection, which is all that    *)
(* first_field looks at; Whole stands for a place with no such projection. *)
(***************************************************************************)
EXTENDS FiniteSets, Naturals, Sequences

CONSTANTS
  Locals,       \* the named locals, parameters and temporaries of a function
  Fields,       \* field definitions
  FieldsOf,     \* [Locals -> SUBSET Fields]: the fields of the local's struct type, {} otherwise
  Whole,        \* the absent projection, not a field
  Blocks,       \* block identifiers
  None

ASSUME FieldsAssumption ==
  /\ FieldsOf \in [Locals -> SUBSET Fields]
  /\ Whole \notin Fields

Places == [local : Locals, field : Fields \cup {Whole}]
\* A local as a whole, or one of the fields it has.
PlacesOf(l) == [local : {l}, field : FieldsOf[l] \cup {Whole}]

OpKinds == {"copy", "move", "write", "live", "dead"}
Entries == [op : OpKinds, place : Places, stmt : Nat]
MirBlocks ==
  [code : Seq(Entries), term : Nat, succ : Seq(Blocks), kind : {"flow", "return", "unreachable"}]

\* The entries of a block follow the order of its statements; a StorageDead is a
\* statement of its own, and the terminator that returns only reads.
InStatementOrder(block) ==
  LET code == block.code IN
  /\ block.term \in 1 .. Len(code) + 1
  /\ \A i, j \in 1 .. Len(code) : i < j => code[i].stmt <= code[j].stmt
  /\ \A j \in 1 .. Len(code) : code[j].op = "dead" =>
       j < block.term /\ \A i \in 1 .. j - 1 : code[i].stmt < code[j].stmt
  /\ block.kind = "return" => \A j \in block.term .. Len(code) : code[j].op \in {"copy", "move"}

WellFormed(f) ==
  /\ f.entry \in Blocks /\ f.params \subseteq Locals
  /\ f.blocks \in [Blocks -> MirBlocks]
  /\ \A b \in Blocks : \A i \in 1 .. Len(f.blocks[b].code) :
       LET p == f.blocks[b].code[i].place IN p.field \in FieldsOf[p.local] \cup {Whole}
  /\ \A b \in Blocks : InStatementOrder(f.blocks[b])
=============================================================================
