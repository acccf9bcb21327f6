----------------------------- MODULE PromptDrops -----------------------------
(***************************************************************************)
(* insert_prompt_drops (zeen-flow/liveness.rs), which runs on a function   *)
(* before DataFlow does: a temporary that owns something, and that nobody  *)
(* moves, is dropped where neither it nor anything derived from it is      *)
(* live. A drop is an entry that moves the temporary, as apply_statement   *)
(* takes it.                                                               *)
(*                                                                         *)
(* The worklists for liveness and dominators stop at the extreme solutions *)
(* of their equations, which Liveness and Dominance reach in rounds.       *)
(***************************************************************************)
EXTENDS Mir, SequencesExt, FiniteSetsExt

CONSTANTS Owners,   \* the temporaries whose type needs drop
          Views     \* the locals that may hold a pointer

ReadOps == {"copy", "move"}
Code(f, b) == f.blocks[b].code
Term(f, b) == f.blocks[b].term
Preds(f, b) == {p \in 1 .. f.size : b \in ToSet(f.blocks[p].succ)}
UsedBlocks(f) == 1 .. f.size

\* The statements of a block, each a set of entries; the rest is the terminator.
Stmts(f, b) == {{j \in 1 .. Term(f, b) - 1 : Code(f, b)[j].stmt = Code(f, b)[i].stmt} : i \in 1 .. Term(f, b) - 1}
InOrder(stmts) == SetToSortSeq(stmts, LAMBDA s, t : Min(s) < Min(t))
TermEntries(f, b) == Term(f, b) .. Len(Code(f, b))

On(f, b, js, ops) == {Code(f, b)[j].place.local : j \in {i \in js : Code(f, b)[i].op \in ops}}
\* stmt_uses, terminator_uses
Used(f, b, js) == On(f, b, js, ReadOps)
\* stmt_def, terminator_def
Defined(f, b, js) == On(f, b, {j \in js : Code(f, b)[j].place.field = Whole}, {"write"})

-----------------------------------------------------------------------------
(* Liveness. *)

\* The destination of a call is not among the definitions of its block.
Kills(f, b, js) == Defined(f, b, js) \cup On(f, b, js, {"live"})
Defs(f, b) == Kills(f, b, 1 .. Term(f, b) - 1)
Exposed(f, b) ==
  {j \in DOMAIN Code(f, b) : Code(f, b)[j].place.local \notin Kills(f, b, {i \in 1 .. Term(f, b) - 1 : i < j})}
Uses(f, b) ==
  Used(f, b, Exposed(f, b))
  \cup On(f, b, {j \in 1 .. Term(f, b) - 1 : Code(f, b)[j].place.field # Whole}, {"write"})

LiveOut(f, in, b) == UNION {in[s] : s \in ToSet(f.blocks[b].succ)}
RECURSIVE Liveness(_, _, _, _)
Liveness(f, uses, defs, in) ==
  LET next == [b \in UsedBlocks(f) |-> uses[b] \cup (LiveOut(f, in, b) \ defs[b])]
  IN IF next = in THEN in ELSE Liveness(f, uses, defs, next)
LiveIn(f) ==
  Liveness(f, [b \in UsedBlocks(f) |-> Uses(f, b)], [b \in UsedBlocks(f) |-> Defs(f, b)],
           [b \in UsedBlocks(f) |-> {}])

\* What is live after statement s of b, by walking back from the end of b.
AfterLater(f, b, live, s) == (live \cup Used(f, b, s)) \ Kills(f, b, s)
LiveAfter(f, in, b, s) ==
  LET term == TermEntries(f, b)
      end == (LiveOut(f, in, b) \ Defined(f, b, term)) \cup Used(f, b, term)
      later == InOrder({t \in Stmts(f, b) : Min(t) > Max(s)})
  IN FoldLeft(LAMBDA live, t : AfterLater(f, b, live, t), end, Reverse(later))

\* Mutant of DropPoints: only inside the blocks.
InnerPoints(f, in) ==
  UNION {{[block |-> b, at |-> Max(s) + 1, after |-> Min(s), live |-> LiveAfter(f, in, b, s)] :
            s \in Stmts(f, b)} : b \in UsedBlocks(f)}

\* Where a drop may go, with what is live there: before the first statement of
\* a block, or after the statement that begins at entry after (aft).
DropPoints(f, in) ==
  {[block |-> b, at |-> 1, after |-> 0, live |-> in[b]] : b \in UsedBlocks(f)}
  \cup UNION {{[block |-> b, at |-> Max(s) + 1, after |-> Min(s), live |-> LiveAfter(f, in, b, s)] :
                 s \in Stmts(f, b)} : b \in UsedBlocks(f)}

-----------------------------------------------------------------------------
(* Dominators. A block without predecessors, though it cannot be reached,  *)
(* is dominated by itself only.                                            *)

RECURSIVE Dominance(_, _, _)
Dominance(f, preds, dom) ==
  LET Common(ps) == {d \in UsedBlocks(f) : ps # {} /\ \A p \in ps : d \in dom[p]}
      next == [b \in UsedBlocks(f) |-> {b} \cup (IF b = f.entry THEN {} ELSE Common(preds[b]))]
  IN IF next = dom THEN dom ELSE Dominance(f, preds, next)
Dominators(f) ==
  Dominance(f, [b \in UsedBlocks(f) |-> Preds(f, b)],
            [b \in UsedBlocks(f) |-> IF b = f.entry THEN {b} ELSE UsedBlocks(f)])

-----------------------------------------------------------------------------
(* What points where. *)

\* The statements and the terminator of every block, in the order of the blocks.
CodeOf(f, b) == [i \in 1 .. Cardinality(Stmts(f, b)) |-> <<b, InOrder(Stmts(f, b))[i]>>] \o <<<<b, TermEntries(f, b)>>>>
AllCode(f) == FlattenSeq([b \in 1 .. f.size |-> CodeOf(f, b)])
StmtsOf(f, code) == SelectSeq(code, LAMBDA bs : bs[2] # TermEntries(f, bs[1]))

\* Rvalue::Ref: what is copied and is no pointer has its address taken.
IsRef(f, b, js) == On(f, b, js, {"copy"}) \ Views # {} /\ Defined(f, b, js) # {}

\* addr_src: the local whose address a local is, by the last assignment seen.
AddrAfter(f, src, bs) ==
  LET read == Used(f, bs[1], bs[2])
      defined == Defined(f, bs[1], bs[2])
      root == IF read = {} THEN None
              ELSE LET l == CHOOSE l \in read : TRUE IN IF IsRef(f, bs[1], bs[2]) THEN l ELSE src[l]
  IN [l \in Locals |-> IF l \in defined THEN root ELSE src[l]]
RECURSIVE AddrRounds(_, _, _)
AddrRounds(f, stmts, src) ==
  LET next == FoldLeft(LAMBDA acc, bs : AddrAfter(f, acc, bs), src, stmts)
  IN IF next = src THEN src ELSE AddrRounds(f, stmts, next)
AddrSrc(f, code) == AddrRounds(f, StmtsOf(f, code), [l \in Locals |-> None])

\* borrow_source: the end of the chain of addresses, or None.
RECURSIVE ChainEnd(_, _, _)
ChainEnd(src, l, passed) ==
  IF src[l] = None \/ l \in passed THEN l ELSE ChainEnd(src, src[l], passed \cup {l})
BorrowSources(src, locals) == {ChainEnd(src, l, {}) : l \in {k \in locals : src[k] # None}}

\* borrows: what the result of a copy or of a call was made of, by the last
\* assignment that was made of something.
BorrowAfter(f, src, held, bs) ==
  LET sources == IF IsRef(f, bs[1], bs[2]) THEN {} ELSE BorrowSources(src, Used(f, bs[1], bs[2]))
  IN IF sources = {} THEN held
     ELSE [l \in Locals |-> IF l \in Defined(f, bs[1], bs[2]) THEN sources ELSE held[l]]
Borrows(f, code, src) ==
  FoldLeft(LAMBDA acc, bs : BorrowAfter(f, src, acc, bs), [l \in Locals |-> {}], code)

\* Mutant of DerivedOnce: not what calls return.
DerivedFromAddress(src, held, from) == {l \in Locals : src[l] \in from}
\* derived_set
DerivedOnce(src, held, from) == {l \in Locals : src[l] \in from \/ held[l] \cap from # {}}
RECURSIVE DerivedFrom(_, _, _)
DerivedFrom(src, held, from) ==
  LET next == from \cup DerivedOnce(src, held, from)
  IN IF next = from THEN from ELSE DerivedFrom(src, held, next)
DerivedSet(src, held, temp) == DerivedFrom(src, held, {temp}) \ {temp}

-----------------------------------------------------------------------------
(* Where a temporary is dropped. *)

Moved(f) == UNION {On(f, b, DOMAIN Code(f, b), {"move"}) : b \in UsedBlocks(f)}
Eligible(f) == (Owners \cap UNION {On(f, b, DOMAIN Code(f, b), {"write"}) : b \in UsedBlocks(f)}) \ Moved(f)

\* defpos: the first block that defines the temporary, and its definition there
DefBlock(f, temp) == Min({b \in UsedBlocks(f) : temp \in Defined(f, b, DOMAIN Code(f, b))})
DefEntry(f, temp) ==
  LET b == DefBlock(f, temp) IN Min({j \in DOMAIN Code(f, b) : temp \in Defined(f, b, {j})})

\* The points temp may be dropped at: in blocks its definition dominates, in its
\* own block from the second statement after it on, where neither temp nor what
\* is derived from it is live.
DeadPoints(f, points, dom, temp, derived) ==
  {p \in points : /\ DefBlock(f, temp) \in dom[p.block]
                  /\ p.block = DefBlock(f, temp) => p.after > DefEntry(f, temp)
                  /\ p.live \cap (derived \cup {temp}) = {}}

\* One drop for each temporary, at the first such point of the first such block.
Before(p, q) == p.block < q.block \/ (p.block = q.block /\ p.at <= q.at)
FirstPoint(points) == {p \in points : \A q \in points : Before(p, q)}

\* The drop of temp, numbered between the statements around it.
DropEntry(at, temp) == [op |-> "move", place |-> [local |-> temp, field |-> Whole], stmt |-> 2 * at - 1]
Spread(e) == [e EXCEPT !.stmt = 2 * @]
WithDrops(f, b, drops) ==
  LET here(i) == SetToSeq({DropEntry(i, d[2]) : d \in {e \in drops : e[1].block = b /\ e[1].at = i}})
  IN [f.blocks[b] EXCEPT
        !.code = FlattenSeq([i \in 1 .. Len(@) + 1 |->
                   here(i) \o (IF i <= Len(@) THEN <<Spread(@[i])>> ELSE <<>>)]),
        !.term = @ + Cardinality({d \in drops : d[1].block = b})]

Drops(f, temps) ==
  LET in == LiveIn(f)
      points == DropPoints(f, in)
      dom == Dominators(f)
      code == AllCode(f)
      src == AddrSrc(f, code)
      held == Borrows(f, code, src)
  IN UNION {FirstPoint(DeadPoints(f, points, dom, t, DerivedSet(src, held, t))) \X {t} : t \in temps}

InsertPromptDrops(f) ==
  LET drops == Drops(f, Eligible(f)) IN
  IF drops = {} THEN f ELSE [f EXCEPT !.blocks = [b \in Blocks |-> WithDrops(f, b, drops)]]
=============================================================================
