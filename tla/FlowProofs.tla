------------------------------- MODULE FlowProofs -------------------------------
(***************************************************************************)
(* The analysis and the execution of its result, for any function. First   *)
(* the value-state domain: joins are typed, idempotent, and once a state   *)
(* has been joined in, further joins keep it absorbed, which lets the      *)
(* analysis rescan only the blocks whose entry state changed. Then the     *)
(* types, the fixpoint, what an accepted function reads, and what its      *)
(* drops find and release. Then lowering: the invariant of the builder,    *)
(* that what it makes is well-formed, and that no execution leaves it but  *)
(* by a return. At the end, both together.                                 *)
(***************************************************************************)
EXTENDS FlowExec, MirLower, SequenceTheorems, WellFoundedInduction, TLAPS

LEMMA FunctionFacts ==
  /\ None \notin Blocks /\ None \notin FunctionStates
  /\ \A f \in Functions :
       /\ f.entry \in Blocks /\ f.params \subseteq Locals
       /\ f.blocks \in [Blocks -> MirBlocks]
       /\ \A b \in Blocks : \A i \in 1 .. Len(f.blocks[b].code) :
            LET p == f.blocks[b].code[i].place IN p.field \in FieldsOf[p.local] \cup {Whole}
       /\ \A b \in Blocks : InStatementOrder(f.blocks[b])
BY FunctionsAssumption DEF WellFormed

LEMMA PartialIntro ==
  ASSUME NEW S \in SUBSET Fields, NEW fs \in [S -> ValueStates], NEW u \in ValueStates
  PROVE  AsPartial(fs, u) \in LocalStates
BY DEF AsPartial, LocalStates, PartialStates

LEMMA PartialElim ==
  ASSUME NEW s \in LocalStates, s.tag = "Partial"
  PROVE  /\ DOMAIN s.fields \in SUBSET Fields
         /\ s.fields \in [DOMAIN s.fields -> ValueStates]
         /\ s.untracked \in ValueStates
         /\ s = AsPartial(s.fields, s.untracked)
BY DEF AsPartial, LocalStates, PartialStates, WholeStates

LEMMA WholeIntro ==
  ASSUME NEW v \in ValueStates
  PROVE  AsWhole(v) \in LocalStates
BY DEF AsWhole, LocalStates, WholeStates

LEMMA WholeElim ==
  ASSUME NEW s \in LocalStates, s.tag # "Partial"
  PROVE  s.tag = "Whole" /\ s.value \in ValueStates /\ s = AsWhole(s.value)
BY DEF AsWhole, LocalStates, PartialStates, WholeStates

LEMMA JoinValueFacts ==
  ASSUME NEW x \in ValueStates, NEW y \in ValueStates, NEW z \in ValueStates
  PROVE  /\ JoinValue(x, y) \in ValueStates
         /\ JoinValue(JoinValue(x, y), y) = JoinValue(x, y)
         /\ JoinValue(JoinValue(x, y), x) = JoinValue(x, y)
         /\ JoinValue(x, x) = x
         /\ JoinValue(x, y) = x => JoinValue(JoinValue(x, z), y) = JoinValue(x, z)
         /\ JoinValue(x, y) = "Initialized" => x = "Initialized" /\ y = "Initialized"
BY DEF JoinValue, ValueStates

LEMMA FieldStateType ==
  ASSUME NEW p \in LocalStates, p.tag = "Partial", NEW f
  PROVE  FieldState(p, f) \in ValueStates
BY PartialElim DEF FieldState

LEMMA SetFieldType ==
  ASSUME NEW p \in LocalStates, p.tag = "Partial", NEW f \in Fields, NEW v \in ValueStates
  PROVE  SetField(p, f, v) \in LocalStates
<1> DEFINE fs == [g \in DOMAIN p.fields \cup {f} |-> IF g = f THEN v ELSE p.fields[g]]
<1>1. p = AsPartial(p.fields, p.untracked) /\ DOMAIN p.fields \in SUBSET Fields
  BY PartialElim
<1>2. SetField(p, f, v) = AsPartial(fs, p.untracked)
  BY <1>1 DEF SetField, AsPartial
<1>3. fs \in [DOMAIN p.fields \cup {f} -> ValueStates]
  BY PartialElim
<1> QED
  BY <1>1, <1>2, <1>3, PartialElim, PartialIntro

LEMMA JoinFieldFacts ==
  ASSUME NEW a \in LocalStates, NEW b \in LocalStates, a.tag = "Partial", b.tag = "Partial"
  PROVE  /\ JoinLocal(a, b) \in LocalStates
         /\ JoinLocal(a, b).tag = "Partial"
         /\ JoinLocal(a, b).untracked = a.untracked
         /\ DOMAIN JoinLocal(a, b).fields = DOMAIN a.fields \cup DOMAIN b.fields
         /\ \A f \in DOMAIN b.fields : JoinLocal(a, b).fields[f] = JoinValue(FieldState(a, f), b.fields[f])
         /\ \A f \in DOMAIN a.fields \ DOMAIN b.fields : JoinLocal(a, b).fields[f] = a.fields[f]
<1> DEFINE D == DOMAIN a.fields \cup DOMAIN b.fields
           fs == [f \in D |-> IF f \in DOMAIN b.fields THEN JoinValue(FieldState(a, f), b.fields[f])
                              ELSE a.fields[f]]
<1>1. JoinLocal(a, b) = AsPartial(fs, a.untracked)
  BY DEF JoinLocal
<1>2. fs \in [D -> ValueStates]
  BY PartialElim, FieldStateType, JoinValueFacts
<1>3. D \in SUBSET Fields
  BY PartialElim
<1>4. AsPartial(fs, a.untracked) \in LocalStates
  BY <1>2, <1>3, PartialElim, PartialIntro
<1> QED
  BY <1>1, <1>4 DEF AsPartial

LEMMA JoinPartialWholeFacts ==
  ASSUME NEW p \in LocalStates, p.tag = "Partial", NEW w \in ValueStates
  PROVE  /\ JoinPartialWhole(p, w) \in LocalStates
         /\ JoinPartialWhole(p, w).tag = "Partial"
         /\ JoinPartialWhole(p, w).untracked = JoinValue(p.untracked, w)
         /\ DOMAIN JoinPartialWhole(p, w).fields = DOMAIN p.fields
         /\ \A f \in DOMAIN p.fields : JoinPartialWhole(p, w).fields[f] = JoinValue(p.fields[f], w)
<1> DEFINE fs == [f \in DOMAIN p.fields |-> JoinValue(p.fields[f], w)]
<1>1. fs \in [DOMAIN p.fields -> ValueStates] /\ JoinValue(p.untracked, w) \in ValueStates
  BY PartialElim, JoinValueFacts
<1>2. AsPartial(fs, JoinValue(p.untracked, w)) \in LocalStates
  BY <1>1, PartialElim, PartialIntro
<1> QED
  BY <1>2 DEF JoinPartialWhole, AsPartial

LEMMA PartialEqual ==
  ASSUME NEW a \in LocalStates, NEW b \in LocalStates, a.tag = "Partial", b.tag = "Partial",
         a.untracked = b.untracked, DOMAIN a.fields = DOMAIN b.fields,
         \A f \in DOMAIN a.fields : a.fields[f] = b.fields[f]
  PROVE  a = b
<1>1. a.fields = b.fields
  BY PartialElim
<1> QED
  BY <1>1, PartialElim

LEMMA JoinLocalType ==
  ASSUME NEW a \in LocalStates, NEW b \in LocalStates
  PROVE  /\ JoinLocal(a, b) \in LocalStates
         /\ a.tag = "Partial" \/ b.tag = "Partial" => JoinLocal(a, b).tag = "Partial"
<1>1. CASE a.tag = "Partial" /\ b.tag = "Partial"
  BY <1>1, JoinFieldFacts
<1>2. CASE a.tag = "Partial" /\ b.tag # "Partial"
  BY <1>2, WholeElim, JoinPartialWholeFacts DEF JoinLocal
<1>3. CASE a.tag # "Partial" /\ b.tag = "Partial"
  BY <1>3, WholeElim, JoinPartialWholeFacts DEF JoinLocal
<1>4. CASE a.tag # "Partial" /\ b.tag # "Partial"
  BY <1>4, WholeElim, WholeIntro, JoinValueFacts DEF JoinLocal
<1> QED
  BY <1>1, <1>2, <1>3, <1>4

\* Joining a state with itself changes nothing.
LEMMA JoinLocalIdempotent ==
  ASSUME NEW a \in LocalStates
  PROVE  JoinLocal(a, a) = a
<1>1. CASE a.tag = "Partial"
  <2>1. \A f \in DOMAIN a.fields : JoinLocal(a, a).fields[f] = a.fields[f]
    BY <1>1, JoinFieldFacts, PartialElim, JoinValueFacts DEF FieldState
  <2> QED
    BY <1>1, <2>1, JoinFieldFacts, PartialEqual
<1>2. CASE a.tag # "Partial"
  BY <1>2, WholeElim, JoinValueFacts DEF JoinLocal, AsWhole
<1> QED
  BY <1>1, <1>2

\* A partial state j absorbs b when each field it lists absorbs b's.
LEMMA AbsorbsPartial ==
  ASSUME NEW j \in LocalStates, NEW b \in LocalStates, j.tag = "Partial", b.tag = "Partial",
         DOMAIN b.fields \subseteq DOMAIN j.fields,
         \A f \in DOMAIN b.fields : JoinValue(j.fields[f], b.fields[f]) = j.fields[f]
  PROVE  JoinLocal(j, b) = j
<1>1. \A f \in DOMAIN j.fields : JoinLocal(j, b).fields[f] = j.fields[f]
  BY JoinFieldFacts DEF FieldState
<1>2. DOMAIN j.fields \cup DOMAIN b.fields = DOMAIN j.fields
  OBVIOUS
<1>3. DOMAIN JoinLocal(j, b).fields = DOMAIN j.fields
  BY <1>2, JoinFieldFacts
<1> QED
  BY <1>1, <1>3, JoinFieldFacts, PartialEqual

LEMMA AbsorbsWhole ==
  ASSUME NEW j \in LocalStates, NEW b \in LocalStates, j.tag = "Partial", b.tag # "Partial",
         JoinValue(j.untracked, b.value) = j.untracked,
         \A f \in DOMAIN j.fields : JoinValue(j.fields[f], b.value) = j.fields[f]
  PROVE  JoinLocal(j, b) = j
<1>1. b.value \in ValueStates /\ JoinLocal(j, b) = JoinPartialWhole(j, b.value)
  BY WholeElim DEF JoinLocal
<1> QED
  BY <1>1, JoinPartialWholeFacts, PartialEqual

\* A state that was joined once is absorbed from then on.
LEMMA JoinLocalAbsorbs ==
  ASSUME NEW a \in LocalStates, NEW b \in LocalStates
  PROVE  JoinLocal(JoinLocal(a, b), b) = JoinLocal(a, b)
<1>1. PICK j \in LocalStates : j = JoinLocal(a, b)
  BY JoinLocalType
<1>2. SUFFICES JoinLocal(j, b) = j
  BY <1>1
<1>3. CASE a.tag = "Partial" /\ b.tag = "Partial"
  <2>1. /\ j.tag = "Partial" /\ DOMAIN b.fields \subseteq DOMAIN j.fields
        /\ \A f \in DOMAIN b.fields : j.fields[f] = JoinValue(FieldState(a, f), b.fields[f])
    BY <1>1, <1>3, JoinFieldFacts
  <2>2. \A f \in DOMAIN b.fields : FieldState(a, f) \in ValueStates /\ b.fields[f] \in ValueStates
    BY <1>3, PartialElim, FieldStateType
  <2>3. \A f \in DOMAIN b.fields : JoinValue(j.fields[f], b.fields[f]) = j.fields[f]
    BY <2>1, <2>2, JoinValueFacts
  <2> QED
    BY <1>3, <2>1, <2>3, AbsorbsPartial
<1>4. CASE a.tag = "Partial" /\ b.tag # "Partial"
  <2>1. b.value \in ValueStates /\ j = JoinPartialWhole(a, b.value)
    BY <1>1, <1>4, WholeElim DEF JoinLocal
  <2>2. /\ j.tag = "Partial" /\ j.untracked = JoinValue(a.untracked, b.value)
        /\ DOMAIN j.fields = DOMAIN a.fields
        /\ \A f \in DOMAIN a.fields : j.fields[f] = JoinValue(a.fields[f], b.value)
    BY <1>4, <2>1, JoinPartialWholeFacts
  <2>3. a.untracked \in ValueStates /\ \A f \in DOMAIN a.fields : a.fields[f] \in ValueStates
    BY <1>4, PartialElim
  <2>4. /\ JoinValue(j.untracked, b.value) = j.untracked
        /\ \A f \in DOMAIN j.fields : JoinValue(j.fields[f], b.value) = j.fields[f]
    BY <2>1, <2>2, <2>3, JoinValueFacts
  <2> QED
    BY <1>4, <2>2, <2>4, AbsorbsWhole
<1>5. CASE a.tag # "Partial" /\ b.tag = "Partial"
  <2>1. a.value \in ValueStates /\ j = JoinPartialWhole(b, a.value)
    BY <1>1, <1>5, WholeElim DEF JoinLocal
  <2>2. /\ j.tag = "Partial" /\ DOMAIN j.fields = DOMAIN b.fields
        /\ \A f \in DOMAIN b.fields : j.fields[f] = JoinValue(b.fields[f], a.value)
    BY <1>5, <2>1, JoinPartialWholeFacts
  <2>3. \A f \in DOMAIN b.fields : b.fields[f] \in ValueStates
    BY <1>5, PartialElim
  <2>4. \A f \in DOMAIN b.fields : JoinValue(j.fields[f], b.fields[f]) = j.fields[f]
    BY <2>1, <2>2, <2>3, JoinValueFacts
  <2> QED
    BY <1>5, <2>2, <2>4, AbsorbsPartial
<1>6. CASE a.tag # "Partial" /\ b.tag # "Partial"
  BY <1>1, <1>6, WholeElim, JoinValueFacts DEF JoinLocal, AsWhole
<1> QED
  BY <1>3, <1>4, <1>5, <1>6

\* What absorbs b still does after another join.
LEMMA JoinLocalKeepsAbsorbing ==
  ASSUME NEW a \in LocalStates, NEW b \in LocalStates, NEW c \in LocalStates, JoinLocal(a, b) = a
  PROVE  JoinLocal(JoinLocal(a, c), b) = JoinLocal(a, c)
<1>1. PICK j \in LocalStates : j = JoinLocal(a, c)
  BY JoinLocalType
<1>2. SUFFICES JoinLocal(j, b) = j
  BY <1>1
<1>3. CASE a.tag = "Partial" /\ b.tag = "Partial"
  <2>1. /\ DOMAIN b.fields \subseteq DOMAIN a.fields
        /\ \A f \in DOMAIN b.fields : JoinValue(a.fields[f], b.fields[f]) = a.fields[f]
    BY <1>3, JoinFieldFacts, PartialElim DEF FieldState
  <2>2. /\ j.tag = "Partial" /\ DOMAIN b.fields \subseteq DOMAIN j.fields
        /\ \A f \in DOMAIN b.fields : JoinValue(j.fields[f], b.fields[f]) = j.fields[f]
    <3>0. \A f \in DOMAIN b.fields : a.fields[f] \in ValueStates /\ b.fields[f] \in ValueStates
      BY <1>3, <2>1, PartialElim
    <3>1. CASE c.tag = "Partial"
      <4>1. /\ j.tag = "Partial" /\ DOMAIN j.fields = DOMAIN a.fields \cup DOMAIN c.fields
            /\ \A f \in DOMAIN c.fields : j.fields[f] = JoinValue(FieldState(a, f), c.fields[f])
            /\ \A f \in DOMAIN a.fields \ DOMAIN c.fields : j.fields[f] = a.fields[f]
        BY <1>1, <1>3, <3>1, JoinFieldFacts
      <4>2. \A f \in DOMAIN b.fields : FieldState(a, f) = a.fields[f]
        BY <2>1 DEF FieldState
      <4>3. \A f \in DOMAIN c.fields : c.fields[f] \in ValueStates
        BY <3>1, PartialElim
      <4>4. \A f \in DOMAIN b.fields : JoinValue(j.fields[f], b.fields[f]) = j.fields[f]
        BY <2>1, <3>0, <4>1, <4>2, <4>3, JoinValueFacts
      <4> QED
        BY <2>1, <4>1, <4>4
    <3>2. CASE c.tag # "Partial"
      <4>1. c.value \in ValueStates /\ j = JoinPartialWhole(a, c.value)
        BY <1>1, <1>3, <3>2, WholeElim DEF JoinLocal
      <4>2. /\ j.tag = "Partial" /\ DOMAIN j.fields = DOMAIN a.fields
            /\ \A f \in DOMAIN a.fields : j.fields[f] = JoinValue(a.fields[f], c.value)
        BY <1>3, <4>1, JoinPartialWholeFacts
      <4> QED
        BY <2>1, <3>0, <4>1, <4>2, JoinValueFacts
    <3> QED
      BY <3>1, <3>2
  <2> QED
    BY <1>3, <2>2, AbsorbsPartial
<1>4. CASE a.tag = "Partial" /\ b.tag # "Partial"
  <2>1. b.value \in ValueStates /\ a = JoinPartialWhole(a, b.value)
    BY <1>4, WholeElim DEF JoinLocal
  <2>2. /\ JoinValue(a.untracked, b.value) = a.untracked
        /\ \A f \in DOMAIN a.fields : JoinValue(a.fields[f], b.value) = a.fields[f]
    BY <1>4, <2>1, JoinPartialWholeFacts
  <2>3. /\ j.tag = "Partial" /\ JoinValue(j.untracked, b.value) = j.untracked
        /\ \A f \in DOMAIN j.fields : JoinValue(j.fields[f], b.value) = j.fields[f]
    <3>0. a.untracked \in ValueStates /\ \A f \in DOMAIN a.fields : a.fields[f] \in ValueStates
      BY <1>4, PartialElim
    <3>1. CASE c.tag = "Partial"
      <4>1. /\ j.tag = "Partial" /\ j.untracked = a.untracked
            /\ DOMAIN j.fields = DOMAIN a.fields \cup DOMAIN c.fields
            /\ \A f \in DOMAIN c.fields : j.fields[f] = JoinValue(FieldState(a, f), c.fields[f])
            /\ \A f \in DOMAIN a.fields \ DOMAIN c.fields : j.fields[f] = a.fields[f]
        BY <1>1, <1>4, <3>1, JoinFieldFacts
      <4>2. \A f : FieldState(a, f) \in ValueStates /\ JoinValue(FieldState(a, f), b.value) = FieldState(a, f)
        BY <2>2, <3>0 DEF FieldState
      <4>3. \A f \in DOMAIN c.fields : c.fields[f] \in ValueStates
        BY <3>1, PartialElim
      <4>4. \A f \in DOMAIN j.fields : JoinValue(j.fields[f], b.value) = j.fields[f]
        BY <2>1, <2>2, <3>0, <4>1, <4>2, <4>3, JoinValueFacts
      <4> QED
        BY <2>2, <4>1, <4>4
    <3>2. CASE c.tag # "Partial"
      <4>1. c.value \in ValueStates /\ j = JoinPartialWhole(a, c.value)
        BY <1>1, <1>4, <3>2, WholeElim DEF JoinLocal
      <4>2. /\ j.tag = "Partial" /\ j.untracked = JoinValue(a.untracked, c.value)
            /\ DOMAIN j.fields = DOMAIN a.fields
            /\ \A f \in DOMAIN a.fields : j.fields[f] = JoinValue(a.fields[f], c.value)
        BY <1>4, <4>1, JoinPartialWholeFacts
      <4> QED
        BY <2>1, <2>2, <3>0, <4>1, <4>2, JoinValueFacts
    <3> QED
      BY <3>1, <3>2
  <2> QED
    BY <1>4, <2>3, AbsorbsWhole
<1>5. CASE a.tag # "Partial"
  <2>1. b.tag # "Partial"
    BY <1>5, JoinLocalType
  <2>2. /\ a.value \in ValueStates /\ b.value \in ValueStates
        /\ JoinValue(a.value, b.value) = a.value
    BY <1>5, <2>1, WholeElim, JoinValueFacts DEF JoinLocal, AsWhole
  <2>3. CASE c.tag = "Partial"
    <3>1. j = JoinPartialWhole(c, a.value)
      BY <1>1, <1>5, <2>3, WholeElim DEF JoinLocal
    <3>2. \A v \in ValueStates : JoinValue(JoinValue(v, a.value), b.value) = JoinValue(v, a.value)
      BY <2>2 DEF JoinValue, ValueStates
    <3>3. /\ j.tag = "Partial" /\ j.untracked = JoinValue(c.untracked, a.value)
          /\ DOMAIN j.fields = DOMAIN c.fields
          /\ \A f \in DOMAIN c.fields : j.fields[f] = JoinValue(c.fields[f], a.value)
      BY <2>2, <2>3, <3>1, JoinPartialWholeFacts
    <3>4. c.untracked \in ValueStates /\ \A f \in DOMAIN c.fields : c.fields[f] \in ValueStates
      BY <2>3, PartialElim
    <3>5. /\ JoinValue(j.untracked, b.value) = j.untracked
          /\ \A f \in DOMAIN j.fields : JoinValue(j.fields[f], b.value) = j.fields[f]
      BY <3>2, <3>3, <3>4
    <3> QED
      BY <2>1, <3>3, <3>5, AbsorbsWhole
  <2>4. CASE c.tag # "Partial"
    BY <1>1, <1>5, <2>1, <2>2, <2>4, WholeElim, JoinValueFacts DEF JoinLocal, AsWhole
  <2> QED
    BY <2>3, <2>4
<1> QED
  BY <1>3, <1>4, <1>5

LEMMA MergeFacts ==
  ASSUME NEW x \in FunctionStates, NEW y \in FunctionStates, NEW z \in FunctionStates
  PROVE  /\ Merge(x, y) \in FunctionStates
         /\ Merge(x, x) = x
         /\ Merge(Merge(x, y), y) = Merge(x, y)
         /\ Merge(x, y) = x => Merge(Merge(x, z), y) = Merge(x, z)
<1>1. Merge(x, y) \in FunctionStates /\ Merge(x, z) \in FunctionStates
  BY JoinLocalType DEF Merge, FunctionStates
<1>2. Merge(x, x) = x
  BY JoinLocalIdempotent DEF Merge, FunctionStates
<1>3. Merge(Merge(x, y), y) = Merge(x, y)
  BY JoinLocalAbsorbs DEF Merge, FunctionStates
<1>4. ASSUME Merge(x, y) = x PROVE Merge(Merge(x, z), y) = Merge(x, z)
  <2>1. \A l \in Locals : JoinLocal(x[l], y[l]) = x[l]
    BY <1>4 DEF Merge
  <2> QED
    BY <2>1, JoinLocalKeepsAbsorbing DEF Merge, FunctionStates
<1> QED
  BY <1>1, <1>2, <1>3, <1>4

-----------------------------------------------------------------------------
(* Types of FlowExec *)

OwnedPlaces == {p \in Places : p.field \in FieldsOf[p.local] \cup {Whole}}
Queued(b) == \E i \in 1 .. Len(worklist) : worklist[i] = b

\* TypeOK and what its preservation needs.
TypeInv ==
  /\ TypeOK
  /\ fn \in Functions
  /\ cur # None => seen[cur] # <<>>
  /\ \A b \in Blocks : Queued(b) => blockIn[b] # None
  /\ pc \in Blocks \X (Nat \ {0})
  /\ due \subseteq Nat \X OwnedPlaces

-----------------------------------------------------------------------------
(* Types of the operators *)

LEMMA EntryType ==
  ASSUME fn \in Functions, NEW b \in Blocks, NEW i \in 1 .. Len(Code(b))
  PROVE  /\ Code(b)[i] \in Entries
         /\ Code(b)[i].place \in OwnedPlaces
         /\ Code(b)[i].place.local \in Locals
<1>1. fn.blocks[b] \in MirBlocks
  BY FunctionFacts
<1>2. Code(b) \in Seq(Entries)
  BY <1>1 DEF Code, MirBlocks
<1>3. Code(b)[i] \in Entries
  BY <1>2, ElementOfSeq
<1>4. Code(b)[i].place.field \in FieldsOf[Code(b)[i].place.local] \cup {Whole}
  BY FunctionFacts DEF Code
<1> QED
  BY <1>3, <1>4 DEF Entries, OwnedPlaces, Places

LEMMA BlockType ==
  ASSUME fn \in Functions, NEW b \in Blocks
  PROVE  /\ Len(Code(b)) \in Nat
         /\ Succ(b) \in Seq(Blocks)
         /\ fn.blocks[b].kind \in {"flow", "return", "unreachable"}
<1>1. fn.blocks[b] \in MirBlocks
  BY FunctionFacts
<1> QED
  BY <1>1 DEF Code, Succ, MirBlocks

LEMMA WritePlaceType ==
  ASSUME NEW st \in FunctionStates, NEW p \in OwnedPlaces
  PROVE  WritePlace(st, p) \in FunctionStates
<1> DEFINE s == st[p.local]
<1>1. p.local \in Locals /\ s \in LocalStates
  BY DEF FunctionStates, OwnedPlaces, Places
<1>2. AsWhole("Initialized") \in LocalStates
  BY WholeIntro DEF ValueStates
<1>3. CASE p.field = Whole
  BY <1>1, <1>2, <1>3 DEF WritePlace, FunctionStates
<1>4. CASE p.field # Whole
  <2>1. p.field \in Fields /\ FieldsOf[p.local] \in SUBSET Fields
    BY <1>1, <1>4, FieldsAssumption DEF OwnedPlaces
  <2>2. Rebuild(p.local) \in LocalStates /\ Rebuild(p.local).tag = "Partial"
    <3>1. [f \in FieldsOf[p.local] |-> "Uninitialized"] \in [FieldsOf[p.local] -> ValueStates]
      BY DEF ValueStates
    <3> QED
      BY <2>1, <3>1, PartialIntro DEF Rebuild, AsPartial, ValueStates
  <2>3. SetField(Rebuild(p.local), p.field, "Initialized") \in LocalStates
    BY <2>1, <2>2, SetFieldType DEF ValueStates
  <2>4. s.tag = "Partial" => Settled(SetField(s, p.field, "Initialized")) \in LocalStates
    BY <1>1, <1>2, <2>1, SetFieldType DEF ValueStates, Settled
  <2> QED
    BY <1>1, <1>2, <1>4, <2>3, <2>4 DEF WritePlace, FunctionStates
<1> QED
  BY <1>3, <1>4

LEMMA MovePlaceType ==
  ASSUME NEW st \in FunctionStates, NEW p \in OwnedPlaces
  PROVE  MovePlace(st, p) \in FunctionStates
<1> DEFINE s == st[p.local]
           live == AsPartial([f \in {} |-> "Moved"], "Initialized")
<1>1. p.local \in Locals /\ s \in LocalStates
  BY DEF FunctionStates, OwnedPlaces, Places
<1>2. AsWhole("Moved") \in LocalStates
  BY WholeIntro DEF ValueStates
<1>3. CASE p.field = Whole
  BY <1>1, <1>2, <1>3 DEF MovePlace, FunctionStates
<1>4. CASE p.field # Whole
  <2>1. p.field \in Fields
    BY <1>1, <1>4, FieldsAssumption DEF OwnedPlaces
  <2>2. live \in LocalStates /\ live.tag = "Partial"
    BY PartialIntro DEF AsPartial, ValueStates
  <2>3. SetField(live, p.field, "Moved") \in LocalStates
    BY <2>1, <2>2, SetFieldType DEF ValueStates
  <2>4. s.tag = "Partial" => SetField(s, p.field, "Moved") \in LocalStates
    BY <1>1, <2>1, SetFieldType DEF ValueStates
  <2> QED
    BY <1>1, <1>2, <1>4, <2>3, <2>4 DEF MovePlace, FunctionStates
<1> QED
  BY <1>3, <1>4

LEMMA LeavesType ==
  ASSUME NEW p \in OwnedPlaces
  PROVE  LeavesOf(p) \subseteq Leaves
<1>1. p.local \in Locals /\ FieldsOf[p.local] \in SUBSET Fields
  BY FieldsAssumption DEF OwnedPlaces, Places
<1>2. LeavesOf([local |-> p.local, field |-> Whole]) \subseteq Leaves
  BY <1>1 DEF Leaves
<1>3. CASE p.field = Whole
  <2>1. p = [local |-> p.local, field |-> Whole]
    BY <1>3 DEF OwnedPlaces, Places
  <2> QED
    BY <1>2, <2>1
<1>4. CASE p.field # Whole
  <2>1. p.field \in FieldsOf[p.local] /\ p = [local |-> p.local, field |-> p.field]
    BY <1>4 DEF OwnedPlaces, Places
  <2>2. p \in LeavesOf([local |-> p.local, field |-> Whole])
    BY <2>1 DEF LeavesOf
  <2> QED
    BY <1>2, <1>4, <2>2 DEF LeavesOf
<1> QED
  BY <1>3, <1>4

LEMMA LocalDropsType ==
  ASSUME NEW l \in Locals, NEW s
  PROVE  LocalDrops(l, s) \subseteq OwnedPlaces
<1>1. FieldsOf[l] \in SUBSET Fields
  BY FieldsAssumption
<1>2. LiveDrops(l) \subseteq OwnedPlaces /\ PartialDrops(l, s) \subseteq OwnedPlaces
  BY <1>1 DEF LiveDrops, PartialDrops, OwnedPlaces, Places
<1> QED
  BY <1>2 DEF LocalDrops

LEMMA DropsAtType ==
  ASSUME fn \in Functions, NEW b \in Blocks, NEW i
  PROVE  DropsAt(b, i) \subseteq Nat \X OwnedPlaces
<1>1. ScopeDropsAt(b, i) \subseteq Nat \X OwnedPlaces
  <2>1. ASSUME NEW k \in DeadPoints(b)
        PROVE  LET l == Code(b)[k].place.local IN {k} \X LocalDrops(l, seen[b][k][l]) \subseteq Nat \X OwnedPlaces
    <3>1. k \in 1 .. Len(Code(b)) /\ k \in Nat
      BY <2>1, BlockType DEF DeadPoints
    <3> QED
      BY <3>1, EntryType, LocalDropsType
  <2> QED
    BY <2>1 DEF ScopeDropsAt
<1>2. ExitDropsAt(b, i) \subseteq Nat \X OwnedPlaces
  <2>1. \A q \in Places : q \in LocalDrops(q.local, Last(seen[b])[q.local]) => q \in OwnedPlaces
    BY LocalDropsType DEF Places
  <2> QED
    BY <2>1 DEF ExitDropsAt
<1> QED
  BY <1>1, <1>2 DEF DropsAt

-----------------------------------------------------------------------------
(* Type correctness *)

LEMMA FrontFacts ==
  ASSUME NEW S, NEW s \in Seq(S), s # <<>>
  PROVE  /\ Front(s) \in Seq(S) /\ Len(Front(s)) = Len(s) - 1
         /\ \A i \in 1 .. Len(s) - 1 : Front(s)[i] = s[i]
         /\ Len(s) \in Nat \ {0} /\ Last(s) = s[Len(s)] /\ Last(s) \in S
<1>1. Len(s) \in Nat \ {0}
  BY EmptySeq
<1>2. \A i \in 1 .. Len(s) - 1 : s[i] \in S
  BY <1>1, ElementOfSeq
<1>3. /\ SubSeq(s, 1, Len(s) - 1) \in Seq(S)
      /\ Len(SubSeq(s, 1, Len(s) - 1)) = IF 1 <= Len(s) - 1 THEN Len(s) - 1 - 1 + 1 ELSE 0
      /\ \A i \in 1 .. Len(s) - 1 - 1 + 1 : SubSeq(s, 1, Len(s) - 1)[i] = s[1 + i - 1]
  BY <1>1, <1>2, SubSeqProperties
<1>4. Len(SubSeq(s, 1, Len(s) - 1)) = Len(s) - 1
  <2>1. CASE Len(s) = 1
    BY <1>3, <2>1
  <2>2. CASE Len(s) > 1
    <3>1. 1 <= Len(s) - 1 /\ Len(s) - 1 - 1 + 1 = Len(s) - 1
      BY <1>1, <2>2
    <3> QED
      BY <1>3, <3>1
  <2> QED
    BY <1>1, <2>1, <2>2
<1>5. \A i \in 1 .. Len(s) - 1 : SubSeq(s, 1, Len(s) - 1)[i] = s[i]
  BY <1>1, <1>3
<1>6. s[Len(s)] \in S
  BY <1>1, ElementOfSeq
<1> QED
  BY <1>1, <1>3, <1>4, <1>5, <1>6 DEF Front, Last

LEMMA TypeInit == Init => TypeInv
<1> SUFFICES ASSUME Init PROVE TypeInv
  OBVIOUS
<1> USE DEF Init, FlowInit, ExecInit
<1>1. fn \in Functions /\ fn.entry \in Blocks
  BY FunctionFacts
<1>2. worklist \in Seq(Blocks) /\ Len(worklist) = 1 /\ worklist[1] = fn.entry
  BY <1>1
<1>3. blockIn \in [Blocks -> FunctionStates \cup {None}] /\ blockIn[fn.entry] # None
  <2> DEFINE e == [l \in Locals |-> AsWhole(IF l \in fn.params THEN "Initialized" ELSE "Uninitialized")]
  <2>1. e \in FunctionStates
    BY WholeIntro DEF FunctionStates, ValueStates
  <2>2. blockIn = [b \in Blocks |-> IF b = fn.entry THEN e ELSE None]
    OBVIOUS
  <2> HIDE DEF e
  <2>3. None \notin FunctionStates
    BY FunctionFacts
  <2>4. e # None
    BY <2>1, <2>3
  <2> HIDE DEF Init, FlowInit, ExecInit
  <2>5. blockIn[fn.entry] = e
    BY <1>1, <2>2
  <2>6. blockIn \in [Blocks -> FunctionStates \cup {None}]
    BY <2>1, <2>2
  <2> QED
    BY <2>4, <2>5, <2>6
<1>4. seen \in [Blocks -> Seq(FunctionStates)]
  OBVIOUS
<1>5. TypeOK
  BY <1>2, <1>3, <1>4 DEF TypeOK
<1> QED
  BY <1>1, <1>2, <1>3, <1>5 DEF TypeInv, Queued

\* The entries of b are scanned, and the state before the one at hand.
LEMMA ScanPoint ==
  ASSUME TypeInv, NEW op \in OpKinds, At(op)
  PROVE  /\ cur \in Blocks /\ Len(seen[cur]) \in 1 .. Len(Code(cur))
         /\ Op = Code(cur)[Len(seen[cur])] /\ Op.op = op
         /\ Op.place \in OwnedPlaces /\ Op.place.local \in Locals
         /\ Current = seen[cur][Len(seen[cur])] /\ Current \in FunctionStates
<1>1. cur \in Blocks /\ seen[cur] \in Seq(FunctionStates) /\ seen[cur] # <<>>
  BY DEF TypeInv, TypeOK, At, Scanning
<1>2. Len(seen[cur]) \in 1 .. Len(Code(cur))
  BY <1>1, BlockType, EmptySeq, LenProperties DEF At, TypeInv
<1>3. Current = seen[cur][Len(seen[cur])] /\ Current \in FunctionStates
  BY <1>1, <1>2, ElementOfSeq DEF Current, Last
<1> QED
  BY <1>1, <1>2, <1>3, EntryType DEF Op, At, TypeInv

LEMMA TermPoint ==
  ASSUME TypeInv, AtTerminator
  PROVE  /\ cur \in Blocks /\ Current = seen[cur][Len(seen[cur])] /\ Current \in FunctionStates
         /\ Len(seen[cur]) = Len(Code(cur)) + 1
<1>1. cur \in Blocks /\ seen[cur] \in Seq(FunctionStates) /\ seen[cur] # <<>>
  BY DEF TypeInv, TypeOK, AtTerminator, Scanning
<1>2. Len(seen[cur]) \in 1 .. Len(seen[cur])
  BY <1>1, EmptySeq, LenProperties
<1> QED
  BY <1>1, <1>2, ElementOfSeq DEF Current, Last, AtTerminator

LEMMA SuccessorPoint ==
  ASSUME TypeInv, EnterSuccessor
  PROVE  /\ cur \in Blocks /\ Succ(cur) \in Seq(Blocks)
         /\ edge \in 1 .. Len(Succ(cur)) /\ Succ(cur)[edge] \in Blocks
<1>1. cur \in Blocks /\ Succ(cur) \in Seq(Blocks)
  BY TermPoint, BlockType DEF EnterSuccessor, TypeInv
<1>2. edge \in 1 .. Len(Succ(cur))
  BY <1>1, LenProperties DEF EnterSuccessor, TypeInv, TypeOK
<1> QED
  BY <1>1, <1>2, ElementOfSeq

LEMMA RecordType ==
  ASSUME TypeInv, cur \in Blocks, NEW st \in FunctionStates, NEW errs, Record(st, errs), UNCHANGED runVars
  PROVE  TypeInv'
<1>1. seen' \in [Blocks -> Seq(FunctionStates)] /\ seen'[cur] # <<>>
  <2>1. Append(seen[cur], st) \in Seq(FunctionStates) /\ Append(seen[cur], st) # <<>>
    BY AppendProperties DEF TypeInv, TypeOK
  <2> QED
    BY <2>1 DEF Record, TypeInv, TypeOK
<1>2. TypeOK'
  BY <1>1 DEF Record, TypeInv, TypeOK, runVars
<1> QED
  BY <1>1, <1>2 DEF Record, TypeInv, Queued, runVars

LEMMA TypeAnalysis ==
  ASSUME TypeInv, Analysis
  PROVE  TypeInv'
<1> USE DEF Analysis
<1>1. CASE PopBlock
  <2>1. worklist \in Seq(Blocks) /\ worklist # <<>>
    BY <1>1 DEF PopBlock, TypeInv, TypeOK
  <2>2. Len(worklist) \in Nat \ {0}
    BY <2>1, FrontFacts
  <2>3. cur' = worklist[Len(worklist)] /\ cur' \in Blocks
    BY <1>1, <2>1, FrontFacts DEF PopBlock
  <2>4. /\ worklist' \in Seq(Blocks) /\ Len(worklist') = Len(worklist) - 1
        /\ \A i \in 1 .. Len(worklist') : worklist'[i] = worklist[i]
    BY <1>1, <2>1, FrontFacts DEF PopBlock
  <2>5. blockIn[cur'] \in FunctionStates
    BY <1>1, <2>2, <2>3 DEF TypeInv, TypeOK, Queued
  <2>6. seen' \in [Blocks -> Seq(FunctionStates)] /\ seen'[cur'] # <<>>
    BY <1>1, <2>3, <2>5 DEF PopBlock, TypeInv, TypeOK
  <2>7. TypeOK'
    BY <1>1, <2>3, <2>4, <2>6 DEF PopBlock, TypeInv, TypeOK, runVars
  <2>8. \A b \in Blocks : Queued(b)' => blockIn'[b] # None
    BY <1>1, <2>2, <2>4 DEF PopBlock, TypeInv, Queued
  <2> QED
    BY <1>1, <2>6, <2>7, <2>8 DEF PopBlock, TypeInv, runVars
<1>2. CASE ConsumeCopy
  BY <1>2, ScanPoint, RecordType DEF ConsumeCopy, OpKinds
<1>3. CASE ConsumeMove
  BY <1>3, ScanPoint, RecordType, MovePlaceType DEF ConsumeMove, OpKinds
<1>4. CASE WriteDestination
  BY <1>4, ScanPoint, RecordType, WritePlaceType DEF WriteDestination, OpKinds
<1>5. CASE StorageLive
  <2>1. AsWhole("Uninitialized") \in LocalStates
    BY WholeIntro DEF ValueStates
  <2>2. [Current EXCEPT ![Op.place.local] = AsWhole("Uninitialized")] \in FunctionStates
    BY <1>5, <2>1, ScanPoint DEF StorageLive, OpKinds, FunctionStates
  <2> QED
    BY <1>5, <2>2, ScanPoint, RecordType DEF StorageLive, OpKinds
<1>6. CASE StorageDead
  <2>1. AsWhole("Moved") \in LocalStates
    BY WholeIntro DEF ValueStates
  <2>2. [Current EXCEPT ![Op.place.local] = AsWhole("Moved")] \in FunctionStates
    BY <1>6, <2>1, ScanPoint DEF StorageDead, OpKinds, FunctionStates
  <2> QED
    BY <1>6, <2>2, ScanPoint, RecordType DEF StorageDead, OpKinds
<1>7. CASE EnterSuccessor
  <2>1. cur \in Blocks /\ Current \in FunctionStates
    BY <1>7, TermPoint DEF EnterSuccessor
  <2>2. edge \in 1 .. Len(Succ(cur)) /\ Succ(cur)[edge] \in Blocks
    BY <1>7, SuccessorPoint
  <2> DEFINE s == Succ(cur)[edge]
             entry == IF blockIn[s] = None THEN Current ELSE NextEntry
  <2>3. entry \in FunctionStates
    BY <2>1, <2>2, MergeFacts DEF NextEntry, TypeInv, TypeOK
  <2>4. blockIn' = [blockIn EXCEPT ![s] = entry] /\ worklist' \in {worklist, Append(worklist, s)}
    BY <1>7 DEF EnterSuccessor
  <2>5. /\ worklist' \in Seq(Blocks)
        /\ \A b \in Blocks : Queued(b)' => Queued(b) \/ b = s
    <3>1. worklist \in Seq(Blocks) /\ Len(worklist) \in Nat
      BY LenProperties DEF TypeInv, TypeOK
    <3>2. CASE worklist' = worklist
      BY <3>1, <3>2 DEF Queued
    <3>3. CASE worklist' = Append(worklist, s)
      BY <2>2, <3>1, <3>3, AppendProperties DEF Queued
    <3> QED
      BY <2>4, <3>2, <3>3
  <2>6. blockIn' \in [Blocks -> FunctionStates \cup {None}] /\ blockIn'[s] # None
    BY <2>2, <2>3, <2>4, FunctionFacts DEF TypeInv, TypeOK
  <2>7. TypeOK'
    BY <1>7, <2>5, <2>6 DEF EnterSuccessor, TypeInv, TypeOK, runVars
  <2>8. \A b \in Blocks : Queued(b)' => blockIn'[b] # None
    BY <2>2, <2>4, <2>5, <2>6 DEF TypeInv, TypeOK
  <2> QED
    BY <1>7, <2>7, <2>8 DEF EnterSuccessor, TypeInv, runVars
<1>8. CASE EndBlock
  BY <1>8 DEF EndBlock, TypeInv, TypeOK, Queued, runVars
<1>9. CASE Finish
  BY <1>9 DEF Finish, TypeInv, TypeOK, Queued, runVars
<1> QED
  BY <1>1, <1>2, <1>3, <1>4, <1>5, <1>6, <1>7, <1>8, <1>9 DEF FlowNext

LEMMA ExecPoint ==
  ASSUME TypeInv, InBlock
  PROVE  /\ pc[1] \in Blocks /\ pc[2] \in 1 .. Len(Code(pc[1]))
         /\ Instr = Code(pc[1])[pc[2]] /\ Instr \in Entries
         /\ Instr.place \in OwnedPlaces /\ Instr.place.local \in Locals
<1>1. pc[1] \in Blocks /\ pc[2] \in 1 .. Len(Code(pc[1]))
  BY BlockType DEF TypeInv, InBlock
<1> QED
  BY <1>1, EntryType DEF Instr, TypeInv

LEMMA GotoType ==
  ASSUME TypeInv, NEW b \in Blocks, NEW i \in Nat \ {0}, Goto(b, i)
  PROVE  pc' \in Blocks \X (Nat \ {0}) /\ due' \subseteq Nat \X OwnedPlaces
BY DropsAtType DEF Goto, TypeInv

LEMMA OwningType ==
  ASSUME NEW p \in OwnedPlaces
  PROVE  Owning(p) \subseteq Leaves
BY LeavesType DEF Owning

LEMMA TypeExecution ==
  ASSUME TypeInv, Execution
  PROVE  TypeInv'
<1>1. CASE Start
  <2>1. pc' \in Blocks \X (Nat \ {0}) /\ due' \subseteq Nat \X OwnedPlaces
    BY <1>1, GotoType, FunctionFacts DEF Start, TypeInv
  <2> QED
    BY <1>1, <2>1 DEF Start, TypeInv, TypeOK, Queued
<1>2. CASE ExecDrop
  <2>1. PICK d \in due : due' = due \ {d} /\ dropped' = dropped \cup LeavesOf(d[2])
    BY <1>2 DEF ExecDrop
  <2>2. LeavesOf(d[2]) \subseteq Leaves /\ due' \subseteq Nat \X OwnedPlaces
    BY <2>1, LeavesType DEF TypeInv
  <2> QED
    BY <1>2, <2>1, <2>2 DEF ExecDrop, TypeInv, TypeOK, Queued, flowVars
<1>3. ASSUME InBlock, Step, env' \in [Leaves -> {"uninit", "init", "moved"}],
             dropped' \subseteq Leaves, lost' \subseteq lost \cup Owning(Instr.place)
      PROVE  TypeInv'
  <2>1. pc[1] \in Blocks /\ pc[2] + 1 \in Nat \ {0}
    BY DEF TypeInv
  <2>2. pc' \in Blocks \X (Nat \ {0}) /\ due' \subseteq Nat \X OwnedPlaces
    BY <1>3, <2>1, GotoType DEF Step
  <2>3. lost' \subseteq Leaves
    BY <1>3, ExecPoint, OwningType DEF TypeInv, TypeOK
  <2> QED
    BY <1>3, <2>2, <2>3 DEF Step, TypeInv, TypeOK, Queued, flowVars
<1>4. CASE ExecCopy
  BY <1>3, <1>4 DEF ExecCopy, Executes, TypeInv, TypeOK
<1>5. CASE ExecMove
  BY <1>3, <1>5 DEF ExecMove, Executes, TypeInv, TypeOK
<1>6. CASE ExecWrite
  BY <1>3, <1>6 DEF ExecWrite, Executes, TypeInv, TypeOK
<1>7. CASE ExecLive
  BY <1>3, <1>7 DEF ExecLive, Executes, TypeInv, TypeOK
<1>8. CASE ExecDead
  BY <1>3, <1>8 DEF ExecDead, Executes, TypeInv, TypeOK
<1>9. CASE ExecBranch
  <2>1. PICK s \in ToSet(Succ(pc[1])) : Goto(s, 1)
    BY <1>9 DEF ExecBranch
  <2>2. s \in Blocks
    BY BlockType, LenProperties, ElementOfSeq DEF ToSet, TypeInv
  <2>3. pc' \in Blocks \X (Nat \ {0}) /\ due' \subseteq Nat \X OwnedPlaces
    BY <2>1, <2>2, GotoType
  <2> QED
    BY <1>9, <2>3 DEF ExecBranch, TypeInv, TypeOK, Queued, flowVars
<1>10. CASE ExecReturn
  <2>1. \A l \in Locals : Owning([local |-> l, field |-> Whole]) \subseteq Leaves
    BY OwningType DEF OwnedPlaces, Places
  <2>2. lost' = lost \cup UNION {Owning([local |-> l, field |-> Whole]) : l \in Locals \ {fn.dropSelf}}
    BY <1>10 DEF ExecReturn
  <2>3. UNION {Owning([local |-> l, field |-> Whole]) : l \in Locals \ {fn.dropSelf}} \subseteq Leaves
    BY <2>1
  <2>4. lost' \subseteq Leaves
    BY <2>2, <2>3 DEF TypeInv, TypeOK
  <2> QED
    BY <1>10, <2>4 DEF ExecReturn, TypeInv, TypeOK, Queued
<1> QED
  BY <1>1, <1>2, <1>4, <1>5, <1>6, <1>7, <1>8, <1>9, <1>10 DEF Execution

LEMMA TypeStep ==
  ASSUME TypeInv, [Next]_vars
  PROVE  TypeInv'
<1>1. CASE UNCHANGED vars
  BY <1>1 DEF vars, flowVars, runVars, TypeInv, TypeOK, Queued
<1> QED
  BY <1>1, TypeAnalysis, TypeExecution DEF Next

\* Every state of the analysis is a proper one: whatever MIR is analysed, each
\* program point holds a state of the domain, and what is dropped or lost are
\* parts of the function's locals.
THEOREM TypeCorrect == Spec => []TypeOK
<1>1. TypeInv => TypeOK
  BY DEF TypeInv
<1> QED
  BY <1>1, TypeInit, TypeStep, PTL DEF Spec

-----------------------------------------------------------------------------
(* The fixpoint *)

Absorbed(b, s) == blockIn[s] # None /\ Merge(blockIn[s], Last(seen[b])) = blockIn[s]
Stable(b) ==
  /\ Visited(b) /\ seen[b][1] = blockIn[b]
  /\ \A t \in Blocks : t \in ToSet(Succ(b)) => Absorbed(b, t)

\* The successors of b before position n.
Entered(b, n) == {Succ(b)[k] : k \in {j \in 1 .. Len(Succ(b)) : j < n}}

\* A block that was reached is being scanned, is on the worklist, or was scanned
\* from its present entry state, which its successors have absorbed.
FixInv ==
  /\ cur # None =>
       /\ blockIn[cur] # None
       /\ seen[cur][1] = blockIn[cur] \/ Queued(cur)
       /\ edge # 1 => Visited(cur)
       /\ \A t \in Blocks : t \in Entered(cur, edge) => Absorbed(cur, t)
  /\ \A b \in Blocks : blockIn[b] # None => b = cur \/ Queued(b) \/ Stable(b)
  /\ phase # "scan" => cur = None /\ worklist = <<>>

LEMMA FixInit == Init => FixInv
<1> SUFFICES ASSUME Init PROVE FixInv
  OBVIOUS
<1>1. Queued(fn.entry)
  BY DEF Init, FlowInit, Queued
<1> QED
  BY <1>1 DEF Init, FlowInit, FixInv

LEMMA VisitedLast ==
  ASSUME TypeInv, NEW b \in Blocks, Visited(b)
  PROVE  seen[b] # <<>> /\ Last(seen[b]) = seen[b][Len(seen[b])] /\ Last(seen[b]) \in FunctionStates
<1>1. seen[b] \in Seq(FunctionStates) /\ Len(seen[b]) \in Nat \ {0}
  BY BlockType DEF TypeInv, TypeOK, Visited
<1> QED
  BY <1>1, FrontFacts, EmptySeq

\* Scanning an entry of cur disturbs nothing: cur has entered no successor yet.
LEMMA FixRecord ==
  ASSUME TypeInv, FixInv, NEW op \in OpKinds, At(op), NEW st, NEW errs, Record(st, errs)
  PROVE  FixInv'
<1>1. cur \in Blocks /\ seen[cur] \in Seq(FunctionStates) /\ Len(seen[cur]) \in 1 .. Len(Code(cur))
  BY ScanPoint DEF TypeInv, TypeOK
<1>2. edge = 1
  BY <1>1, BlockType, FunctionFacts DEF FixInv, Visited, TypeInv
<1>3. seen' = [seen EXCEPT ![cur] = Append(@, st)]
  BY DEF Record
<1>4. seen'[cur][1] = seen[cur][1]
  BY <1>1, <1>3 DEF TypeInv, TypeOK
<1>5. \A b \in Blocks : b # cur => seen'[b] = seen[b]
  BY <1>3 DEF TypeInv, TypeOK
<1>6. \A b \in Blocks : b # cur /\ Stable(b) => Stable(b)'
  BY <1>5 DEF Record, Stable, Visited, Absorbed, Code, Succ
<1>7. \A b \in Blocks : Queued(b)' <=> Queued(b)
  BY DEF Record, Queued
<1>8. \A t \in Blocks : t \notin Entered(cur, edge)'
  BY <1>2 DEF Record, Entered
<1>9. cur # None /\ cur' = cur /\ edge' = 1 /\ blockIn' = blockIn /\ worklist' = worklist /\ phase' = "scan"
  BY <1>2 DEF Record, At, Scanning
<1>10. seen'[cur][1] = blockIn[cur] \/ Queued(cur)'
  BY <1>1, <1>4, <1>7, <1>9 DEF FixInv
<1>11. \A b \in Blocks : blockIn'[b] # None => b = cur' \/ Queued(b)' \/ Stable(b)'
  BY <1>6, <1>7, <1>9 DEF FixInv
<1> QED
  BY <1>8, <1>9, <1>10, <1>11 DEF FixInv

\* What a block's exit state was absorbed by keeps absorbing it.
LEMMA AbsorbedKept ==
  ASSUME TypeInv, EnterSuccessor, NEW b \in Blocks, Visited(b), NEW t \in Blocks, Absorbed(b, t)
  PROVE  Absorbed(b, t)'
<1>1. cur \in Blocks /\ Current \in FunctionStates
  BY TermPoint DEF EnterSuccessor
<1>2. edge \in 1 .. Len(Succ(cur)) /\ Succ(cur)[edge] \in Blocks
  BY SuccessorPoint
<1>3. blockIn[t] \in FunctionStates /\ Last(seen[b]) \in FunctionStates
  BY VisitedLast DEF Absorbed, TypeInv, TypeOK
<1>4. CASE t = Succ(cur)[edge]
  <2>1. blockIn'[t] = Merge(blockIn[t], Current)
    BY <1>2, <1>4 DEF EnterSuccessor, Absorbed, NextEntry, TypeInv, TypeOK
  <2>2. Merge(blockIn[t], Current) \in FunctionStates
    BY <1>1, <1>3, MergeFacts
  <2>3. Merge(blockIn'[t], Last(seen[b])) = blockIn'[t] /\ blockIn'[t] # None
    BY <1>1, <1>3, <2>1, <2>2, MergeFacts, FunctionFacts DEF Absorbed
  <2> QED
    BY <2>3 DEF EnterSuccessor, Absorbed
<1>5. CASE t # Succ(cur)[edge]
  BY <1>5 DEF EnterSuccessor, Absorbed, TypeInv, TypeOK
<1> QED
  BY <1>4, <1>5

LEMMA FixEnter ==
  ASSUME TypeInv, FixInv, EnterSuccessor
  PROVE  FixInv'
<1>1. cur \in Blocks /\ Current \in FunctionStates /\ Visited(cur) /\ Current = Last(seen[cur])
  BY TermPoint DEF EnterSuccessor, AtTerminator, Visited, Current
<1>2. edge \in 1 .. Len(Succ(cur)) /\ Succ(cur)[edge] \in Blocks /\ Succ(cur) \in Seq(Blocks)
  BY SuccessorPoint
<1> DEFINE s == Succ(cur)[edge]
           entry == IF blockIn[s] = None THEN Current ELSE NextEntry
<1>3. /\ blockIn' = [blockIn EXCEPT ![s] = entry]
      /\ entry # blockIn[s] => worklist' = Append(worklist, s)
      /\ worklist' \in {worklist, Append(worklist, s)}
  BY DEF EnterSuccessor, Requeue
<1>4. entry \in FunctionStates /\ Merge(entry, Current) = entry
  BY <1>1, <1>2, MergeFacts DEF NextEntry, TypeInv, TypeOK
<1>5. blockIn'[s] = entry /\ entry # None
  BY <1>2, <1>3, <1>4, FunctionFacts DEF TypeInv, TypeOK
<1>6. worklist \in Seq(Blocks) /\ Len(worklist) \in Nat
  BY LenProperties DEF TypeInv, TypeOK
<1>7. \A b \in Blocks : Queued(b) => Queued(b)'
  <2>1. CASE worklist' = worklist
    BY <2>1 DEF Queued
  <2>2. CASE worklist' = Append(worklist, s)
    BY <1>2, <1>6, <2>2, AppendProperties DEF Queued
  <2> QED
    BY <1>3, <2>1, <2>2
<1>8. \A b \in Blocks : b = s /\ entry # blockIn[s] => Queued(b)'
  <2> SUFFICES ASSUME entry # blockIn[s] PROVE \A b \in Blocks : b = s => Queued(b)'
    OBVIOUS
  <2>1. Len(worklist') = Len(worklist) + 1 /\ worklist'[Len(worklist) + 1] = s
    BY <1>2, <1>3, <1>6, AppendProperties
  <2>2. Len(worklist) + 1 \in 1 .. Len(worklist')
    BY <1>6, <2>1
  <2> QED
    BY <2>1, <2>2 DEF Queued
<1>9. \A b \in Blocks : Queued(b)' \/ blockIn'[b] = blockIn[b]
  <2> TAKE b \in Blocks
  <2>1. CASE b = s
    BY <1>5, <1>8, <2>1
  <2>2. CASE b # s
    BY <1>3, <2>2 DEF TypeInv, TypeOK
  <2> QED
    BY <2>1, <2>2
<1>10. \A t \in Blocks : t = s => Absorbed(cur, t)'
  <2>1. Merge(blockIn'[s], Last(seen[cur])) = blockIn'[s] /\ blockIn'[s] # None
    BY <1>1, <1>4, <1>5
  <2> QED
    BY <2>1 DEF EnterSuccessor, Absorbed
<1>11. \A t \in Blocks : t \in Entered(cur, edge)' => Absorbed(cur, t)'
  <2> SUFFICES ASSUME NEW t \in Blocks, t \in Entered(cur, edge)', t # s PROVE Absorbed(cur, t)'
    BY <1>10
  <2>1. t \in Entered(cur, edge)
    BY <1>2 DEF Entered, EnterSuccessor, Succ
  <2>2. Absorbed(cur, t)
    BY <1>1, <2>1, FunctionFacts DEF FixInv
  <2>3. PICK c \in Blocks : c = cur
    BY <1>1
  <2>4. Absorbed(c, t)'
    BY <1>1, <2>2, <2>3, AbsorbedKept
  <2> QED
    BY <2>3, <2>4 DEF EnterSuccessor, Absorbed
<1>12. \A b \in Blocks : Stable(b) => Queued(b)' \/ Stable(b)'
  <2> SUFFICES ASSUME NEW b \in Blocks, Stable(b), ~Queued(b)' PROVE Stable(b)'
    OBVIOUS
  <2>1. Visited(b)' /\ seen'[b][1] = blockIn'[b]
    BY <1>9 DEF Stable, Visited, Code, EnterSuccessor
  <2>2. \A t \in Blocks : t \in ToSet(Succ(b)) => Absorbed(b, t)'
    BY AbsorbedKept DEF Stable
  <2> QED
    BY <2>1, <2>2 DEF Stable, Succ, EnterSuccessor
<1>13. \A b \in Blocks : blockIn'[b] # None => b = cur' \/ Queued(b)' \/ Stable(b)'
  <2> SUFFICES ASSUME NEW b \in Blocks, blockIn'[b] # None, b # cur, ~Queued(b)' PROVE Stable(b)'
    BY DEF EnterSuccessor
  <2>1. blockIn[b] # None
    BY <1>9
  <2> QED
    BY <1>7, <1>12, <2>1 DEF FixInv
<1>14. blockIn'[cur'] # None /\ (seen'[cur'][1] = blockIn'[cur'] \/ Queued(cur)')
  <2>1. cur' = cur /\ seen' = seen
    BY DEF EnterSuccessor
  <2>2. blockIn[cur] # None /\ (seen[cur][1] = blockIn[cur] \/ Queued(cur))
    BY DEF FixInv, EnterSuccessor, AtTerminator, Scanning
  <2>3. blockIn'[cur] # None
    BY <1>1, <1>3, <1>5, <2>2 DEF TypeInv, TypeOK
  <2> QED
    BY <1>1, <1>7, <1>9, <2>1, <2>2, <2>3
<1> QED
  BY <1>1, <1>11, <1>13, <1>14 DEF EnterSuccessor, FixInv, AtTerminator, Scanning, Queued, Visited, Code, Succ

LEMMA FixPop ==
  ASSUME TypeInv, FixInv, PopBlock
  PROVE  FixInv'
<1>1. worklist \in Seq(Blocks) /\ worklist # <<>>
  BY DEF PopBlock, TypeInv, TypeOK
<1>2. /\ Len(worklist) \in Nat \ {0} /\ cur' = worklist[Len(worklist)] /\ cur' \in Blocks
      /\ Len(worklist') = Len(worklist) - 1
      /\ \A i \in 1 .. Len(worklist) - 1 : worklist'[i] = worklist[i]
  BY <1>1, FrontFacts DEF PopBlock
<1>3. PICK c \in Blocks : c = cur'
  BY <1>2
<1>4. \A b \in Blocks : b # c /\ Queued(b) => Queued(b)'
  BY <1>2, <1>3 DEF Queued
<1>5. Queued(c)
  BY <1>2, <1>3 DEF Queued
<1>6. seen' = [seen EXCEPT ![c] = <<blockIn[c]>>] /\ edge' = 1 /\ blockIn' = blockIn /\ fn' = fn
  BY <1>3 DEF PopBlock
<1>7. \A b \in Blocks : b # c => seen'[b] = seen[b]
  BY <1>6 DEF TypeInv, TypeOK
<1>8. \A b \in Blocks : b # c /\ Stable(b) => Stable(b)'
  BY <1>6, <1>7 DEF Stable, Visited, Absorbed, Code, Succ
<1>9. \A b \in Blocks : blockIn'[b] # None => b = c \/ Queued(b)' \/ Stable(b)'
  BY <1>4, <1>6, <1>8, FunctionFacts DEF FixInv, PopBlock
<1>10. blockIn'[c] # None /\ seen'[c][1] = blockIn'[c]
  BY <1>5, <1>6 DEF TypeInv, TypeOK
<1>11. \A t \in Blocks : t \notin Entered(c, 1)'
  BY DEF Entered
<1> QED
  BY <1>3, <1>6, <1>9, <1>10, <1>11 DEF FixInv, PopBlock, Entered

LEMMA FixEnd ==
  ASSUME TypeInv, FixInv, EndBlock
  PROVE  FixInv'
<1>1. PICK c \in Blocks : c = cur
  BY TermPoint DEF EndBlock
<1>2. c # None /\ Visited(c)
  BY <1>1, FunctionFacts DEF EndBlock, AtTerminator, Visited
<1>3. \A t \in Blocks : t \in ToSet(Succ(c)) => t \in Entered(c, edge)
  <2>1. edge \in Nat /\ edge > Len(Succ(c)) /\ Len(Succ(c)) \in Nat /\ DOMAIN Succ(c) = 1 .. Len(Succ(c))
    BY <1>1, BlockType, LenProperties DEF EndBlock, TypeInv, TypeOK
  <2> QED
    BY <2>1 DEF ToSet, Entered
<1>4. Stable(c) \/ Queued(c)
  BY <1>1, <1>2, <1>3 DEF FixInv, Stable
<1>5. \A b \in Blocks : (Stable(b) => Stable(b)') /\ (Queued(b) => Queued(b)')
  BY DEF EndBlock, Stable, Visited, Absorbed, Code, Succ, Queued
<1>6. \A b \in Blocks : blockIn'[b] # None => Queued(b)' \/ Stable(b)'
  BY <1>1, <1>4, <1>5 DEF FixInv, EndBlock
<1> QED
  BY <1>6 DEF FixInv, EndBlock, AtTerminator, Scanning

LEMMA FixStep ==
  ASSUME TypeInv, FixInv, [Next]_vars
  PROVE  FixInv'
<1>1. ASSUME UNCHANGED <<fn, worklist, cur, edge, blockIn, seen>>,
             phase' # "scan" => cur = None /\ worklist = <<>>
      PROVE  FixInv'
  <2>1. \A b \in Blocks : (Stable(b) => Stable(b)') /\ (Queued(b) => Queued(b)')
    BY <1>1 DEF Stable, Visited, Absorbed, Code, Succ, Queued
  <2>2. \A b \in Blocks : blockIn'[b] # None => b = cur' \/ Queued(b)' \/ Stable(b)'
    BY <1>1, <2>1 DEF FixInv
  <2> QED
    BY <1>1, <2>2 DEF FixInv, Entered, Absorbed, Visited, Code, Succ, Queued
<1>2. CASE UNCHANGED vars
  BY <1>1, <1>2 DEF vars, flowVars, FixInv
<1>3. CASE Analysis
  <2>1. CASE PopBlock
    BY <2>1, FixPop
  <2>2. CASE ConsumeCopy
    BY <2>2, FixRecord DEF ConsumeCopy, OpKinds
  <2>3. CASE ConsumeMove
    BY <2>3, FixRecord DEF ConsumeMove, OpKinds
  <2>4. CASE WriteDestination
    BY <2>4, FixRecord DEF WriteDestination, OpKinds
  <2>5. CASE StorageLive
    BY <2>5, FixRecord DEF StorageLive, OpKinds
  <2>6. CASE StorageDead
    BY <2>6, FixRecord DEF StorageDead, OpKinds
  <2>7. CASE EnterSuccessor
    BY <2>7, FixEnter
  <2>8. CASE EndBlock
    BY <2>8, FixEnd
  <2>9. CASE Finish
    BY <2>9, <1>1 DEF Finish
  <2> QED
    BY <1>3, <2>1, <2>2, <2>3, <2>4, <2>5, <2>6, <2>7, <2>8, <2>9 DEF Analysis, FlowNext
<1>4. CASE Execution
  <2>1. UNCHANGED <<fn, worklist, cur, edge, blockIn, seen>>
    BY <1>4 DEF Execution, Start, ExecDrop, ExecCopy, ExecMove, ExecWrite, ExecLive, ExecDead,
                ExecBranch, ExecReturn, Step, flowVars
  <2>2. phase # "scan"
    BY <1>4 DEF Execution, Start, ExecDrop, ExecCopy, ExecMove, ExecWrite, ExecLive, ExecDead,
                ExecBranch, ExecReturn, Executes, InBlock, Running, Accepted
  <2> QED
    BY <1>1, <2>1, <2>2 DEF FixInv
<1> QED
  BY <1>2, <1>3, <1>4 DEF Next

LEMMA FixpointReached ==
  ASSUME TypeInv, FixInv
  PROVE  FixpointStable
<1> SUFFICES ASSUME phase = "done", NEW b \in Blocks, blockIn[b] # None
             PROVE  /\ Visited(b) /\ seen[b][1] = blockIn[b]
                    /\ \A s \in ToSet(Succ(b)) : blockIn[s] # None /\ Merge(blockIn[s], Last(seen[b])) = blockIn[s]
  BY DEF FixpointStable
<1>1. Stable(b)
  BY FunctionFacts, EmptySeq DEF FixInv, Queued
<1>2. \A s \in ToSet(Succ(b)) : s \in Blocks
  BY BlockType, LenProperties, ElementOfSeq DEF ToSet, TypeInv
<1> QED
  BY <1>1, <1>2 DEF Stable, Absorbed

\* When the worklist runs empty the analysis has reached a fixpoint: every
\* reached block was scanned from its final entry state and scanning any of
\* them again would change nothing, for any MIR and any order of joins.
THEOREM FixpointCorrect == Spec => []FixpointStable
<1>1. Init => TypeInv /\ FixInv
  BY TypeInit, FixInit
<1>2. TypeInv /\ FixInv /\ [Next]_vars => (TypeInv /\ FixInv)'
  BY TypeStep, FixStep
<1>3. TypeInv /\ FixInv => FixpointStable
  BY FixpointReached
<1> QED
  BY <1>1, <1>2, <1>3, PTL DEF Spec

-----------------------------------------------------------------------------
(* The rest is about the locals that are moved and written only as a       *)
(* whole, in functions that may do what they like with the others. Of      *)
(* these every drop finds a live value, and what is known to be live at a  *)
(* scope's end or a return has been dropped. And of those with a name an   *)
(* accepted function reads only what is initialized and not dropped: of a  *)
(* temporary the analysis reports nothing, so acceptance says nothing.     *)

WholeLocals == {l \in Locals : \A f \in Functions : MovedWhole(f, l)}
MovesWholeLocals == WholeLocals = Locals

\* Those of which misuse is reported, and functions that have no other named ones.
WholeNamed == WholeLocals \ Unnamed
MovesWholeNamed == Locals \ Unnamed \subseteq WholeLocals
OfNamed == Instr.place.local \notin Unnamed

Known(st, l) == l \in WholeLocals /\ st[l] = AsWhole("Initialized")
AllWhole(st) == \A l \in WholeLocals : st[l].tag = "Whole"

\* What is known after an entry was written by it, or known before and left alone.
Carries(st, e, next) ==
  \A l \in Locals : Known(next, l) =>
    \/ e.op = "write" /\ e.place.local = l
    \/ Known(st, l) /\ ~(e.op \in {"move", "live", "dead"} /\ e.place.local = l)

\* The points of a scanned block follow from each other, and, as long as no
\* error was reported, what is read is known.
PassInv ==
  \A b \in Blocks :
    /\ blockIn[b] # None => AllWhole(blockIn[b])
    /\ Len(seen[b]) <= Len(Code(b)) + 1
    /\ \A i \in 1 .. Len(seen[b]) : AllWhole(seen[b][i])
    /\ \A i \in 1 .. Len(Code(b)) : i < Len(seen[b]) =>
         /\ Carries(seen[b][i], Code(b)[i], seen[b][i + 1])
         /\ errors = {} /\ Code(b)[i].op \in {"copy", "move"} /\ Code(b)[i].place.local \in WholeNamed
              => Known(seen[b][i], Code(b)[i].place.local)

EntryInv ==
  /\ blockIn[fn.entry] # None
  /\ \A l \in Locals : Known(blockIn[fn.entry], l) => l \in fn.params

\* While the function runs, what is known at the point reached is initialized.
RunInv ==
  /\ phase \in {"scan", "done"} => \A leaf \in Leaves : leaf.local \in fn.params => env[leaf] = "init"
  /\ phase \in {"run", "returned"} =>
       /\ errors = {} /\ blockIn[pc[1]] # None /\ pc[2] <= Len(Code(pc[1])) + 1
       /\ \A leaf \in Leaves : Known(seen[pc[1]][pc[2]], leaf.local) => env[leaf] = "init"

SoundInv == TypeInv /\ FixInv /\ PassInv /\ EntryInv /\ RunInv

LEMMA WholePlace ==
  ASSUME fn \in Functions, NEW b \in Blocks, NEW i \in 1 .. Len(Code(b)),
         Code(b)[i].op \in {"move", "write"}, Code(b)[i].place.local \in WholeLocals
  PROVE  Code(b)[i].place.field = Whole
BY DEF WholeLocals, MovedWhole, Code

LEMMA WholeLocalsType == WholeLocals \subseteq Locals
BY DEF WholeLocals

LEMMA SoundInit == Init => PassInv /\ EntryInv /\ RunInv
<1> SUFFICES ASSUME Init PROVE PassInv /\ EntryInv /\ RunInv
  OBVIOUS
<1> USE DEF Init, FlowInit, ExecInit
<1> DEFINE e == [l \in Locals |-> AsWhole(IF l \in fn.params THEN "Initialized" ELSE "Uninitialized")]
<1>1. AllWhole(e) /\ \A l \in Locals : Known(e, l) => l \in fn.params
  BY WholeLocalsType DEF AllWhole, Known, AsWhole
<1>2. e \in FunctionStates
  BY WholeIntro DEF FunctionStates, ValueStates
<1>3. fn.entry \in Blocks /\ blockIn = [b \in Blocks |-> IF b = fn.entry THEN e ELSE None]
  BY FunctionFacts
<1> HIDE DEF e
<1>4. blockIn[fn.entry] = e /\ \A b \in Blocks : blockIn[b] # None => blockIn[b] = e
  BY <1>2, <1>3
<1>5. \A b \in Blocks : Len(seen[b]) = 0 /\ Len(Code(b)) \in Nat
  BY BlockType
<1>6. PassInv
  BY <1>1, <1>4, <1>5 DEF PassInv
<1>7. EntryInv
  BY <1>1, <1>2, <1>4, FunctionFacts DEF EntryInv
<1>8. RunInv
  BY DEF RunInv
<1> QED
  BY <1>6, <1>7, <1>8

LEMMA PassRecord ==
  ASSUME TypeInv, PassInv, NEW op \in OpKinds, At(op), NEW st \in FunctionStates, NEW errs,
         Record(st, errs), AllWhole(st), Carries(Current, Op, st),
         errs = {} /\ op \in {"copy", "move"} /\ Op.place.local \in WholeNamed => Known(Current, Op.place.local)
  PROVE  PassInv'
<1>1. PICK c \in Blocks : c = cur
  BY ScanPoint
<1>2. /\ seen[c] \in Seq(FunctionStates) /\ Len(seen[c]) \in 1 .. Len(Code(c)) /\ Len(Code(c)) \in Nat
      /\ Op = Code(c)[Len(seen[c])] /\ Op.op = op /\ Current = seen[c][Len(seen[c])]
  BY <1>1, ScanPoint, BlockType DEF TypeInv, TypeOK
<1>3. /\ seen' = [seen EXCEPT ![c] = Append(@, st)] /\ blockIn' = blockIn /\ fn' = fn
      /\ errors' = {} => errors = {} /\ errs = {}
  BY <1>1 DEF Record
<1>4. /\ Len(seen'[c]) = Len(seen[c]) + 1 /\ seen'[c][Len(seen[c]) + 1] = st
      /\ \A i \in 1 .. Len(seen[c]) : seen'[c][i] = seen[c][i]
  BY <1>2, <1>3, AppendProperties DEF TypeInv, TypeOK
<1>5. \A b \in Blocks : Code(b)' = Code(b) /\ (b # c => seen'[b] = seen[b])
  BY <1>3 DEF Code, TypeInv, TypeOK
<1> SUFFICES ASSUME NEW b \in Blocks
             PROVE  (/\ blockIn[b] # None => AllWhole(blockIn[b])
                     /\ Len(seen[b]) <= Len(Code(b)) + 1
                     /\ \A i \in 1 .. Len(seen[b]) : AllWhole(seen[b][i])
                     /\ \A i \in 1 .. Len(Code(b)) : i < Len(seen[b]) =>
                          /\ Carries(seen[b][i], Code(b)[i], seen[b][i + 1])
                          /\ errors = {} /\ Code(b)[i].op \in {"copy", "move"} /\ Code(b)[i].place.local \in WholeNamed
                               => Known(seen[b][i], Code(b)[i].place.local))'
  BY DEF PassInv
<1>6. CASE b # c
  BY <1>3, <1>5, <1>6 DEF PassInv
<1>7. CASE b = c
  <2>1. \A i \in 1 .. Len(seen'[c]) : AllWhole(seen'[c][i])
    <3> TAKE i \in 1 .. Len(seen'[c])
    <3>1. i \in 1 .. Len(seen[c]) \/ i = Len(seen[c]) + 1
      BY <1>2, <1>4
    <3>2. CASE i \in 1 .. Len(seen[c])
      <4>1. seen'[c][i] = seen[c][i]
        BY <1>4, <3>2
      <4> QED
        BY <3>2, <4>1 DEF PassInv
    <3> QED
      BY <1>4, <3>1, <3>2
  <2>2. ASSUME NEW i \in 1 .. Len(Code(c)), i < Len(seen'[c])
        PROVE  /\ Carries(seen'[c][i], Code(c)[i], seen'[c][i + 1])
               /\ errors' = {} /\ Code(c)[i].op \in {"copy", "move"} /\ Code(c)[i].place.local \in WholeNamed
                    => Known(seen'[c][i], Code(c)[i].place.local)
    <3>1. CASE i = Len(seen[c])
      BY <1>2, <1>3, <1>4, <3>1
    <3>2. CASE i # Len(seen[c])
      <4>1. i < Len(seen[c]) /\ i \in 1 .. Len(seen[c]) /\ i + 1 \in 1 .. Len(seen[c])
        BY <1>2, <1>4, <2>2, <3>2
      <4>2. seen'[c][i] = seen[c][i] /\ seen'[c][i + 1] = seen[c][i + 1]
        BY <1>4, <4>1
      <4> QED
        BY <1>3, <4>1, <4>2 DEF PassInv
    <3> QED
      BY <3>1, <3>2
  <2>3. Len(seen'[c]) <= Len(Code(c)) + 1
    BY <1>2, <1>4
  <2> QED
    BY <1>3, <1>5, <1>7, <2>1, <2>2, <2>3 DEF PassInv
<1> QED
  BY <1>6, <1>7

\* No error raised by a read of a named local's whole state means that it is known.
LEMMA ReadKnown ==
  ASSUME NEW st \in FunctionStates, AllWhole(st), NEW p, p.local \in WholeNamed, ReadErrors(st, p) = {}
  PROVE  Known(st, p.local)
<1>0. p.local \in WholeLocals /\ p.local \notin Unnamed
  BY DEF WholeNamed
<1>1. st[p.local].tag = "Whole" /\ st[p.local].value \in ValueStates /\ st[p.local] = AsWhole(st[p.local].value)
  BY <1>0, WholeElim, WholeLocalsType DEF AllWhole, FunctionStates
<1>2. ReadPlace(st, p) = ReadValue(st[p.local].value)
  BY <1>1 DEF ReadPlace
<1>3. st[p.local].value = "Initialized"
  BY <1>0, <1>1, <1>2 DEF ReadErrors, Reported, ReadValue, ValueStates
<1> QED
  BY <1>0, <1>1, <1>3 DEF Known

\* The state a write, a move, StorageLive or StorageDead leaves: the other locals
\* are as before, and this one, when it is only treated as a whole, is whole.
LEMMA SetCarries ==
  ASSUME NEW st \in FunctionStates, AllWhole(st), NEW e, NEW next, NEW v \in ValueStates,
         \A l \in Locals \ {e.place.local} : next[l] = st[l],
         e.place.local \in WholeLocals => next[e.place.local] = AsWhole(v),
         v = "Initialized" <=> e.op = "write", e.op \in {"write", "move", "live", "dead"}
  PROVE  AllWhole(next) /\ Carries(st, e, next)
BY WholeLocalsType DEF AllWhole, Carries, Known, AsWhole

LEMMA PassStep ==
  ASSUME TypeInv, PassInv, Analysis
  PROVE  PassInv'
<1> USE DEF Analysis
<1>0. ASSUME NEW op \in OpKinds, At(op)
      PROVE  /\ Current \in FunctionStates /\ AllWhole(Current)
             /\ Op.op = op /\ Op.place.local \in Locals /\ Op.place \in OwnedPlaces
             /\ op \in {"move", "write"} /\ Op.place.local \in WholeLocals => Op.place.field = Whole
  <2>1. cur \in Blocks /\ Len(seen[cur]) \in 1 .. Len(Code(cur)) /\ seen[cur] \in Seq(FunctionStates)
    BY <1>0, ScanPoint DEF TypeInv, TypeOK
  <2>2. Len(seen[cur]) \in 1 .. Len(seen[cur])
    BY <2>1, BlockType DEF TypeInv
  <2> QED
    BY <1>0, <2>1, <2>2, ScanPoint, WholePlace DEF PassInv, TypeInv
<1>1. CASE PopBlock
  <2>1. worklist \in Seq(Blocks) /\ worklist # <<>>
    BY <1>1 DEF PopBlock, TypeInv, TypeOK
  <2>2. PICK c \in Blocks : c = cur' /\ Queued(c)
    BY <1>1, <2>1, FrontFacts DEF PopBlock, Queued
  <2>3. seen' = [seen EXCEPT ![c] = <<blockIn[c]>>] /\ UNCHANGED <<fn, blockIn, errors>>
    BY <1>1, <2>2 DEF PopBlock
  <2>4. AllWhole(blockIn[c]) /\ Len(Code(c)) \in Nat
    BY <2>2, BlockType DEF PassInv, TypeInv
  <2>5. \A b \in Blocks : seen'[b] = IF b = c THEN <<blockIn[c]>> ELSE seen[b]
    BY <2>3 DEF TypeInv, TypeOK
  <2> QED
    BY <2>3, <2>4, <2>5 DEF PassInv, Code
<1>2. CASE ConsumeCopy
  <2>1. Carries(Current, Op, Current)
    BY <1>0, <1>2 DEF ConsumeCopy, OpKinds, Carries
  <2> QED
    BY <1>0, <1>2, <2>1, PassRecord, ReadKnown DEF ConsumeCopy, OpKinds
<1>3. CASE ConsumeMove
  <2>0. /\ At("move") /\ Current \in FunctionStates /\ AllWhole(Current) /\ Op.op = "move"
        /\ Op.place.local \in Locals /\ Op.place \in OwnedPlaces
        /\ Op.place.local \in WholeLocals => Op.place.field = Whole
    BY <1>0, <1>3 DEF ConsumeMove, OpKinds
  <2>1. /\ \A l \in Locals \ {Op.place.local} : MovePlace(Current, Op.place)[l] = Current[l]
        /\ Op.place.local \in WholeLocals => MovePlace(Current, Op.place)[Op.place.local] = AsWhole("Moved")
    BY <2>0 DEF MovePlace, FunctionStates
  <2>2. /\ AllWhole(MovePlace(Current, Op.place)) /\ Carries(Current, Op, MovePlace(Current, Op.place))
        /\ MovePlace(Current, Op.place) \in FunctionStates
    <3>1. PICK st \in FunctionStates : st = MovePlace(Current, Op.place)
      BY <2>0, MovePlaceType
    <3>2. AllWhole(st) /\ Carries(Current, Op, st)
      BY <2>0, <2>1, <3>1, SetCarries DEF ValueStates
    <3> QED
      BY <3>1, <3>2
  <2> DEFINE errs == ReadErrors(Current, Op.place) \cup
                       (IF Op.place.field # Whole /\ Op.place.local \in DropWhole
                        THEN Reported("MoveOutOfDrop", Op.place) ELSE {})
  <2>3. Record(MovePlace(Current, Op.place), errs)
    BY <1>3 DEF ConsumeMove
  <2>4. errs = {} /\ Op.place.local \in WholeNamed => Known(Current, Op.place.local)
    BY <1>0, <1>3, ReadKnown DEF ConsumeMove, OpKinds
  <2> HIDE DEF errs
  <2> QED
    BY <1>3, <2>2, <2>3, <2>4, PassRecord DEF ConsumeMove, OpKinds
<1>4. CASE WriteDestination
  <2>0. /\ At("write") /\ Current \in FunctionStates /\ AllWhole(Current) /\ Op.op = "write"
        /\ Op.place.local \in Locals /\ Op.place \in OwnedPlaces
        /\ Op.place.local \in WholeLocals => Op.place.field = Whole
    BY <1>0, <1>4 DEF WriteDestination, OpKinds
  <2>1. /\ \A l \in Locals \ {Op.place.local} : WritePlace(Current, Op.place)[l] = Current[l]
        /\ Op.place.local \in WholeLocals => WritePlace(Current, Op.place)[Op.place.local] = AsWhole("Initialized")
    BY <2>0 DEF WritePlace, FunctionStates
  <2>2. /\ AllWhole(WritePlace(Current, Op.place)) /\ Carries(Current, Op, WritePlace(Current, Op.place))
        /\ WritePlace(Current, Op.place) \in FunctionStates
    <3>1. PICK st \in FunctionStates : st = WritePlace(Current, Op.place)
      BY <2>0, WritePlaceType
    <3>2. AllWhole(st) /\ Carries(Current, Op, st)
      BY <2>0, <2>1, <3>1, SetCarries DEF ValueStates
    <3> QED
      BY <3>1, <3>2
  <2> QED
    BY <1>4, <2>2, PassRecord DEF WriteDestination, OpKinds
<1>5. CASE StorageLive
  <2> DEFINE st == [Current EXCEPT ![Op.place.local] = AsWhole("Uninitialized")]
  <2>1. AllWhole(st) /\ Carries(Current, Op, st)
    <3>1. /\ Current \in FunctionStates /\ AllWhole(Current) /\ Op.op = "live" /\ Op.place.local \in Locals
      BY <1>0, <1>5 DEF StorageLive, OpKinds
    <3>2. PICK next : next = st
      OBVIOUS
    <3>3. /\ \A l \in Locals \ {Op.place.local} : next[l] = Current[l]
          /\ next[Op.place.local] = AsWhole("Uninitialized")
      BY <3>1, <3>2 DEF FunctionStates
    <3>4. AllWhole(next) /\ Carries(Current, Op, next)
      BY <3>1, <3>3, SetCarries DEF ValueStates
    <3> QED
      BY <3>2, <3>4
  <2>2. st \in FunctionStates
    BY <1>0, <1>5, WholeIntro DEF StorageLive, OpKinds, ValueStates, FunctionStates
  <2> QED
    BY <1>5, <2>1, <2>2, PassRecord DEF StorageLive, OpKinds
<1>6. CASE StorageDead
  <2> DEFINE st == [Current EXCEPT ![Op.place.local] = AsWhole("Moved")]
  <2>1. AllWhole(st) /\ Carries(Current, Op, st)
    <3>1. /\ Current \in FunctionStates /\ AllWhole(Current) /\ Op.op = "dead" /\ Op.place.local \in Locals
      BY <1>0, <1>6 DEF StorageDead, OpKinds
    <3>2. PICK next : next = st
      OBVIOUS
    <3>3. /\ \A l \in Locals \ {Op.place.local} : next[l] = Current[l]
          /\ next[Op.place.local] = AsWhole("Moved")
      BY <3>1, <3>2 DEF FunctionStates
    <3>4. AllWhole(next) /\ Carries(Current, Op, next)
      BY <3>1, <3>3, SetCarries DEF ValueStates
    <3> QED
      BY <3>2, <3>4
  <2>2. st \in FunctionStates
    BY <1>0, <1>6, WholeIntro DEF StorageDead, OpKinds, ValueStates, FunctionStates
  <2> QED
    BY <1>6, <2>1, <2>2, PassRecord DEF StorageDead, OpKinds
<1>7. CASE EnterSuccessor
  <2>1. cur \in Blocks /\ Current = seen[cur][Len(seen[cur])] /\ Len(seen[cur]) = Len(Code(cur)) + 1
    BY <1>7, TermPoint DEF EnterSuccessor
  <2>2. AllWhole(Current) /\ Current \in FunctionStates
    <3>1. Len(seen[cur]) \in 1 .. Len(seen[cur])
      BY <2>1, BlockType DEF TypeInv
    <3> QED
      BY <1>7, <2>1, <3>1, TermPoint DEF EnterSuccessor, PassInv
  <2>3. Succ(cur)[edge] \in Blocks
    BY <1>7, SuccessorPoint
  <2> DEFINE s == Succ(cur)[edge]
             entry == IF blockIn[s] = None THEN Current ELSE NextEntry
  <2>4. blockIn[s] # None => AllWhole(NextEntry)
    BY <2>2, <2>3, WholeLocalsType DEF NextEntry, AllWhole, Merge, JoinLocal, AsWhole, PassInv
  <2>5. AllWhole(entry)
    BY <2>2, <2>4
  <2>6. blockIn' = [blockIn EXCEPT ![s] = entry] /\ UNCHANGED <<fn, seen, errors>>
    BY <1>7 DEF EnterSuccessor
  <2> HIDE DEF entry
  <2>7. \A b \in Blocks : blockIn'[b] # None => AllWhole(blockIn'[b])
    BY <2>3, <2>5, <2>6 DEF PassInv, TypeInv, TypeOK
  <2> QED
    BY <2>6, <2>7 DEF PassInv, Code
<1>8. CASE EndBlock
  BY <1>8 DEF EndBlock, PassInv, Code
<1>9. CASE Finish
  BY <1>9 DEF Finish, PassInv, Code
<1> QED
  BY <1>1, <1>2, <1>3, <1>4, <1>5, <1>6, <1>7, <1>8, <1>9 DEF FlowNext

\* What is known after a join was known on both sides.
LEMMA MergeKnown ==
  ASSUME NEW x \in FunctionStates, NEW y \in FunctionStates, NEW l \in Locals, Known(Merge(x, y), l)
  PROVE  Known(x, l) /\ Known(y, l)
<1>1. x[l] \in LocalStates /\ y[l] \in LocalStates /\ JoinLocal(x[l], y[l]) = AsWhole("Initialized")
  BY DEF Known, Merge, FunctionStates
<1>2. x[l].tag # "Partial" /\ y[l].tag # "Partial"
  BY <1>1, JoinLocalType DEF AsWhole
<1>3. /\ x[l] = AsWhole(x[l].value) /\ x[l].value \in ValueStates
      /\ y[l] = AsWhole(y[l].value) /\ y[l].value \in ValueStates
      /\ JoinLocal(x[l], y[l]) = AsWhole(JoinValue(x[l].value, y[l].value))
  BY <1>1, <1>2, WholeElim DEF JoinLocal
<1>4. JoinValue(x[l].value, y[l].value) = "Initialized"
  BY <1>1, <1>3 DEF AsWhole
<1> QED
  BY <1>3, <1>4, JoinValueFacts DEF Known

LEMMA EntryStep ==
  ASSUME TypeInv, EntryInv, [Next]_vars
  PROVE  EntryInv'
<1>1. CASE UNCHANGED <<fn, blockIn>>
  BY <1>1 DEF EntryInv
<1>2. CASE EnterSuccessor
  <2>1. cur \in Blocks /\ Current \in FunctionStates
    BY <1>2, TermPoint DEF EnterSuccessor
  <2>2. Succ(cur)[edge] \in Blocks
    BY <1>2, SuccessorPoint
  <2> DEFINE s == Succ(cur)[edge]
             entry == IF blockIn[s] = None THEN Current ELSE NextEntry
  <2>3. blockIn' = [blockIn EXCEPT ![s] = entry] /\ fn' = fn
    BY <1>2 DEF EnterSuccessor
  <2>4. CASE s # fn.entry
    BY <2>3, <2>4, FunctionFacts DEF EntryInv, TypeInv, TypeOK
  <2>5. CASE s = fn.entry
    <3>1. blockIn'[fn.entry] = Merge(blockIn[fn.entry], Current) /\ blockIn[fn.entry] \in FunctionStates
      BY <2>2, <2>3, <2>5 DEF EntryInv, NextEntry, TypeInv, TypeOK
    <3>2. Merge(blockIn[fn.entry], Current) \in FunctionStates
      BY <2>1, <3>1, MergeFacts
    <3>3. \A l \in Locals : Known(Merge(blockIn[fn.entry], Current), l) => Known(blockIn[fn.entry], l)
      BY <2>1, <3>1, MergeKnown
    <3> QED
      BY <2>3, <3>1, <3>2, <3>3, FunctionFacts DEF EntryInv
  <2> QED
    BY <2>4, <2>5
<1> QED
  BY <1>1, <1>2 DEF Next, Analysis, FlowNext, PopBlock, ConsumeCopy, ConsumeMove, WriteDestination,
                    StorageLive, StorageDead, Record, EndBlock, Finish, Execution, Start, ExecDrop, ExecCopy,
                    ExecMove, ExecWrite, ExecLive, ExecDead, ExecBranch, ExecReturn, Step, vars, flowVars

LEMMA RunStep ==
  ASSUME SoundInv, [Next]_vars
  PROVE  RunInv'
<1> USE DEF SoundInv
<1>1. CASE UNCHANGED vars
  BY <1>1 DEF vars, flowVars, runVars, RunInv, Code
<1>2. CASE Analysis
  BY <1>2 DEF Analysis, FlowNext, PopBlock, ConsumeCopy, ConsumeMove, WriteDestination, StorageLive,
              StorageDead, Record, At, AtTerminator, Scanning, EnterSuccessor, EndBlock, Finish, runVars, RunInv
\* Where the run is, the states of the finished pass are in place.
<1>3. ASSUME NEW b \in Blocks, phase # "scan", blockIn[b] # None
      PROVE  /\ Len(seen[b]) = Len(Code(b)) + 1 /\ seen[b][1] = blockIn[b] /\ Len(Code(b)) \in Nat
             /\ \A t \in ToSet(Succ(b)) : t \in Blocks /\ Absorbed(b, t)
  <2>1. Stable(b)
    BY <1>3, FunctionFacts, EmptySeq DEF FixInv, Queued
  <2>2. \A t \in ToSet(Succ(b)) : t \in Blocks
    BY BlockType, LenProperties, ElementOfSeq DEF ToSet, TypeInv
  <2> QED
    BY <2>1, <2>2, BlockType DEF Stable, Visited, TypeInv
<1>4. CASE Start
  <2>1. /\ errors = {} /\ phase = "done" /\ phase' = "run" /\ pc' = <<fn.entry, 1>>
        /\ UNCHANGED <<fn, blockIn, seen, errors, env>> /\ fn.entry \in Blocks
    BY <1>4, FunctionFacts DEF Start, Accepted, Goto, TypeInv
  <2>2. seen[fn.entry][1] = blockIn[fn.entry] /\ Len(Code(fn.entry)) \in Nat
    BY <1>3, <2>1 DEF EntryInv
  <2>3. \A leaf \in Leaves : leaf.local \in Locals
    BY DEF Leaves, LeavesOf
  <2>4. \A leaf \in Leaves : Known(seen[fn.entry][1], leaf.local) => env[leaf] = "init"
    BY <2>1, <2>2, <2>3 DEF EntryInv, RunInv
  <2> QED
    BY <2>1, <2>2, <2>4 DEF EntryInv, RunInv, Code
<1>5. CASE ExecDrop
  BY <1>5 DEF ExecDrop, flowVars, RunInv, Code
\* An entry that is executed changes the slots the way Carries says.
<1>6. ASSUME InBlock, Step,
             \A leaf \in Leaves :
               \/ Instr.op = "write" /\ leaf.local = Instr.place.local /\ env'[leaf] = "init"
               \/ leaf.local \notin WholeLocals
               \/ Instr.op \in {"move", "live"} /\ leaf.local = Instr.place.local
               \/ ~(Instr.op = "write" /\ leaf.local = Instr.place.local) /\ env'[leaf] = env[leaf]
      PROVE  RunInv'
  <2>1. PICK b \in Blocks, i \in Nat : b = pc[1] /\ i = pc[2]
    BY DEF TypeInv
  <2>2. /\ i \in 1 .. Len(Code(b)) /\ Instr = Code(b)[i] /\ pc' = <<b, i + 1>>
        /\ phase = "run" /\ UNCHANGED flowVars
    BY <1>6, <2>1, ExecPoint DEF Step, Goto, InBlock, Running
  <2>3. blockIn[b] # None /\ errors = {}
    BY <2>1, <2>2 DEF RunInv
  <2>4. Len(seen[b]) = Len(Code(b)) + 1 /\ Len(Code(b)) \in Nat
    BY <1>3, <2>2, <2>3
  <2>5. Carries(seen[b][i], Instr, seen[b][i + 1])
    BY <2>2, <2>4 DEF PassInv
  <2>6. \A leaf \in Leaves : leaf.local \in Locals
    BY DEF Leaves, LeavesOf
  <2>7. \A leaf \in Leaves : Known(seen[b][i + 1], leaf.local) => env'[leaf] = "init"
    BY <1>6, <2>1, <2>2, <2>5, <2>6 DEF Carries, Known, RunInv
  <2>8. phase' = "run" /\ errors' = {} /\ blockIn'[pc'[1]] # None /\ pc'[2] <= Len(Code(pc'[1])) + 1
    BY <2>2, <2>3, <2>4 DEF flowVars
  <2> QED
    BY <2>2, <2>7, <2>8 DEF RunInv, flowVars, Code
<1>7. CASE ExecCopy
  BY <1>6, <1>7 DEF ExecCopy, Executes
<1>8. \A leaf \in Leaves, p \in OwnedPlaces : leaf \in LeavesOf(p) => leaf.local = p.local
  BY DEF LeavesOf
<1>9. CASE ExecMove
  BY <1>6, <1>8, <1>9, ExecPoint DEF ExecMove, Executes
<1>10. CASE ExecWrite
  <2>1. /\ InBlock /\ Instr.op = "write" /\ Instr.place \in OwnedPlaces
        /\ Instr.place.local \in WholeLocals => Instr.place.field = Whole
    BY <1>10, ExecPoint, WholePlace DEF ExecWrite, Executes, TypeInv
  <2>2. ASSUME NEW leaf \in Leaves, leaf.local \in WholeLocals
        PROVE  leaf \in LeavesOf(Instr.place) <=> leaf.local = Instr.place.local
    BY <2>1, <2>2 DEF Leaves, LeavesOf, OwnedPlaces, Places
  <2> QED
    BY <1>6, <1>10, <2>1, <2>2 DEF ExecWrite, Executes
<1>11. CASE ExecLive
  BY <1>6, <1>11 DEF ExecLive, Executes
<1>12. CASE ExecDead
  BY <1>6, <1>12 DEF ExecDead, Executes
<1>13. CASE ExecBranch
  <2>1. PICK b \in Blocks, i \in Nat : b = pc[1] /\ i = pc[2]
    BY DEF TypeInv
  <2>2. PICK t \in ToSet(Succ(b)) : pc' = <<t, 1>>
    BY <1>13, <2>1 DEF ExecBranch, Goto
  <2>3. phase = "run" /\ ~InBlock /\ UNCHANGED <<flowVars, env>>
    BY <1>13 DEF ExecBranch, Running
  <2>4. blockIn[b] # None /\ errors = {} /\ i <= Len(Code(b)) + 1
    BY <2>1, <2>3 DEF RunInv
  <2>5. /\ Len(seen[b]) = Len(Code(b)) + 1 /\ Len(Code(b)) \in Nat
        /\ t \in Blocks /\ Absorbed(b, t)
    BY <1>3, <2>2, <2>3, <2>4
  <2>6. i = Len(seen[b])
    BY <1>13, <2>1, <2>3, <2>4, <2>5 DEF ExecBranch, InBlock
  <2>7. seen[t][1] = blockIn[t] /\ blockIn[t] # None /\ Len(Code(t)) \in Nat
    BY <1>3, <2>3, <2>5 DEF Absorbed
  <2>8. blockIn[t] \in FunctionStates /\ Last(seen[b]) = seen[b][i] /\ Last(seen[b]) \in FunctionStates
    BY <2>5, <2>6, <2>7, VisitedLast DEF Visited, TypeInv, TypeOK
  <2>9. \A l \in Locals : Known(seen[t][1], l) => Known(seen[b][i], l)
    BY <2>5, <2>7, <2>8, MergeKnown DEF Absorbed
  <2>10. \A leaf \in Leaves : leaf.local \in Locals
    BY DEF Leaves, LeavesOf
  <2>11. \A leaf \in Leaves : Known(seen[t][1], leaf.local) => env[leaf] = "init"
    BY <2>1, <2>3, <2>9, <2>10 DEF RunInv
  <2> QED
    BY <2>2, <2>3, <2>4, <2>7, <2>11 DEF RunInv, flowVars, Code
<1>14. CASE ExecReturn
  BY <1>14 DEF ExecReturn, Running, RunInv, Code
<1> QED
  BY <1>1, <1>2, <1>4, <1>5, <1>7, <1>9, <1>10, <1>11, <1>12, <1>13, <1>14 DEF Next, Execution

LEMMA ReadsAreKnown ==
  ASSUME SoundInv, Instr.place.local \in WholeNamed
  PROVE  NoUseAfterMove
<1> SUFFICES ASSUME Reads, NEW leaf \in LeavesOf(Instr.place) PROVE env[leaf] = "init"
  BY DEF NoUseAfterMove
<1> USE DEF SoundInv
<1>1. PICK b \in Blocks, i \in Nat : b = pc[1] /\ i = pc[2]
  BY DEF TypeInv
<1>2. /\ i \in 1 .. Len(Code(b)) /\ Instr = Code(b)[i] /\ Instr.place \in OwnedPlaces
      /\ phase = "run" /\ Instr.op \in {"copy", "move"}
  BY <1>1, ExecPoint DEF Reads, InBlock, Running
<1>3. blockIn[b] # None /\ errors = {}
  BY <1>1, <1>2 DEF RunInv
<1>4. Stable(b)
  BY <1>2, <1>3, FunctionFacts, EmptySeq DEF FixInv, Queued
<1>5. i < Len(seen[b])
  BY <1>2, <1>4, BlockType DEF Stable, Visited, TypeInv
<1>6. Known(seen[b][i], Instr.place.local)
  BY <1>2, <1>3, <1>5 DEF PassInv
<1>7. leaf \in Leaves
  BY <1>2, LeavesType
<1>8. leaf.local = Instr.place.local
  BY DEF LeavesOf
<1> QED
  BY <1>1, <1>2, <1>6, <1>7, <1>8 DEF RunInv

LEMMA SoundStep ==
  ASSUME SoundInv, [Next]_vars
  PROVE  SoundInv'
<1>1. PassInv'
  <2>1. CASE Analysis
    BY <2>1, PassStep DEF SoundInv
  <2>2. CASE ~Analysis
    <3>1. UNCHANGED <<fn, blockIn, seen, errors>>
      BY <2>2 DEF Next, Execution, Start, ExecDrop, ExecCopy, ExecMove, ExecWrite, ExecLive, ExecDead,
                  ExecBranch, ExecReturn, Step, vars, flowVars
    <3> QED
      BY <3>1 DEF SoundInv, PassInv, Code
  <2> QED
    BY <2>1, <2>2
<1> QED
  BY <1>1, TypeStep, FixStep, EntryStep, RunStep DEF SoundInv

\* Of a named local that is moved and written only as a whole, though its fields
\* may be read, an accepted function never reads an uninitialized or moved value,
\* on any path through any control flow, whatever it does with its other locals
\* and its temporaries, whose misuse nobody reports.
THEOREM WholeLocalsNotUsedAfterMove == Spec => [](Instr.place.local \in WholeNamed => NoUseAfterMove)
<1>1. Init => SoundInv
  BY TypeInit, FixInit, SoundInit DEF SoundInv
<1>2. SoundInv /\ [Next]_vars => SoundInv'
  BY SoundStep
<1>3. SoundInv => (Instr.place.local \in WholeNamed => NoUseAfterMove)
  BY ReadsAreKnown
<1> QED
  BY <1>1, <1>2, <1>3, PTL DEF Spec

LEMMA ReadsOfLocals ==
  ASSUME TypeInv, Reads
  PROVE  Instr.place.local \in Locals
BY ExecPoint DEF Reads, OwnedPlaces, Places

\* So no read of a named local is such when all of them are.
THEOREM NoUseAfterMoveCorrect ==
  ASSUME MovesWholeNamed
  PROVE  Spec => [](OfNamed => NoUseAfterMove)
<1>1. Init => SoundInv
  BY TypeInit, FixInit, SoundInit DEF SoundInv
<1>2. SoundInv /\ [Next]_vars => SoundInv'
  BY SoundStep
<1>3. SoundInv => (OfNamed => NoUseAfterMove)
  BY ReadsAreKnown, ReadsOfLocals DEF MovesWholeNamed, WholeNamed, OfNamed, NoUseAfterMove, SoundInv
<1> QED
  BY <1>1, <1>2, <1>3, PTL DEF Spec

-----------------------------------------------------------------------------
(* The least and the greatest of a set of numbers *)

LEMMA LeastOf ==
  ASSUME NEW T, T \subseteq Nat, T # {}
  PROVE  \E x \in T : \A y \in T : x <= y
<1>1. PICK x \in T : \A y \in T : ~(<<y, x>> \in OpToRel(<, Nat))
  BY WFMin, NatLessThanWellFounded, Zenon
<1>2. \A y \in T : ~(y < x)
  BY <1>1 DEF OpToRel
<1> QED
  BY <1>2

LEMMA GreatestOf ==
  ASSUME NEW n \in Nat, NEW T, T \subseteq 1 .. n, T # {}
  PROVE  \E x \in T : \A y \in T : y <= x
<1> DEFINE D == {m \in Nat : n - m \in T}
<1>1. PICK t \in T : TRUE
  OBVIOUS
<1>2. n - t \in Nat /\ n - (n - t) = t
  BY <1>1
<1>3. D \subseteq Nat /\ D # {}
  BY <1>2
<1>4. PICK d \in D : \A e \in D : d <= e
  BY <1>3, LeastOf
<1>5. n - d \in T
  BY <1>4
<1>6. ASSUME NEW y \in T PROVE y <= n - d
  <2>1. n - y \in Nat /\ n - (n - y) = y
    OBVIOUS
  <2>2. d <= n - y /\ d \in Nat
    BY <1>4, <2>1
  <2> QED
    BY <2>2
<1> QED
  BY <1>5, <1>6

-----------------------------------------------------------------------------
(* Where drops are placed *)

Touches(e, l, ops) == e.op \in ops /\ e.place.local = l

LEMMA BlockOrder ==
  ASSUME fn \in Functions, NEW b \in Blocks
  PROVE  /\ fn.blocks[b].term \in 1 .. Len(Code(b)) + 1
         /\ \A i, j \in 1 .. Len(Code(b)) : i < j => Code(b)[i].stmt <= Code(b)[j].stmt
         /\ \A j \in 1 .. Len(Code(b)) : Code(b)[j].op = "dead" =>
              j < fn.blocks[b].term /\ \A i \in 1 .. j - 1 : Code(b)[i].stmt < Code(b)[j].stmt
         /\ fn.blocks[b].kind = "return" =>
              \A j \in fn.blocks[b].term .. Len(Code(b)) : Code(b)[j].op \in {"copy", "move"}
BY FunctionFacts DEF InStatementOrder, Code

\* From where its drop goes to the statement that ends its scope, a local is
\* neither read nor written.
LEMMA HoistFacts ==
  ASSUME fn \in Functions, NEW b \in Blocks, NEW k \in DeadPoints(b)
  PROVE  /\ k \in 1 .. Len(Code(b)) /\ HoistPoint(b, k) \in 1 .. k
         /\ \A j \in HoistPoint(b, k) .. k - 1 :
              ~Touches(Code(b)[j], Code(b)[k].place.local, {"copy", "move", "write"})
<1> DEFINE code == Code(b)
           l == code[k].place.local
           reads == EntriesOn(code, 1 .. k - 1, l, {"copy", "move"})
           last == LastRead(reads)
           after == {j \in 1 .. k : code[j].stmt > code[last].stmt}
<1>1. k \in 1 .. Len(code) /\ Len(code) \in Nat /\ code[k].op = "dead"
  BY BlockType DEF DeadPoints
<1>2. /\ \A j \in 1 .. Len(code) : code[j].stmt \in Nat
      /\ \A i, j \in 1 .. Len(code) : i < j => code[i].stmt <= code[j].stmt
      /\ \A i \in 1 .. k - 1 : code[i].stmt < code[k].stmt
  BY <1>1, BlockOrder, EntryType DEF Entries
<1>3. HoistPoint(b, k) = IF reads = {} \/ Rewritten(code, after, l) THEN k
                         ELSE CHOOSE j \in after : \A i \in after : j <= i
  BY DEF HoistPoint
<1>4. CASE reads = {} \/ Rewritten(code, after, l)
  <2>1. HoistPoint(b, k) = k
    BY <1>3, <1>4
  <2> QED
    BY <1>1, <2>1
<1>5. CASE ~(reads = {} \/ Rewritten(code, after, l))
  <2>1. reads \subseteq 1 .. k - 1 /\ reads # {} /\ k - 1 \in Nat
    BY <1>1, <1>5 DEF EntriesOn
  <2>2. last \in reads /\ \A i \in reads : i <= last
    <3> HIDE DEF reads
    <3>1. \E x \in reads : \A y \in reads : y <= x
      BY <2>1, GreatestOf
    <3> QED
      BY <3>1 DEF LastRead
  <2>3. k \in after /\ after \subseteq Nat
    BY <1>1, <1>2, <2>1, <2>2
  <2> DEFINE h == CHOOSE j \in after : \A i \in after : j <= i
  <2>4. h \in after /\ \A i \in after : h <= i
    <3> HIDE DEF after
    <3>1. \E x \in after : \A y \in after : x <= y
      BY <2>3, LeastOf
    <3> QED
      BY <3>1
  <2>5. HoistPoint(b, k) = h
    BY <1>3, <1>5
  <2> HIDE DEF h
  <2>6. h \in 1 .. k
    BY <2>4
  <2>7. ASSUME NEW j \in h .. k - 1 PROVE j \in after /\ j > last
    <3>1. j \in 1 .. k /\ code[h].stmt <= code[j].stmt /\ last \in 1 .. k - 1
      BY <1>1, <1>2, <2>1, <2>2, <2>6, <2>7
    <3>2. code[last].stmt < code[h].stmt
      BY <2>4
    <3>3. /\ code[last].stmt \in Nat /\ code[h].stmt \in Nat /\ code[j].stmt \in Nat
          /\ j <= last => code[j].stmt <= code[last].stmt
      BY <1>1, <1>2, <2>6, <3>1
    <3> QED
      BY <3>1, <3>2, <3>3
  <2>8. ASSUME NEW j \in h .. k - 1 PROVE ~Touches(code[j], l, {"copy", "move", "write"})
    <3>1. j \in 1 .. k - 1 /\ j \in after /\ j > last
      BY <2>6, <2>7, <2>8
    <3>2. j \notin reads
      BY <2>1, <2>2, <3>1
    <3>3. j \notin EntriesOn(code, after, l, {"write"})
      BY <1>5 DEF Rewritten
    <3> HIDE DEF after
    <3> QED
      BY <3>1, <3>2, <3>3 DEF EntriesOn, Touches
  <2> QED
    BY <1>1, <2>5, <2>6, <2>8
<1> QED
  BY <1>4, <1>5

-----------------------------------------------------------------------------
(* What a block does between the place of a drop and the end of the scope *)

\* What is known at a point and written nowhere before it was known, and left
\* alone, all the way.
LEMMA KeptKnown ==
  ASSUME TypeInv, PassInv, NEW b \in Blocks, Visited(b), NEW l \in Locals,
         NEW j \in 1 .. Len(Code(b)) + 1, NEW i \in 1 .. j, Known(seen[b][j], l),
         \A m \in i .. j - 1 : ~Touches(Code(b)[m], l, {"write"})
  PROVE  /\ \A m \in i .. j : Known(seen[b][m], l)
         /\ \A m \in i .. j - 1 : ~Touches(Code(b)[m], l, {"move", "live", "dead"})
<1>1. Len(Code(b)) \in Nat /\ Len(seen[b]) = Len(Code(b)) + 1
  BY BlockType DEF TypeInv, Visited
<1>2. ASSUME NEW m \in i .. j - 1, Known(seen[b][m + 1], l)
      PROVE  Known(seen[b][m], l) /\ ~Touches(Code(b)[m], l, {"move", "live", "dead"})
  <2>1. m \in 1 .. Len(Code(b)) /\ m < Len(seen[b])
    BY <1>1
  <2>2. Carries(seen[b][m], Code(b)[m], seen[b][m + 1])
    BY <2>1 DEF PassInv
  <2> QED
    BY <1>2, <2>2 DEF Carries, Touches
<1> DEFINE Unknown == {n \in 0 .. j - i : ~Known(seen[b][j - n], l)}
<1>3. Unknown = {}
  <2> SUFFICES ASSUME Unknown # {} PROVE FALSE
    OBVIOUS
  <2>1. Unknown \subseteq Nat
    OBVIOUS
  <2> HIDE DEF Unknown
  <2>2. PICK n \in Unknown : \A k \in Unknown : n <= k
    BY <2>1, LeastOf
  <2> USE DEF Unknown
  <2>3. n \in 0 .. j - i /\ ~Known(seen[b][j - n], l) /\ i \in Nat /\ j \in Nat /\ n \in Nat
    OBVIOUS
  <2>4. n # 0
    <3>1. n = 0 => j - n = j
      BY <2>3
    <3> QED
      BY <2>3, <3>1
  <2>5. n - 1 \in 0 .. j - i /\ j - (n - 1) = (j - n) + 1 /\ j - n \in i .. j - 1
    BY <2>3, <2>4
  <2>6. n - 1 \notin Unknown
    BY <2>2, <2>3
  <2>7. Known(seen[b][(j - n) + 1], l)
    BY <2>5, <2>6
  <2>8. Known(seen[b][j - n], l)
    BY <1>2, <2>5, <2>7
  <2> QED
    BY <2>3, <2>8
<1>4. ASSUME NEW m \in i .. j PROVE Known(seen[b][m], l)
  <2>1. j - m \in 0 .. j - i /\ j - (j - m) = m
    OBVIOUS
  <2>2. j - m \notin Unknown
    BY <1>3
  <2> QED
    BY <2>1, <2>2
<1>5. ASSUME NEW m \in i .. j - 1 PROVE ~Touches(Code(b)[m], l, {"move", "live", "dead"})
  <2>1. m + 1 \in i .. j
    OBVIOUS
  <2> QED
    BY <1>2, <1>4, <2>1
<1> QED
  BY <1>4, <1>5

\* The scope of l ends at entry k of b while l holds a value: it is dropped there.
EndsScope(b, k, l) == k \in DeadPoints(b) /\ Code(b)[k].place.local = l /\ Known(seen[b][k], l)

\* Nothing is done with l from where that drop goes to the end of the scope.
LEMMA Quiet ==
  ASSUME TypeInv, PassInv, NEW b \in Blocks, Visited(b), NEW l \in Locals, NEW k, EndsScope(b, k, l)
  PROVE  /\ k \in 1 .. Len(Code(b)) /\ k < fn.blocks[b].term /\ HoistPoint(b, k) \in 1 .. k
         /\ \A m \in HoistPoint(b, k) .. k : Known(seen[b][m], l)
         /\ \A m \in HoistPoint(b, k) .. k - 1 : Code(b)[m].place.local # l
<1>1. fn \in Functions /\ k \in DeadPoints(b) /\ Code(b)[k].place.local = l /\ Len(Code(b)) \in Nat
  BY BlockType DEF TypeInv, EndsScope
<1>2. /\ k \in 1 .. Len(Code(b)) /\ HoistPoint(b, k) \in 1 .. k /\ k \in 1 .. Len(Code(b)) + 1
      /\ \A j \in HoistPoint(b, k) .. k - 1 : ~Touches(Code(b)[j], l, {"copy", "move", "write"})
  BY <1>1, HoistFacts
<1>3. k < fn.blocks[b].term
  BY <1>1, <1>2, BlockOrder DEF DeadPoints
<1>4. PICK h \in 1 .. k : h = HoistPoint(b, k)
  BY <1>2
<1>5. /\ \A m \in h .. k : Known(seen[b][m], l)
      /\ \A m \in h .. k - 1 : ~Touches(Code(b)[m], l, {"move", "live", "dead"})
  <2>1. Known(seen[b][k], l) /\ \A m \in h .. k - 1 : ~Touches(Code(b)[m], l, {"write"})
    BY <1>2, <1>4 DEF EndsScope, Touches
  <2> QED
    BY <1>2, <1>4, <2>1, KeptKnown
<1>6. ASSUME NEW m \in h .. k - 1 PROVE Code(b)[m].place.local # l
  <2>1. m \in 1 .. Len(Code(b))
    BY <1>1, <1>2
  <2>2. Code(b)[m].op \in OpKinds
    BY <1>1, <2>1, EntryType DEF Entries
  <2> QED
    BY <1>2, <1>4, <1>5, <2>2 DEF Touches, OpKinds
<1> QED
  BY <1>2, <1>3, <1>4, <1>5, <1>6

\* So no two of a local's drops are under way at one point.
LEMMA OneScopeDrop ==
  ASSUME TypeInv, PassInv, NEW b \in Blocks, Visited(b), NEW l \in Locals,
         NEW k, EndsScope(b, k, l), NEW j, EndsScope(b, j, l),
         NEW i \in Nat, HoistPoint(b, k) <= i, i <= k, HoistPoint(b, j) <= i, i <= j
  PROVE  j = k
<1>1. /\ k \in Nat /\ HoistPoint(b, k) \in Nat /\ j \in Nat /\ HoistPoint(b, j) \in Nat
      /\ j \notin HoistPoint(b, k) .. k - 1 /\ k \notin HoistPoint(b, j) .. j - 1
  BY Quiet DEF EndsScope
<1> QED
  BY <1>1

\* b returns while l holds a value: it is dropped before the terminator.
ReturnsWith(b, l) == fn.blocks[b].kind = "return" /\ Known(Last(seen[b]), l)

LEMMA ReturnQuiet ==
  ASSUME TypeInv, PassInv, NEW b \in Blocks, Visited(b), NEW l \in Locals, ReturnsWith(b, l)
  PROVE  /\ fn.blocks[b].term \in 1 .. Len(Code(b)) + 1
         /\ \A m \in fn.blocks[b].term .. Len(Code(b)) + 1 : Known(seen[b][m], l)
         /\ \A m \in fn.blocks[b].term .. Len(Code(b)) :
              Code(b)[m].op \in {"copy", "move"} /\ ~Touches(Code(b)[m], l, {"move"})
<1>1. /\ fn \in Functions /\ fn.blocks[b].kind = "return" /\ Len(Code(b)) \in Nat
      /\ Len(seen[b]) = Len(Code(b)) + 1
  BY BlockType DEF TypeInv, ReturnsWith, Visited
<1>2. PICK i \in 1 .. Len(Code(b)) + 1 : i = fn.blocks[b].term
  BY <1>1, BlockOrder
<1>3. PICK j \in 1 .. Len(Code(b)) + 1 : j = Len(Code(b)) + 1
  BY <1>1
<1>4. i \in 1 .. j /\ \A m \in i .. j - 1 : Code(b)[m].op \in {"copy", "move"}
  BY <1>1, <1>2, <1>3, BlockOrder
<1>5. Known(seen[b][j], l)
  BY <1>1, <1>3, VisitedLast DEF ReturnsWith
<1>6. \A m \in i .. j - 1 : ~Touches(Code(b)[m], l, {"write"})
  BY <1>4 DEF Touches
<1>7. /\ \A m \in i .. j : Known(seen[b][m], l)
      /\ \A m \in i .. j - 1 : ~Touches(Code(b)[m], l, {"move", "live", "dead"})
  BY <1>4, <1>5, <1>6, KeptKnown
<1> QED
  BY <1>1, <1>2, <1>3, <1>4, <1>7 DEF Touches

-----------------------------------------------------------------------------
(* What the drops at one place release *)

\* A whole state is dropped whole, when the local is known.
LEMMA WholeDrops ==
  ASSUME NEW st \in FunctionStates, AllWhole(st), NEW l \in WholeLocals
  PROVE  LocalDrops(l, st[l]) = IF Known(st, l) THEN LiveDrops(l) ELSE {}
<1>1. st[l] \in LocalStates /\ st[l].tag = "Whole" /\ st[l] = AsWhole(st[l].value)
  BY WholeElim, WholeLocalsType DEF AllWhole, FunctionStates
<1>2. Known(st, l) <=> st[l].value = "Initialized"
  BY <1>1 DEF Known, AsWhole
<1> QED
  BY <1>1, <1>2 DEF LocalDrops

LEMMA PassPoint ==
  ASSUME TypeInv, PassInv, NEW b \in Blocks, Visited(b), NEW i \in 1 .. Len(Code(b)) + 1
  PROVE  seen[b][i] \in FunctionStates /\ AllWhole(seen[b][i])
<1>1. i \in 1 .. Len(seen[b]) /\ seen[b] \in Seq(FunctionStates)
  BY DEF Visited, TypeInv, TypeOK
<1> QED
  BY <1>1, ElementOfSeq DEF PassInv

\* The drops a block places before entry i, told apart by what they answer.
ScopeDrop(b, i, d) ==
  /\ EndsScope(b, d[1], d[2].local) /\ HoistPoint(b, d[1]) = i
  /\ d[2].local \in Locals /\ d[2] \in LiveDrops(d[2].local)
ExitDrop(b, i, d) ==
  /\ d[1] = 0 /\ ReturnsWith(b, d[2].local) /\ i = fn.blocks[b].term
  /\ d[2].local \in Locals /\ d[2] \in LiveDrops(d[2].local)
  /\ d[2] # [local |-> fn.dropSelf, field |-> Whole]

LEMMA ScopeDropsKnown ==
  ASSUME TypeInv, PassInv, NEW b \in Blocks, Visited(b), NEW i
  PROVE  /\ \A d \in ScopeDropsAt(b, i) : d[2].local \in WholeLocals => ScopeDrop(b, i, d)
         /\ \A k, l, p : EndsScope(b, k, l) /\ HoistPoint(b, k) = i /\ p \in LiveDrops(l)
              => <<k, p>> \in ScopeDropsAt(b, i)
<1>1. ASSUME NEW k \in DeadPoints(b)
      PROVE  LET l == Code(b)[k].place.local IN
             /\ l \in Locals
             /\ l \in WholeLocals
                  => LocalDrops(l, seen[b][k][l]) = IF Known(seen[b][k], l) THEN LiveDrops(l) ELSE {}
  <2>1. k \in 1 .. Len(Code(b)) /\ k \in 1 .. Len(Code(b)) + 1 /\ fn \in Functions
    BY BlockType DEF DeadPoints, TypeInv
  <2>2. Code(b)[k].place.local \in Locals
    BY <2>1, EntryType
  <2> QED
    BY <2>1, <2>2, PassPoint, WholeDrops
<1>2. \A l, v, p : p \in LocalDrops(l, v) => p.local = l
  BY DEF LiveDrops, PartialDrops, LocalDrops
<1>3. ASSUME NEW d \in ScopeDropsAt(b, i), d[2].local \in WholeLocals PROVE ScopeDrop(b, i, d)
  <2>1. PICK k \in DeadPoints(b) :
          /\ HoistPoint(b, k) = i
          /\ d \in {k} \X LocalDrops(Code(b)[k].place.local, seen[b][k][Code(b)[k].place.local])
    BY <1>3 DEF ScopeDropsAt
  <2>2. d[1] = k /\ d[2] \in LocalDrops(Code(b)[k].place.local, seen[b][k][Code(b)[k].place.local])
    BY <2>1
  <2>3. d[2].local = Code(b)[k].place.local
    BY <1>2, <2>2
  <2>4. d[2] \in LiveDrops(Code(b)[k].place.local) /\ Known(seen[b][k], Code(b)[k].place.local)
    BY <1>1, <1>3, <2>2, <2>3
  <2> QED
    BY <1>1, <2>1, <2>2, <2>3, <2>4 DEF ScopeDrop, EndsScope
<1>4. ASSUME NEW k, NEW l, NEW p, EndsScope(b, k, l), HoistPoint(b, k) = i, p \in LiveDrops(l)
      PROVE  <<k, p>> \in ScopeDropsAt(b, i)
  <2>1. k \in DeadPoints(b) /\ Code(b)[k].place.local = l /\ p \in LocalDrops(l, seen[b][k][l])
    BY <1>1, <1>4 DEF EndsScope, Known
  <2>2. <<k, p>> \in {k} \X LocalDrops(Code(b)[k].place.local, seen[b][k][Code(b)[k].place.local])
    BY <2>1
  <2> QED
    BY <1>4, <2>1, <2>2 DEF ScopeDropsAt
<1> QED
  BY <1>3, <1>4

LEMMA ExitDropsKnown ==
  ASSUME TypeInv, PassInv, NEW b \in Blocks, Visited(b), NEW i
  PROVE  /\ \A d \in ExitDropsAt(b, i) : d[2].local \in WholeLocals => ExitDrop(b, i, d)
         /\ \A l \in Locals : \A p \in LiveDrops(l) :
              /\ ReturnsWith(b, l) /\ i = fn.blocks[b].term /\ p # [local |-> fn.dropSelf, field |-> Whole]
              => <<0, p>> \in ExitDropsAt(b, i)
<1>1. Last(seen[b]) \in FunctionStates /\ AllWhole(Last(seen[b]))
  <2>1. Len(Code(b)) + 1 \in 1 .. Len(Code(b)) + 1 /\ Len(seen[b]) = Len(Code(b)) + 1
    BY BlockType DEF TypeInv, Visited
  <2> QED
    BY <2>1, PassPoint, VisitedLast
<1>2. \A l \in WholeLocals :
        LocalDrops(l, Last(seen[b])[l]) = IF Known(Last(seen[b]), l) THEN LiveDrops(l) ELSE {}
  BY <1>1, WholeDrops
<1>3. \A l \in Locals : \A p \in LiveDrops(l) : p.local = l /\ p \in Places
  BY FieldsAssumption DEF LiveDrops, Places
<1>4. ASSUME NEW d \in ExitDropsAt(b, i), d[2].local \in WholeLocals PROVE ExitDrop(b, i, d)
  <2>1. /\ fn.blocks[b].kind = "return" /\ i = fn.blocks[b].term
        /\ d \in {<<0, p>> : p \in {q \in Places : /\ q \in LocalDrops(q.local, Last(seen[b])[q.local])
                                                   /\ q # [local |-> fn.dropSelf, field |-> Whole]}}
    BY <1>4 DEF ExitDropsAt
  <2>2. PICK q \in Places : /\ d = <<0, q>> /\ q \in LocalDrops(q.local, Last(seen[b])[q.local])
                            /\ q # [local |-> fn.dropSelf, field |-> Whole]
    BY <2>1
  <2>3. q.local \in Locals
    BY DEF Places
  <2>4. q.local \in WholeLocals /\ d[1] = 0 /\ d[2] = q
    BY <1>4, <2>2
  <2> QED
    BY <1>2, <2>1, <2>2, <2>3, <2>4 DEF ExitDrop, ReturnsWith
<1>5. ASSUME NEW l \in Locals, NEW p \in LiveDrops(l), ReturnsWith(b, l), i = fn.blocks[b].term,
             p # [local |-> fn.dropSelf, field |-> Whole]
      PROVE  <<0, p>> \in ExitDropsAt(b, i)
  <2>1. p.local = l /\ p \in Places /\ p \in LocalDrops(p.local, Last(seen[b])[p.local])
    BY <1>2, <1>3, <1>5 DEF ReturnsWith, Known
  <2> QED
    BY <1>5, <2>1 DEF ExitDropsAt, ReturnsWith
<1> QED
  BY <1>4, <1>5

LEMMA DropsKnown ==
  ASSUME TypeInv, PassInv, NEW b \in Blocks, Visited(b), NEW i \in 1 .. Len(Code(b)) + 1,
         NEW d \in DropsAt(b, i), d[2].local \in WholeLocals
  PROVE  /\ ScopeDrop(b, i, d) \/ ExitDrop(b, i, d)
         /\ Known(seen[b][i], d[2].local) /\ d[2].local \in Locals /\ d[2] \in LiveDrops(d[2].local)
<1>1. ScopeDrop(b, i, d) \/ ExitDrop(b, i, d)
  BY ScopeDropsKnown, ExitDropsKnown DEF DropsAt
<1>2. CASE ScopeDrop(b, i, d)
  <2>1. PICK l \in Locals : l = d[2].local /\ EndsScope(b, d[1], l) /\ HoistPoint(b, d[1]) = i
    BY <1>2 DEF ScopeDrop
  <2>2. Known(seen[b][i], l)
    BY <2>1, Quiet
  <2> QED
    BY <1>2, <2>1, <2>2 DEF ScopeDrop
<1>3. CASE ExitDrop(b, i, d)
  <2>1. PICK l \in Locals : l = d[2].local /\ ReturnsWith(b, l) /\ i = fn.blocks[b].term
    BY <1>3 DEF ExitDrop
  <2>2. Known(seen[b][i], l)
    BY <2>1, ReturnQuiet
  <2> QED
    BY <1>3, <2>1, <2>2 DEF ExitDrop
<1> QED
  BY <1>1, <1>2, <1>3

\* No two drops at one place release the same leaf.
LEMMA DropsDisjoint ==
  ASSUME TypeInv, PassInv, NEW b \in Blocks, Visited(b), NEW i \in 1 .. Len(Code(b)) + 1,
         NEW d \in DropsAt(b, i), NEW e \in DropsAt(b, i), d[2].local \in WholeLocals,
         NEW leaf \in LeavesOf(d[2]) \cap LeavesOf(e[2])
  PROVE  d = e
<1>1. leaf.local = d[2].local /\ leaf.local = e[2].local
  BY DEF LeavesOf
<1>2. /\ ScopeDrop(b, i, d) \/ ExitDrop(b, i, d)
      /\ ScopeDrop(b, i, e) \/ ExitDrop(b, i, e)
      /\ leaf.local \in Locals /\ d[2] \in LiveDrops(leaf.local) /\ e[2] \in LiveDrops(leaf.local)
      /\ d \in Nat \X OwnedPlaces /\ e \in Nat \X OwnedPlaces
  BY <1>1, DropsKnown, DropsAtType DEF TypeInv
<1>3. d[2] = e[2]
  BY <1>1, <1>2, FieldsAssumption DEF LiveDrops, LeavesOf
<1>4. d[1] = e[1]
  <2>1. PICK l \in Locals : l = leaf.local
    BY <1>2
  <2>2. CASE ScopeDrop(b, i, d) /\ ScopeDrop(b, i, e)
    <3>1. EndsScope(b, d[1], l) /\ EndsScope(b, e[1], l) /\ HoistPoint(b, d[1]) = i /\ HoistPoint(b, e[1]) = i
      BY <1>1, <2>1, <2>2 DEF ScopeDrop
    <3>2. i <= d[1] /\ i <= e[1] /\ i \in Nat
      BY <3>1, Quiet
    <3> QED
      BY <3>1, <3>2, OneScopeDrop
  <2>3. ASSUME NEW x \in {d, e}, NEW y \in {d, e}, ScopeDrop(b, i, x), ExitDrop(b, i, y) PROVE FALSE
    <3>1. EndsScope(b, x[1], l) /\ HoistPoint(b, x[1]) = i /\ i = fn.blocks[b].term
      BY <1>1, <2>1, <2>3 DEF ScopeDrop, ExitDrop
    <3>2. x[1] \in Nat /\ i <= x[1] /\ x[1] < i
      BY <3>1, Quiet
    <3> QED
      BY <3>2
  <2> QED
    BY <1>2, <2>2, <2>3 DEF ExitDrop
<1> QED
  BY <1>2, <1>3, <1>4

-----------------------------------------------------------------------------
(* The invariant of the drops *)

\* The drop of l at the end of a scope, or at the return, is behind entry i.
ScopePassed(b, i, k, l) == EndsScope(b, k, l) /\ HoistPoint(b, k) < i /\ i <= k
ExitPassed(b, i, l) == ReturnsWith(b, l) /\ fn.blocks[b].term < i

\* Of what is known, only what one of the drops behind has released is dropped.
DroppedOnce(b, i) ==
  \A leaf \in dropped : Known(seen[b][i], leaf.local) =>
    \/ \E k \in DeadPoints(b) : ScopePassed(b, i, k, leaf.local)
    \/ ExitPassed(b, i, leaf.local)
    \/ \E d \in DropsAt(b, i) \ due : leaf \in LeavesOf(d[2])

\* And each drop that is behind has released its leaves.
DroppedAll(b, i) ==
  /\ \A l \in Locals, k \in DeadPoints(b) : ScopePassed(b, i, k, l) =>
       \A p \in LiveDrops(l) : LeavesOf(p) \subseteq dropped
  /\ \A l \in Locals : ExitPassed(b, i, l) =>
       \A p \in LiveDrops(l) \ {[local |-> fn.dropSelf, field |-> Whole]} : LeavesOf(p) \subseteq dropped
  /\ \A d \in DropsAt(b, i) \ due : LeavesOf(d[2]) \subseteq dropped

DropInv ==
  /\ phase \in {"scan", "done"} => dropped = {}
  /\ phase = "run" => due \subseteq DropsAt(pc[1], pc[2]) /\ DroppedOnce(pc[1], pc[2]) /\ DroppedAll(pc[1], pc[2])

\* Where the run is, the finished pass is in place.
LEMMA RunPoint ==
  ASSUME SoundInv, phase = "run"
  PROVE  /\ pc[1] \in Blocks /\ pc[2] \in 1 .. Len(Code(pc[1])) + 1 /\ Visited(pc[1]) /\ Len(Code(pc[1])) \in Nat
         /\ blockIn[pc[1]] # None /\ errors = {} /\ fn \in Functions
<1>1. pc[1] \in Blocks /\ pc[2] \in Nat \ {0} /\ blockIn[pc[1]] # None /\ errors = {} /\ pc[2] <= Len(Code(pc[1])) + 1
  BY DEF SoundInv, TypeInv, RunInv
<1>2. Stable(pc[1])
  BY <1>1, FunctionFacts, EmptySeq DEF SoundInv, FixInv, Queued
<1> QED
  BY <1>1, <1>2, BlockType DEF Stable, SoundInv, TypeInv

\* While the function runs, what the analysis found does not change.
LEMMA FrameRun ==
  ASSUME UNCHANGED <<fn, blockIn, seen>>, NEW b, NEW i
  PROVE  /\ DropsAt(b, i)' = DropsAt(b, i)
         /\ \A k, l : EndsScope(b, k, l)' = EndsScope(b, k, l) /\ ScopePassed(b, i, k, l)' = ScopePassed(b, i, k, l)
         /\ \A l : ReturnsWith(b, l)' = ReturnsWith(b, l) /\ ExitPassed(b, i, l)' = ExitPassed(b, i, l)
         /\ Code(b)' = Code(b) /\ DeadPoints(b)' = DeadPoints(b)
<1>1. Code(b)' = Code(b) /\ DeadPoints(b)' = DeadPoints(b)
  BY DEF Code, DeadPoints
<1>2. \A k : HoistPoint(b, k)' = HoistPoint(b, k)
  BY <1>1 DEF HoistPoint
<1>3. \A k, l : EndsScope(b, k, l)' = EndsScope(b, k, l) /\ ScopePassed(b, i, k, l)' = ScopePassed(b, i, k, l)
  BY <1>1, <1>2 DEF EndsScope, ScopePassed
<1>4. \A l : ReturnsWith(b, l)' = ReturnsWith(b, l) /\ ExitPassed(b, i, l)' = ExitPassed(b, i, l)
  BY DEF ReturnsWith, ExitPassed
<1>5. ScopeDropsAt(b, i)' = ScopeDropsAt(b, i)
  BY <1>1, <1>2 DEF ScopeDropsAt
<1>6. ExitDropsAt(b, i)' = ExitDropsAt(b, i) /\ Visited(b)' = Visited(b)
  BY <1>1 DEF ExitDropsAt, Visited
<1> QED
  BY <1>1, <1>3, <1>4, <1>5, <1>6 DEF DropsAt

\* An entry is executed, after the drops placed before it.
LEMMA DropAdvance ==
  ASSUME SoundInv, DropInv, InBlock, Step, dropped' \subseteq dropped,
         \A leaf \in dropped : leaf \notin dropped' => Instr.op \in {"write", "live"} /\ leaf.local = Instr.place.local,
         Instr.op = "write" /\ Instr.place.local \in WholeLocals
           => \A leaf \in dropped' : leaf.local # Instr.place.local
  PROVE  DropInv'
<1>1. phase = "run" /\ due = {} /\ TypeInv /\ PassInv /\ UNCHANGED flowVars
  BY DEF InBlock, Running, SoundInv, Step
<1>2. PICK b \in Blocks, i \in 1 .. Len(Code(pc[1])) + 1 : b = pc[1] /\ i = pc[2]
  BY <1>1, RunPoint
<1>3. /\ i \in 1 .. Len(Code(b)) /\ Visited(b) /\ Len(Code(b)) \in Nat /\ Len(seen[b]) = Len(Code(b)) + 1
      /\ i + 1 \in 1 .. Len(Code(b)) + 1
  BY <1>1, <1>2, RunPoint DEF InBlock, Visited
<1> DEFINE e == Code(b)[i]
<1>4. Instr = e
  BY <1>2 DEF Instr
<1>5. pc' = <<b, i + 1>> /\ due' = DropsAt(b, i + 1)
  BY <1>2 DEF Step, Goto
<1>6. DroppedOnce(b, i) /\ DroppedAll(b, i)
  BY <1>1, <1>2 DEF DropInv
<1>7. Carries(seen[b][i], e, seen[b][i + 1])
  BY <1>1, <1>3, <1>4 DEF PassInv
<1>8. \A leaf \in Leaves : leaf.local \in Locals
  BY DEF Leaves, LeavesOf
<1>9. dropped \subseteq Leaves /\ fn \in Functions
  BY <1>1 DEF TypeInv, TypeOK
\* What is dropped and still known was dropped by a drop that is now behind.
<1>10. ASSUME NEW leaf \in dropped', Known(seen[b][i + 1], leaf.local)
       PROVE  \/ \E k \in DeadPoints(b) : ScopePassed(b, i + 1, k, leaf.local)
              \/ ExitPassed(b, i + 1, leaf.local)
  <2>1. PICK l \in Locals : l = leaf.local /\ leaf \in dropped
    BY <1>8, <1>9, <1>10
  <2>2. Known(seen[b][i], l) /\ ~(e.op = "dead" /\ e.place.local = l)
    BY <1>4, <1>7, <1>10, <2>1 DEF Carries, Known
  <2>3. ASSUME NEW k \in DeadPoints(b), EndsScope(b, k, l), i <= k PROVE i + 1 <= k
    <3>1. k \in 1 .. Len(Code(b)) /\ Code(b)[k].op = "dead" /\ Code(b)[k].place.local = l
      BY <1>3, <2>3 DEF DeadPoints, EndsScope
    <3> QED
      BY <1>3, <1>4, <2>2, <2>3, <3>1
  <2>4. CASE \E k \in DeadPoints(b) : ScopePassed(b, i, k, l)
    <3>1. PICK k \in DeadPoints(b) : EndsScope(b, k, l) /\ HoistPoint(b, k) < i /\ i <= k
      BY <2>4 DEF ScopePassed
    <3>2. HoistPoint(b, k) \in Nat
      BY <1>1, <1>3, <3>1, Quiet
    <3> QED
      BY <1>3, <2>1, <2>3, <3>1, <3>2 DEF ScopePassed
  <2>5. CASE ExitPassed(b, i, l)
    <3>1. fn.blocks[b].term \in Nat
      BY <1>3, <1>9, BlockOrder
    <3> QED
      BY <1>3, <2>1, <2>5, <3>1 DEF ExitPassed
  <2>6. CASE \E d \in DropsAt(b, i) : leaf \in LeavesOf(d[2])
    <3>1. PICK d \in DropsAt(b, i) : leaf \in LeavesOf(d[2])
      BY <2>6
    <3>2. l = d[2].local /\ l \in WholeLocals
      BY <2>1, <2>2, <3>1 DEF LeavesOf, Known
    <3>3. ScopeDrop(b, i, d) \/ ExitDrop(b, i, d)
      BY <1>1, <1>2, <1>3, <3>2, DropsKnown
    <3>4. CASE ScopeDrop(b, i, d)
      <4>1. PICK k \in DeadPoints(b) : EndsScope(b, k, l) /\ HoistPoint(b, k) = i
        BY <3>2, <3>4 DEF ScopeDrop, EndsScope
      <4>2. i <= k
        BY <1>1, <1>3, <4>1, Quiet
      <4> QED
        BY <1>3, <2>1, <2>3, <4>1, <4>2 DEF ScopePassed
    <3>5. CASE ExitDrop(b, i, d)
      BY <1>3, <2>1, <3>2, <3>5 DEF ExitDrop, ExitPassed
    <3> QED
      BY <3>3, <3>4, <3>5
  <2> QED
    BY <1>1, <1>6, <2>1, <2>2, <2>4, <2>5, <2>6 DEF DroppedOnce
\* The drops at the entry and those behind it have been executed, and the entry leaves their leaves alone.
<1>11. ASSUME NEW l \in Locals, NEW k \in DeadPoints(b), ScopePassed(b, i + 1, k, l), NEW p \in LiveDrops(l)
       PROVE  LeavesOf(p) \subseteq dropped'
  <2>1. /\ EndsScope(b, k, l) /\ HoistPoint(b, k) \in Nat /\ HoistPoint(b, k) < i + 1 /\ i + 1 <= k /\ k \in Nat
        /\ \A m \in HoistPoint(b, k) .. k - 1 : Code(b)[m].place.local # l
    BY <1>1, <1>3, <1>11, Quiet DEF ScopePassed
  <2>2. LeavesOf(p) \subseteq dropped
    <3>1. CASE HoistPoint(b, k) < i
      BY <1>3, <1>6, <1>11, <2>1, <3>1 DEF DroppedAll, ScopePassed
    <3>2. CASE HoistPoint(b, k) = i
      <4>1. <<k, p>> \in DropsAt(b, i)
        BY <1>1, <1>3, <1>11, <2>1, <3>2, ScopeDropsKnown DEF DropsAt
      <4> QED
        BY <1>1, <1>6, <4>1 DEF DroppedAll
    <3> QED
      BY <1>3, <2>1, <3>1, <3>2
  <2>3. e.place.local # l
    BY <1>3, <1>4, <2>1
  <2>4. \A leaf \in LeavesOf(p) : leaf.local = l
    BY <1>11 DEF LeavesOf, LiveDrops
  <2> QED
    BY <1>4, <2>2, <2>3, <2>4
<1>12. ASSUME NEW l \in Locals, ExitPassed(b, i + 1, l),
              NEW p \in LiveDrops(l) \ {[local |-> fn.dropSelf, field |-> Whole]}
       PROVE  LeavesOf(p) \subseteq dropped'
  <2>1. /\ ReturnsWith(b, l) /\ fn.blocks[b].term \in Nat /\ fn.blocks[b].term < i + 1
        /\ \A m \in fn.blocks[b].term .. Len(Code(b)) : Code(b)[m].op \in {"copy", "move"}
    BY <1>1, <1>3, <1>12, ReturnQuiet DEF ExitPassed
  <2>2. LeavesOf(p) \subseteq dropped
    <3>1. CASE fn.blocks[b].term < i
      BY <1>6, <1>12, <2>1, <3>1 DEF DroppedAll, ExitPassed
    <3>2. CASE fn.blocks[b].term = i
      <4>1. <<0, p>> \in DropsAt(b, i)
        BY <1>1, <1>3, <1>12, <2>1, <3>2, ExitDropsKnown DEF DropsAt
      <4> QED
        BY <1>1, <1>6, <4>1 DEF DroppedAll
    <3> QED
      BY <1>3, <2>1, <3>1, <3>2
  <2>3. e.op \in {"copy", "move"}
    BY <1>3, <1>4, <2>1
  <2> QED
    BY <1>4, <2>2, <2>3
<1>13. UNCHANGED <<fn, blockIn, seen>> /\ phase' = "run"
  BY <1>1 DEF flowVars
<1>14. PICK n \in Nat : n = i + 1
  BY <1>3
<1>15. DroppedOnce(b, n)'
  BY <1>10, <1>13, <1>14, FrameRun DEF DroppedOnce
<1>16. DroppedAll(b, n)'
  <2>1. (DropsAt(b, n) \ due)' = {}
    BY <1>5, <1>13, <1>14, FrameRun
  <2> QED
    BY <1>11, <1>12, <1>13, <1>14, <2>1, FrameRun DEF DroppedAll
<1>17. due' \subseteq DropsAt(b, n)'
  BY <1>5, <1>13, <1>14, FrameRun
<1> QED
  BY <1>5, <1>13, <1>14, <1>15, <1>16, <1>17 DEF DropInv

\* Another block is entered: nothing known there has been dropped.
LEMMA DropEnter ==
  ASSUME SoundInv, DropInv, ExecBranch
  PROVE  DropInv'
<1>1. phase = "run" /\ due = {} /\ TypeInv /\ PassInv /\ UNCHANGED <<flowVars, dropped>> /\ ~InBlock
  BY DEF ExecBranch, Running, SoundInv
<1>2. PICK b \in Blocks, i \in Nat : b = pc[1] /\ i = pc[2]
  BY <1>1, RunPoint
<1>3. /\ Visited(b) /\ Len(Code(b)) \in Nat /\ Len(seen[b]) = Len(Code(b)) + 1 /\ i = Len(Code(b)) + 1
      /\ i \in 1 .. Len(Code(b)) + 1 /\ fn.blocks[b].kind = "flow" /\ fn \in Functions /\ blockIn[b] # None
  <2>1. i \in 1 .. Len(Code(b)) + 1 /\ ~(i <= Len(Code(b))) /\ Len(Code(b)) \in Nat
    BY <1>1, <1>2, RunPoint DEF InBlock, ExecBranch
  <2> QED
    BY <1>1, <1>2, <2>1, RunPoint DEF ExecBranch, Visited
<1>4. PICK t \in ToSet(Succ(b)) : pc' = <<t, 1>> /\ due' = DropsAt(t, 1)
  BY <1>2 DEF ExecBranch, Goto
<1>5. t \in Blocks /\ Absorbed(b, t)
  <2>1. Stable(b)
    BY <1>1, <1>3, FunctionFacts, EmptySeq DEF SoundInv, FixInv, Queued
  <2>2. t \in Blocks
    BY <1>3, BlockType, LenProperties, ElementOfSeq DEF ToSet
  <2> QED
    BY <2>1, <2>2 DEF Stable
<1>6. /\ Visited(t) /\ seen[t][1] = blockIn[t] /\ 1 \in 1 .. Len(Code(t)) + 1
      /\ fn.blocks[t].term \in 1 .. Len(Code(t)) + 1 /\ Len(Code(t)) \in Nat
  <2>1. Stable(t)
    BY <1>1, <1>5, FunctionFacts, EmptySeq DEF SoundInv, FixInv, Queued, Absorbed
  <2> QED
    BY <1>3, <1>5, <2>1, BlockOrder, BlockType DEF Stable
<1>7. \A l \in Locals : Known(seen[t][1], l) => Known(seen[b][i], l)
  <2>1. blockIn[t] \in FunctionStates /\ Last(seen[b]) = seen[b][i] /\ Last(seen[b]) \in FunctionStates
    BY <1>1, <1>3, <1>5, VisitedLast DEF TypeInv, TypeOK, Absorbed
  <2> QED
    BY <1>5, <1>6, <2>1, MergeKnown DEF Absorbed
<1>8. ASSUME NEW leaf \in dropped, Known(seen[t][1], leaf.local) PROVE FALSE
  <2>1. leaf.local \in Locals
    <3>1. \A x \in Leaves : x.local \in Locals
      BY DEF Leaves, LeavesOf
    <3> QED
      BY <1>1, <3>1 DEF TypeInv, TypeOK
  <2>2. Known(seen[b][i], leaf.local)
    BY <1>7, <1>8, <2>1
  <2>3. ~ \E k \in DeadPoints(b) : ScopePassed(b, i, k, leaf.local)
    BY <1>3 DEF ScopePassed, DeadPoints
  <2>4. ~ExitPassed(b, i, leaf.local)
    BY <1>3 DEF ExitPassed, ReturnsWith
  <2>5. PICK d \in DropsAt(b, i) : leaf \in LeavesOf(d[2])
    BY <1>1, <1>2, <1>8, <2>2, <2>3, <2>4 DEF DropInv, DroppedOnce
  <2>6. ScopeDrop(b, i, d) \/ ExitDrop(b, i, d)
    <3>1. d[2].local \in WholeLocals
      BY <1>8, <2>5 DEF LeavesOf, Known
    <3> QED
      BY <1>1, <1>3, <3>1, DropsKnown
  <2>7. CASE ScopeDrop(b, i, d)
    <3>1. PICK l \in Locals : EndsScope(b, d[1], l) /\ HoistPoint(b, d[1]) = i
      BY <2>7 DEF ScopeDrop
    <3>2. d[1] \in 1 .. Len(Code(b)) /\ i <= d[1]
      BY <1>1, <1>3, <3>1, Quiet
    <3> QED
      BY <1>3, <3>2
  <2> QED
    BY <1>3, <2>6, <2>7 DEF ExitDrop, ReturnsWith
<1>9. \A k \in DeadPoints(t), l \in Locals : ~ScopePassed(t, 1, k, l)
  <2> SUFFICES ASSUME NEW k \in DeadPoints(t), NEW l \in Locals, ScopePassed(t, 1, k, l) PROVE FALSE
    OBVIOUS
  <2>1. HoistPoint(t, k) \in 1 .. k /\ HoistPoint(t, k) < 1 /\ k \in Nat
    BY <1>1, <1>5, <1>6, Quiet DEF ScopePassed
  <2> QED
    BY <2>1
<1>10. \A l : ~ExitPassed(t, 1, l)
  BY <1>6 DEF ExitPassed
<1>11. UNCHANGED <<fn, blockIn, seen>> /\ phase' = "run" /\ dropped' = dropped
  BY <1>1 DEF flowVars
<1>12. PICK n \in Nat : n = 1
  OBVIOUS
<1>13. due' = DropsAt(t, n)'
  BY <1>4, <1>11, <1>12, FrameRun
<1>14. DroppedOnce(t, n)'
  BY <1>8, <1>11, <1>12, FrameRun DEF DroppedOnce
<1>15. DroppedAll(t, n)'
  BY <1>9, <1>10, <1>11, <1>12, <1>13, FrameRun DEF DroppedAll
<1> QED
  BY <1>4, <1>11, <1>12, <1>13, <1>14, <1>15 DEF DropInv

LEMMA DropStart ==
  ASSUME SoundInv, DropInv, Start
  PROVE  DropInv'
<1>1. /\ dropped' = {} /\ phase' = "run" /\ pc' = <<fn.entry, 1>> /\ due' = DropsAt(fn.entry, 1)
      /\ UNCHANGED <<fn, blockIn, seen>> /\ TypeInv /\ PassInv /\ phase = "done"
  BY DEF Start, Accepted, Goto, DropInv, SoundInv
<1>2. PICK t \in Blocks : t = fn.entry
  BY <1>1, FunctionFacts DEF TypeInv
<1>3. Stable(t) /\ fn \in Functions
  BY <1>1, <1>2, FunctionFacts, EmptySeq DEF SoundInv, EntryInv, FixInv, Queued, TypeInv
<1>4. \A k \in DeadPoints(t), l \in Locals : ~ScopePassed(t, 1, k, l)
  <2> SUFFICES ASSUME NEW k \in DeadPoints(t), NEW l \in Locals, ScopePassed(t, 1, k, l) PROVE FALSE
    OBVIOUS
  <2>1. HoistPoint(t, k) \in 1 .. k /\ HoistPoint(t, k) < 1 /\ k \in Nat
    BY <1>1, <1>3, Quiet DEF ScopePassed, Stable
  <2> QED
    BY <2>1
<1>5. \A l : ~ExitPassed(t, 1, l)
  <2>1. fn.blocks[t].term \in 1 .. Len(Code(t)) + 1
    BY <1>3, BlockOrder
  <2> QED
    BY <2>1 DEF ExitPassed
<1>6. PICK n \in Nat : n = 1
  OBVIOUS
<1>7. due' = DropsAt(t, n)'
  BY <1>1, <1>2, <1>6, FrameRun
<1>8. DroppedOnce(t, n)'
  BY <1>1 DEF DroppedOnce
<1>9. DroppedAll(t, n)'
  BY <1>1, <1>4, <1>5, <1>6, <1>7, FrameRun DEF DroppedAll
<1> QED
  BY <1>1, <1>2, <1>6, <1>7, <1>8, <1>9 DEF DropInv

LEMMA DropExecuted ==
  ASSUME SoundInv, DropInv, ExecDrop
  PROVE  DropInv'
<1>1. /\ phase = "run" /\ phase' = "run" /\ pc' = pc /\ UNCHANGED <<fn, blockIn, seen>>
  BY DEF ExecDrop, flowVars
<1>2. PICK d \in due : due' = due \ {d} /\ dropped' = dropped \cup LeavesOf(d[2])
  BY DEF ExecDrop
<1>3. PICK b, i : b = pc[1] /\ i = pc[2]
  OBVIOUS
<1>4. due \subseteq DropsAt(b, i) /\ DroppedOnce(b, i) /\ DroppedAll(b, i)
  BY <1>1, <1>3 DEF DropInv
<1>5. /\ \A e \in DropsAt(b, i) \ due : e \in DropsAt(b, i) \ due'
      /\ d \in DropsAt(b, i) \ due'
      /\ \A e \in DropsAt(b, i) \ due' : e = d \/ e \in DropsAt(b, i) \ due
  BY <1>2, <1>4
<1>6. DroppedOnce(b, i)'
  BY <1>1, <1>2, <1>4, <1>5, FrameRun DEF DroppedOnce
<1>7. DroppedAll(b, i)'
  BY <1>1, <1>2, <1>4, <1>5, FrameRun DEF DroppedAll
<1>8. due' \subseteq DropsAt(b, i)'
  BY <1>1, <1>2, <1>4, FrameRun
<1> QED
  BY <1>1, <1>3, <1>6, <1>7, <1>8 DEF DropInv

LEMMA DropStep ==
  ASSUME SoundInv, DropInv, [Next]_vars
  PROVE  DropInv'
<1>1. CASE UNCHANGED vars
  <2>1. UNCHANGED <<fn, blockIn, seen, phase, pc, due, dropped>>
    BY <1>1 DEF vars, flowVars, runVars
  <2>2. PICK b, i : b = pc[1] /\ i = pc[2]
    OBVIOUS
  <2>3. DroppedOnce(b, i) = DroppedOnce(b, i)' /\ DroppedAll(b, i) = DroppedAll(b, i)' /\ DropsAt(b, i)' = DropsAt(b, i)
    BY <2>1, FrameRun DEF DroppedOnce, DroppedAll
  <2> QED
    BY <2>1, <2>2, <2>3 DEF DropInv
<1>2. CASE Analysis
  BY <1>2 DEF Analysis, FlowNext, PopBlock, ConsumeCopy, ConsumeMove, WriteDestination, StorageLive,
              StorageDead, Record, At, AtTerminator, Scanning, EnterSuccessor, EndBlock, Finish, runVars, DropInv
<1>4. CASE ExecCopy
  BY <1>4, DropAdvance DEF ExecCopy, Executes
<1>5. CASE ExecMove
  BY <1>5, DropAdvance DEF ExecMove, Executes
<1>6. CASE ExecDead
  BY <1>6, DropAdvance DEF ExecDead, Executes
<1>7. CASE ExecLive
  BY <1>7, DropAdvance DEF ExecLive, Executes
<1>8. CASE ExecWrite
  <2>1. /\ InBlock /\ Step /\ Instr.op = "write" /\ Instr.place \in OwnedPlaces
        /\ Instr.place.local \in WholeLocals => Instr.place.field = Whole
    BY <1>8, ExecPoint, WholePlace DEF ExecWrite, Executes, SoundInv, TypeInv
  <2>2. \A leaf \in Leaves :
          /\ leaf \in LeavesOf(Instr.place) => leaf.local = Instr.place.local
          /\ Instr.place.local \in WholeLocals /\ leaf.local = Instr.place.local => leaf \in LeavesOf(Instr.place)
    BY <2>1 DEF Leaves, LeavesOf, OwnedPlaces, Places
  <2>3. dropped' = dropped \ LeavesOf(Instr.place) /\ dropped \subseteq Leaves
    BY <1>8 DEF ExecWrite, SoundInv, TypeInv, TypeOK
  <2> QED
    BY <2>1, <2>2, <2>3, DropAdvance
<1>9. CASE ExecReturn
  BY <1>9 DEF ExecReturn, DropInv
<1> QED
  BY <1>1, <1>2, <1>4, <1>5, <1>6, <1>7, <1>8, <1>9, DropStart, DropExecuted, DropEnter DEF Next, Execution

LEMMA DropInit == Init => DropInv
BY DEF Init, FlowInit, ExecInit, DropInv

SafeInv == SoundInv /\ DropInv

\* Every drop finds a live value, at the point it was placed.
LEMMA DueAreLive ==
  ASSUME SafeInv, phase = "run", NEW d \in due, d[2].local \in WholeLocals
  PROVE  DropIsLive(d)
<1> SUFFICES ASSUME NEW leaf \in LeavesOf(d[2])
             PROVE  env[leaf] = "init" /\ leaf \notin dropped
  BY DEF DropIsLive, Live
<1> USE DEF SafeInv
<1>1. PICK b \in Blocks, i \in 1 .. Len(Code(pc[1])) + 1 : b = pc[1] /\ i = pc[2]
  BY RunPoint
<1>2. /\ i \in 1 .. Len(Code(b)) + 1 /\ Visited(b) /\ TypeInv /\ PassInv /\ fn \in Functions
      /\ d \in DropsAt(b, i) /\ Len(Code(b)) \in Nat
  BY <1>1, RunPoint DEF SoundInv, DropInv
<1>3. /\ ScopeDrop(b, i, d) \/ ExitDrop(b, i, d)
      /\ Known(seen[b][i], d[2].local) /\ d[2].local \in Locals
  BY <1>2, DropsKnown
<1>4. leaf.local = d[2].local /\ leaf \in Leaves
  <2>1. d[2] \in OwnedPlaces
    BY <1>2 DEF TypeInv
  <2>2. LeavesOf(d[2]) \subseteq Leaves
    BY <2>1, LeavesType
  <2> QED
    BY <2>2 DEF LeavesOf
<1>5. env[leaf] = "init"
  BY <1>1, <1>3, <1>4 DEF SoundInv, RunInv
<1>6. PICK l \in Locals : l = leaf.local
  BY <1>3, <1>4
<1>7. ASSUME NEW k \in DeadPoints(b), ScopePassed(b, i, k, l) PROVE FALSE
  <2>1. EndsScope(b, k, l) /\ HoistPoint(b, k) < i /\ i <= k /\ HoistPoint(b, k) \in Nat
    BY <1>2, <1>7, Quiet DEF ScopePassed
  <2>2. CASE ScopeDrop(b, i, d)
    <3>1. EndsScope(b, d[1], l) /\ HoistPoint(b, d[1]) = i
      BY <1>4, <1>6, <2>2 DEF ScopeDrop
    <3>2. i <= d[1]
      BY <1>2, <3>1, Quiet
    <3>3. d[1] = k
      BY <1>2, <2>1, <3>1, <3>2, OneScopeDrop
    <3> QED
      BY <1>2, <2>1, <3>1, <3>3
  <2>3. CASE ExitDrop(b, i, d)
    <3>1. i = fn.blocks[b].term /\ k < fn.blocks[b].term /\ k \in Nat
      BY <1>2, <2>1, <2>3, Quiet DEF ExitDrop
    <3> QED
      BY <1>2, <2>1, <3>1
  <2> QED
    BY <1>3, <2>2, <2>3
<1>8. ASSUME ExitPassed(b, i, l) PROVE FALSE
  <2>1. fn.blocks[b].term \in Nat /\ fn.blocks[b].term < i /\ ReturnsWith(b, l)
    BY <1>2, <1>8, BlockOrder DEF ExitPassed
  <2>2. ScopeDrop(b, i, d)
    BY <1>2, <1>3, <2>1 DEF ExitDrop
  <2>3. EndsScope(b, d[1], l) /\ HoistPoint(b, d[1]) = i
    BY <1>4, <1>6, <2>2 DEF ScopeDrop
  <2>4. i <= d[1] /\ d[1] < fn.blocks[b].term /\ d[1] \in Nat
    BY <1>2, <2>3, Quiet
  <2> QED
    BY <1>2, <2>1, <2>4
<1>9. ASSUME NEW e \in DropsAt(b, i) \ due, leaf \in LeavesOf(e[2]) PROVE FALSE
  <2>1. leaf \in LeavesOf(d[2]) \cap LeavesOf(e[2])
    BY <1>9
  <2>2. d = e
    BY <1>2, <1>9, <2>1, DropsDisjoint
  <2> QED
    BY <1>9, <2>2
<1>10. leaf \notin dropped
  BY <1>1, <1>3, <1>4, <1>6, <1>7, <1>8, <1>9 DEF DropInv, DroppedOnce
<1> QED
  BY <1>5, <1>10

\* What is read has not been dropped.
LEMMA ReadsAreLive ==
  ASSUME SafeInv, Instr.place.local \in WholeNamed
  PROVE  NoUseAfterDrop
<1> SUFFICES ASSUME Reads, ~(Instr.op = "copy" /\ fn.blocks[pc[1]].kind = "return" /\ pc[2] >= fn.blocks[pc[1]].term),
                    NEW leaf \in LeavesOf(Instr.place)
             PROVE  leaf \notin dropped
  BY DEF NoUseAfterDrop
<1> USE DEF SafeInv
<1>1. phase = "run" /\ due = {} /\ InBlock /\ Instr.op \in {"copy", "move"}
  BY DEF Reads, InBlock, Running
<1>2. PICK b \in Blocks, i \in 1 .. Len(Code(pc[1])) + 1 : b = pc[1] /\ i = pc[2]
  BY <1>1, RunPoint
<1>3. /\ Visited(b) /\ Len(Code(b)) \in Nat /\ TypeInv /\ PassInv /\ fn \in Functions /\ errors = {}
      /\ i \in 1 .. Len(Code(b)) /\ Len(seen[b]) = Len(Code(b)) + 1 /\ i \in 1 .. Len(Code(b)) + 1
  BY <1>1, <1>2, RunPoint DEF InBlock, SoundInv, Visited
<1> DEFINE e == Code(b)[i]
<1>4. Instr = e /\ e.op \in {"copy", "move"} /\ e.place.local \in Locals
  BY <1>1, <1>2, <1>3, EntryType DEF Instr
<1>5. PICK l \in Locals : l = e.place.local
  BY <1>4
<1>6. Known(seen[b][i], l)
  BY <1>3, <1>4, <1>5 DEF PassInv, WholeNamed
<1>7. leaf.local = l
  BY <1>4, <1>5 DEF LeavesOf
<1>8. ASSUME NEW k, EndsScope(b, k, l), HoistPoint(b, k) <= i, i <= k PROVE FALSE
  <2>1. /\ k \in 1 .. Len(Code(b)) /\ HoistPoint(b, k) \in Nat /\ Code(b)[k].op = "dead"
        /\ \A m \in HoistPoint(b, k) .. k - 1 : Code(b)[m].place.local # l
    BY <1>3, <1>8, Quiet DEF EndsScope, DeadPoints
  <2>2. k # i
    BY <1>4, <2>1
  <2>3. i \in HoistPoint(b, k) .. k - 1
    BY <1>3, <1>8, <2>1, <2>2
  <2> QED
    BY <1>5, <2>1, <2>3
<1>9. ASSUME ReturnsWith(b, l), fn.blocks[b].term <= i PROVE FALSE
  <2>1. fn.blocks[b].term \in Nat /\ ~Touches(e, l, {"move"})
    BY <1>3, <1>9, ReturnQuiet
  <2>2. fn.blocks[b].kind = "return" /\ e.op = "copy" /\ i >= fn.blocks[b].term
    BY <1>3, <1>4, <1>5, <1>9, <2>1 DEF Touches, ReturnsWith
  <2> QED
    BY <1>2, <1>4, <2>2
<1>10. ~ \E k \in DeadPoints(b) : ScopePassed(b, i, k, l)
  <2> SUFFICES ASSUME NEW k \in DeadPoints(b), ScopePassed(b, i, k, l) PROVE FALSE
    OBVIOUS
  <2>1. EndsScope(b, k, l) /\ HoistPoint(b, k) \in Nat /\ HoistPoint(b, k) < i /\ i <= k
    BY <1>3, Quiet DEF ScopePassed
  <2> QED
    BY <1>3, <1>8, <2>1
<1>11. ~ExitPassed(b, i, l)
  BY <1>3, <1>9, BlockOrder DEF ExitPassed
<1>12. ~ \E d \in DropsAt(b, i) : leaf \in LeavesOf(d[2])
  <2> SUFFICES ASSUME NEW d \in DropsAt(b, i), leaf \in LeavesOf(d[2]) PROVE FALSE
    OBVIOUS
  <2>1. leaf.local = d[2].local /\ (ScopeDrop(b, i, d) \/ ExitDrop(b, i, d))
    <3>1. leaf.local = d[2].local /\ d[2].local \in WholeLocals
      BY <1>6, <1>7 DEF LeavesOf, Known
    <3> QED
      BY <1>3, <3>1, DropsKnown
  <2>2. CASE ScopeDrop(b, i, d)
    <3>1. EndsScope(b, d[1], l) /\ HoistPoint(b, d[1]) = i
      BY <1>7, <2>1, <2>2 DEF ScopeDrop
    <3>2. i <= d[1]
      BY <1>3, <3>1, Quiet
    <3> QED
      BY <1>3, <1>8, <3>1, <3>2
  <2>3. CASE ExitDrop(b, i, d)
    BY <1>3, <1>7, <1>9, <2>1, <2>3 DEF ExitDrop
  <2> QED
    BY <2>1, <2>2, <2>3
<1> QED
  BY <1>1, <1>2, <1>6, <1>7, <1>10, <1>11, <1>12 DEF DropInv, DroppedOnce

\* What owns something has a drop of its own among those of its local.
LEMMA OwningIsDropped ==
  ASSUME NEW p \in OwnedPlaces, NEW leaf \in Owning(p)
  PROVE  /\ NeedsDrop(p.local) /\ leaf \notin dropped
         /\ \E d \in LiveDrops(p.local) : leaf \in LeavesOf(d)
<1>1. /\ leaf \in LeavesOf(p) /\ leaf \notin dropped /\ leaf.local = p.local
      /\ p.local \in DropWhole \/ leaf.field \in DropFields
  BY DEF Owning, Live, LeavesOf
<1>2. p.local \in Locals /\ FieldsOf[p.local] \in SUBSET Fields /\ Whole \notin Fields
  BY FieldsAssumption DEF OwnedPlaces, Places
<1>3. leaf \in LeavesOf([local |-> p.local, field |-> Whole])
  BY <1>1, <1>2 DEF LeavesOf, OwnedPlaces, Places
<1>4. CASE p.local \in DropWhole
  BY <1>1, <1>3, <1>4 DEF NeedsDrop, LiveDrops
<1>5. CASE p.local \notin DropWhole
  <2>1. leaf.field \in DropFields /\ leaf.field # Whole
    BY <1>1, <1>2, <1>5, DropAssumption DEF Owning
  <2>2. leaf.field \in FieldsOf[p.local] /\ leaf = [local |-> p.local, field |-> leaf.field]
    BY <1>3, <2>1 DEF LeavesOf
  <2>3. leaf \in LiveDrops(p.local) /\ leaf \in LeavesOf(leaf)
    BY <1>5, <2>1, <2>2 DEF LiveDrops, LeavesOf
  <2> QED
    BY <1>1, <2>1, <2>2, <2>3 DEF NeedsDrop
<1> QED
  BY <1>4, <1>5

LEMMA OwnedAreReleased ==
  ASSUME SafeInv, NEW l \in WholeLocals
  PROVE  LocalIsReleased(l)
<1> USE DEF SafeInv
<1>1. ASSUME Running
      PROVE  /\ phase = "run" /\ due = {} /\ TypeInv /\ PassInv /\ fn \in Functions
             /\ pc[1] \in Blocks /\ pc[2] \in 1 .. Len(Code(pc[1])) + 1 /\ Visited(pc[1]) /\ Len(Code(pc[1])) \in Nat
             /\ DroppedAll(pc[1], pc[2])
  BY <1>1, RunPoint DEF Running, SoundInv, DropInv
<1>2. ASSUME Executes("dead"), Instr.place.local = l, seen[pc[1]][pc[2]][l] = AsWhole("Initialized")
      PROVE  Owning(Instr.place) = {}
  <2> SUFFICES ASSUME NEW leaf \in Owning(Instr.place) PROVE FALSE
    OBVIOUS
  <2>1. Running /\ InBlock /\ Instr.op = "dead"
    BY <1>2 DEF Executes, InBlock
  <2>2. PICK b \in Blocks, k \in 1 .. Len(Code(pc[1])) + 1 : b = pc[1] /\ k = pc[2]
    BY <1>1, <2>1
  <2>3. /\ Instr = Code(b)[k] /\ k \in 1 .. Len(Code(b)) /\ Instr.place \in OwnedPlaces
        /\ Instr.place.local \in Locals /\ Visited(b) /\ TypeInv /\ PassInv /\ due = {} /\ DroppedAll(b, k)
    BY <1>1, <2>1, <2>2, ExecPoint
  <2>4. l \in Locals
    BY WholeLocalsType
  <2>5. NeedsDrop(l) /\ leaf \notin dropped /\ \E p \in LiveDrops(l) : leaf \in LeavesOf(p)
    BY <1>2, <2>3, OwningIsDropped
  <2>6. k \in DeadPoints(b) /\ EndsScope(b, k, l)
    BY <1>2, <2>1, <2>2, <2>3, <2>4, <2>5 DEF DeadPoints, EndsScope, Known
  <2>7. PICK p \in LiveDrops(l) : leaf \in LeavesOf(p)
    BY <2>5
  <2>8. HoistPoint(b, k) \in 1 .. k
    BY <2>4, <2>3, <2>6, Quiet
  <2>9. CASE HoistPoint(b, k) < k
    <3>1. ScopePassed(b, k, k, l)
      BY <2>3, <2>6, <2>9 DEF ScopePassed
    <3> QED
      BY <2>4, <2>3, <2>5, <2>6, <2>7, <3>1 DEF DroppedAll
  <2>10. CASE HoistPoint(b, k) = k
    <3>1. <<k, p>> \in DropsAt(b, k) \ due
      BY <2>3, <2>6, <2>10, ScopeDropsKnown DEF DropsAt
    <3> QED
      BY <2>3, <2>5, <2>7, <3>1 DEF DroppedAll
  <2> QED
    BY <2>8, <2>9, <2>10
<1>3. ASSUME Running, ~InBlock, fn.blocks[pc[1]].kind = "return", l # fn.dropSelf,
             Last(seen[pc[1]])[l] = AsWhole("Initialized")
      PROVE  Owning([local |-> l, field |-> Whole]) = {}
  <2> DEFINE place == [local |-> l, field |-> Whole]
  <2> SUFFICES ASSUME NEW leaf \in Owning(place) PROVE FALSE
    OBVIOUS
  <2>1. PICK b \in Blocks, i \in 1 .. Len(Code(pc[1])) + 1 : b = pc[1] /\ i = pc[2]
    BY <1>1, <1>3
  <2>2. /\ i = Len(Code(b)) + 1 /\ Len(Code(b)) \in Nat /\ Visited(b) /\ TypeInv /\ PassInv /\ due = {}
        /\ DroppedAll(b, i) /\ fn \in Functions
    BY <1>1, <1>3, <2>1 DEF InBlock
  <2>3. ReturnsWith(b, l)
    BY <1>3, <2>1 DEF ReturnsWith, Known
  <2>4. place \in OwnedPlaces /\ place.local = l /\ l \in Locals
    BY WholeLocalsType DEF OwnedPlaces, Places
  <2>5. leaf \notin dropped /\ \E p \in LiveDrops(l) : leaf \in LeavesOf(p)
    BY <2>4, OwningIsDropped
  <2>6. PICK p \in LiveDrops(l) : leaf \in LeavesOf(p) /\ p.local = l
    BY <2>5 DEF LiveDrops
  <2>7. p # [local |-> fn.dropSelf, field |-> Whole]
    BY <1>3, <2>6
  <2>8. fn.blocks[b].term \in 1 .. Len(Code(b)) + 1
    BY <2>2, BlockOrder
  <2>9. CASE fn.blocks[b].term < i
    BY <2>4, <2>2, <2>3, <2>5, <2>6, <2>7, <2>9 DEF DroppedAll, ExitPassed
  <2>10. CASE fn.blocks[b].term = i
    <3>1. <<0, p>> \in DropsAt(b, i) \ due
      BY <2>4, <2>2, <2>3, <2>6, <2>7, <2>10, ExitDropsKnown DEF DropsAt
    <3> QED
      BY <2>2, <2>5, <2>6, <3>1 DEF DroppedAll
  <2> QED
    BY <2>2, <2>8, <2>9, <2>10
<1> QED
  BY <1>2, <1>3 DEF LocalIsReleased

LEMMA SafeInit == Init => SafeInv
BY TypeInit, FixInit, SoundInit, DropInit DEF SafeInv, SoundInv

LEMMA SafeStep ==
  ASSUME SafeInv, [Next]_vars
  PROVE  SafeInv'
BY SoundStep, DropStep DEF SafeInv

\* Of a named one, an accepted function reads nothing after its drop but the
\* operand it returns by copy, wherever the drops are hoisted and through any
\* control flow.
THEOREM WholeLocalsNotUsedAfterDrop == Spec => [](Instr.place.local \in WholeNamed => NoUseAfterDrop)
<1>1. SafeInv => (Instr.place.local \in WholeNamed => NoUseAfterDrop)
  BY ReadsAreLive
<1> QED
  BY <1>1, SafeInit, SafeStep, PTL DEF Spec

\* Named or not, each of its drops finds a value that is there and was not dropped before: no
\* value is dropped twice, at a scope's end and a return, in loops or at joins.
THEOREM DropsOfWholeLocalsAreLive ==
  Spec => [](phase = "run" => \A d \in due : d[2].local \in WholeLocals => DropIsLive(d))
<1>1. SafeInv => (phase = "run" => \A d \in due : d[2].local \in WholeLocals => DropIsLive(d))
  BY DueAreLive
<1> QED
  BY <1>1, SafeInit, SafeStep, PTL DEF Spec

\* And when it is known to hold a value at the end of its scope or at a return,
\* that has been dropped by then on every path.
THEOREM WholeLocalsAreReleased == Spec => [](\A l \in WholeLocals : LocalIsReleased(l))
<1>1. SafeInv => \A l \in WholeLocals : LocalIsReleased(l)
  BY OwnedAreReleased
<1> QED
  BY <1>1, SafeInit, SafeStep, PTL DEF Spec

\* So all of this holds of functions whose locals are all such: no read of a
\* named local after its drop,
THEOREM NoUseAfterDropCorrect ==
  ASSUME MovesWholeNamed
  PROVE  Spec => [](OfNamed => NoUseAfterDrop)
<1>1. SafeInv => (OfNamed => NoUseAfterDrop)
  BY ReadsAreLive, ReadsOfLocals DEF MovesWholeNamed, WholeNamed, OfNamed, NoUseAfterDrop, SafeInv, SoundInv
<1> QED
  BY <1>1, SafeInit, SafeStep, PTL DEF Spec

\* no drop of what is not there or was dropped before,
THEOREM DropsAreLiveCorrect ==
  ASSUME MovesWholeLocals
  PROVE  Spec => []DropsAreLive
<1>1. SafeInv => DropsAreLive
  <2> SUFFICES ASSUME SafeInv, phase = "run", NEW d \in due PROVE DropIsLive(d)
    BY DEF DropsAreLive
  <2>1. d[2] \in OwnedPlaces
    BY DEF SafeInv, SoundInv, TypeInv
  <2>2. d[2].local \in WholeLocals
    BY <2>1 DEF OwnedPlaces, Places, MovesWholeLocals
  <2> QED
    BY <2>2, DueAreLive
<1> QED
  BY <1>1, SafeInit, SafeStep, PTL DEF Spec

\* and nothing that is known to be live is left.
THEOREM OwnedIsReleasedCorrect ==
  ASSUME MovesWholeLocals
  PROVE  Spec => []OwnedIsReleased
<1>1. SafeInv => OwnedIsReleased
  BY OwnedAreReleased DEF OwnedIsReleased, MovesWholeLocals
<1> QED
  BY <1>1, SafeInit, SafeStep, PTL DEF Spec

-----------------------------------------------------------------------------
(* What MirLower makes of any body: its invariant, step by step. *)

\* An entry of a legal place, which moves and writes the locals of W only whole.
Legal(W, e) ==
  /\ e.place.field \in FieldsOf[e.place.local] \cup {Whole}
  /\ e.op \in {"move", "write"} /\ e.place.local \in W => e.place.field = Whole
ReadEntries(W) == {e \in Entries : e.op \in {"copy", "move"} /\ Legal(W, e)}
StmtEntries(W) == {e \in Entries : e.op # "dead" /\ Legal(W, e)}

\* What a block holds while it is lowered.
StmtSeqs(W) ==
  {s \in Seq(Entries) :
     \A i \in 1 .. Len(s) :
       /\ Legal(W, s[i]) /\ s[i].stmt \in 1 .. i
       /\ s[i].op = "dead" => s[i].stmt = i
       /\ \A j \in 1 .. i : s[j].stmt <= s[i].stmt}
LoweredBlocks(W, G) ==
  {block \in [stmts : StmtSeqs(W), operands : Seq(StmtEntries(W)), succ : Seq(G),
              kind : {"flow", "return", "unreachable"}] :
     block.kind = "return" => block.operands \in Seq(ReadEntries(W))}

\* What is still to do: B are the blocks, G those that may be jumped to.
Types == TempTypes \cup {"plain"}
Items(T, W, B, G) ==
  T \cup [k : {"endScope"}]
  \cup [k : {"else"}, at : G, else : AtMostOne(T), ty : Types]
  \cup [k : {"meet"}, arm : [cur : B, value : Seq(ReadEntries(W))], ty : Types]
  \cup [k : {"endLoop"}]
  \cup [k : {"join"}, to : G, next : G]
  \cup [k : {"arg"}, left : Seq(T), operands : Seq(ReadEntries(W)), ty : Types]
  \cup [k : {"refer"}] \cup [k : {"receive"}, ty : TempTypes]
  \cup [k : {"store"}, l : Locals]

Builders(T, W, B, G) ==
  [blocks : Seq(LoweredBlocks(W, G)), cur : B, scopes : Seq(Seq(Locals)),
   loops : Seq([label : {s.label : s \in T}, brk : G, cont : G]), diverged : BOOLEAN,
   final : SUBSET B, used : [TempTypes -> Nat], value : Seq(ReadEntries(W)), todo : Seq(Items(T, W, B, G))]

All(fb) == 1 .. Newest(fb)
Targetable(fb) == All(fb) \ fb.final
Built(T, W, fb) == fb \in Builders(T, W, All(fb), Targetable(fb)) /\ 1 \notin fb.final

\* The blocks that have no terminator yet, and those that will be continued.
Opened(fb) == {b \in All(fb) : IsOpen(fb, b)}
Awaited(i) ==
  CASE i.k = "else" -> {i.at} [] i.k = "meet" -> {i.arm.cur} [] i.k = "join" -> {i.next} [] OTHER -> {}
Pending(todo) == UNION {Awaited(todo[j]) : j \in 1 .. Len(todo)}

\* No more scopes are to be left than are open.
Depths(todo, n) ==
  \E depth \in [1 .. Len(todo) + 1 -> Nat] :
    /\ depth[1] = n
    /\ \A j \in 1 .. Len(todo) : depth[j] >= depth[j + 1] + (IF todo[j].k = "endScope" THEN 1 ELSE 0)

LowerInv(T, W, fb) ==
  /\ Built(T, W, fb)
  /\ Opened(fb) \subseteq {fb.cur} \cup Pending(fb.todo)
  /\ Depths(fb.todo, Len(fb.scopes))

-----------------------------------------------------------------------------
LEMMA SeqWider == ASSUME NEW A, NEW B, A \subseteq B, NEW s \in Seq(A) PROVE s \in Seq(B)
OBVIOUS

LEMMA ItemsWider ==
  ASSUME NEW T, NEW W, NEW B, NEW G, NEW B2, NEW G2, B \subseteq B2, G \subseteq G2
  PROVE  Items(T, W, B, G) \subseteq Items(T, W, B2, G2)
<1> DEFINE R == Seq(ReadEntries(W))
<1> HIDE DEF R
<1>1. [k : {"else"}, at : G, else : AtMostOne(T), ty : Types]
      \subseteq [k : {"else"}, at : G2, else : AtMostOne(T), ty : Types]
  OBVIOUS
<1>2. [k : {"meet"}, arm : [cur : B, value : R], ty : Types]
      \subseteq [k : {"meet"}, arm : [cur : B2, value : R], ty : Types]
  OBVIOUS
<1>3. [k : {"join"}, to : G, next : G] \subseteq [k : {"join"}, to : G2, next : G2]
  OBVIOUS
<1> QED
  BY <1>1, <1>2, <1>3 DEF Items, R

LEMMA BlocksWider ==
  ASSUME NEW W, NEW G, NEW G2, G \subseteq G2
  PROVE  LoweredBlocks(W, G) \subseteq LoweredBlocks(W, G2)
<1> SUFFICES ASSUME NEW b \in LoweredBlocks(W, G) PROVE b \in LoweredBlocks(W, G2)
  OBVIOUS
<1>1. b.succ \in Seq(G2)
  BY SeqWider DEF LoweredBlocks
<1> QED
  BY <1>1 DEF LoweredBlocks

LEMMA LoopsWider ==
  ASSUME NEW L, NEW G, NEW G2, G \subseteq G2
  PROVE  Seq([label : L, brk : G, cont : G]) \subseteq Seq([label : L, brk : G2, cont : G2])
<1>1. [label : L, brk : G, cont : G] \subseteq [label : L, brk : G2, cont : G2]
  OBVIOUS
<1> QED
  BY <1>1, SeqWider

LEMMA BuildersWider ==
  ASSUME NEW T, NEW W, NEW B, NEW G, NEW B2, NEW G2, B \subseteq B2, G \subseteq G2
  PROVE  Builders(T, W, B, G) \subseteq Builders(T, W, B2, G2)
<1> SUFFICES ASSUME NEW fb \in Builders(T, W, B, G) PROVE fb \in Builders(T, W, B2, G2)
  OBVIOUS
<1>1. fb.blocks \in Seq(LoweredBlocks(W, G2))
  <2>1. fb.blocks \in Seq(LoweredBlocks(W, G))
    BY DEF Builders
  <2> QED
    BY <2>1, BlocksWider, SeqWider
<1>2. fb.todo \in Seq(Items(T, W, B2, G2))
  <2>1. fb.todo \in Seq(Items(T, W, B, G))
    BY DEF Builders
  <2> QED
    BY <2>1, ItemsWider, SeqWider
<1>3. fb.loops \in Seq([label : {s.label : s \in T}, brk : G2, cont : G2])
  BY LoopsWider DEF Builders
<1>4. fb.cur \in B2 /\ fb.final \subseteq B2
  BY DEF Builders
<1> QED
  BY <1>1, <1>2, <1>3, <1>4 DEF Builders

-----------------------------------------------------------------------------
(* Statements *)

LEMMA ConcatAt ==
  ASSUME NEW A, NEW s \in Seq(A), NEW t \in Seq(A)
  PROVE  /\ s \o t \in Seq(A) /\ Len(s \o t) = Len(s) + Len(t)
         /\ \A i \in 1 .. Len(s) : (s \o t)[i] = s[i]
         /\ \A i \in 1 .. Len(t) : (s \o t)[Len(s) + i] = t[i]
         /\ \A i \in 1 .. Len(s) + Len(t) :
              \/ i \in 1 .. Len(s) /\ (s \o t)[i] = s[i]
              \/ i - Len(s) \in 1 .. Len(t) /\ (s \o t)[i] = t[i - Len(s)]
OBVIOUS

LEMMA NumberedFacts ==
  ASSUME NEW W, NEW es \in Seq(StmtEntries(W)), NEW n \in Nat
  PROVE  /\ Numbered(es, n) \in Seq(Entries) /\ Len(Numbered(es, n)) = Len(es)
         /\ \A i \in 1 .. Len(es) :
              LET e == Numbered(es, n)[i] IN
              e.op = es[i].op /\ e.place = es[i].place /\ e.stmt = n /\ e.op # "dead" /\ Legal(W, e)
<1>1. \A i \in 1 .. Len(es) : es[i] \in Entries /\ es[i].op # "dead" /\ Legal(W, es[i])
  BY DEF StmtEntries
<1>2. Numbered(es, n) = [i \in 1 .. Len(es) |-> [es[i] EXCEPT !.stmt = n]]
  BY DEF Numbered
<1>3. ASSUME NEW i \in 1 .. Len(es)
      PROVE  LET e == [es[i] EXCEPT !.stmt = n] IN
             e \in Entries /\ e.op = es[i].op /\ e.place = es[i].place /\ e.stmt = n
  BY <1>1 DEF Entries
<1>4. ASSUME NEW i \in 1 .. Len(es)
      PROVE  LET e == Numbered(es, n)[i] IN
             e.op = es[i].op /\ e.place = es[i].place /\ e.stmt = n
  BY <1>2, <1>3
<1>5. Len(es) \in Nat
  OBVIOUS
<1>6. Numbered(es, n) \in [1 .. Len(es) -> Entries]
  BY <1>2, <1>3
<1>7. Numbered(es, n) \in Seq(Entries) /\ Len(Numbered(es, n)) = Len(es)
  BY <1>5, <1>6
<1> QED
  BY <1>1, <1>4, <1>7 DEF Legal

LEMMA Extended ==
  ASSUME NEW W, NEW s \in StmtSeqs(W), NEW t \in Seq(Entries), NEW n, n = Len(s),
         \A i \in 1 .. Len(t) : /\ Legal(W, t[i]) /\ t[i].stmt \in n + 1 .. n + i
                                /\ t[i].op = "dead" => t[i].stmt = n + i
                                /\ \A j \in 1 .. i : t[j].stmt <= t[i].stmt
  PROVE  s \o t \in StmtSeqs(W)
<1>1. s \in Seq(Entries) /\ n \in Nat
  BY DEF StmtSeqs
<1>2. PICK st : st = s \o t
  OBVIOUS
<1>3. /\ st \in Seq(Entries) /\ Len(st) = n + Len(t)
      /\ \A i \in 1 .. n : st[i] = s[i]
      /\ \A i \in 1 .. Len(t) : st[n + i] = t[i]
  BY <1>1, <1>2, ConcatAt
<1>4. \A i \in 1 .. n : /\ Legal(W, s[i]) /\ s[i].stmt \in 1 .. i
                        /\ s[i].op = "dead" => s[i].stmt = i
                        /\ \A j \in 1 .. i : s[j].stmt <= s[i].stmt
  BY DEF StmtSeqs
<1>5. ASSUME NEW i \in 1 .. Len(st)
      PROVE  /\ Legal(W, st[i]) /\ st[i].stmt \in 1 .. i
             /\ st[i].op = "dead" => st[i].stmt = i
             /\ \A j \in 1 .. i : st[j].stmt <= st[i].stmt
  <2>1. CASE i <= n
    <3>1. i \in 1 .. n /\ \A j \in 1 .. i : j \in 1 .. n
      BY <1>1, <2>1
    <3> QED
      BY <1>3, <1>4, <3>1
  <2>2. CASE i > n
    <3>1. PICK k : k = i - n
      OBVIOUS
    <3>2. k \in 1 .. Len(t) /\ i = n + k
      BY <1>1, <1>3, <2>2, <3>1
    <3>3. /\ Legal(W, t[k]) /\ t[k].stmt \in n + 1 .. n + k
          /\ t[k].op = "dead" => t[k].stmt = n + k
      BY <3>2
    <3>4. st[i] = t[k]
      BY <1>3, <3>2
    <3>5. st[i].stmt \in 1 .. i
      BY <1>1, <3>2, <3>3, <3>4
    <3>6. ASSUME NEW j \in 1 .. i PROVE st[j].stmt <= st[i].stmt
      <4>1. CASE j <= n
        <5>1. j \in 1 .. n
          BY <1>1, <4>1
        <5>2. st[j].stmt \in 1 .. j
          BY <5>1, <1>3, <1>4
        <5>3. st[i].stmt \in n + 1 .. n + k
          BY <3>3, <3>4
        <5> QED
          BY <1>1, <3>2, <5>1, <5>2, <5>3
      <4>2. CASE j > n
        <5>1. PICK m : m = j - n
          OBVIOUS
        <5>2. m \in 1 .. k /\ j = n + m /\ m \in 1 .. Len(t)
          BY <1>1, <3>2, <4>2, <5>1
        <5>3. st[j] = t[m] /\ t[m].stmt <= t[k].stmt
          BY <5>2, <1>3, <3>2
        <5> QED
          BY <5>3, <3>4
      <4> QED
        BY <1>1, <4>1, <4>2
    <3> QED
      BY <3>2, <3>3, <3>4, <3>5, <3>6
  <2> QED
    BY <1>1, <1>3, <2>1, <2>2
<1> QED
  BY <1>2, <1>3, <1>5 DEF StmtSeqs

LEMMA Pushed ==
  ASSUME NEW W, NEW s \in StmtSeqs(W), NEW es \in Seq(StmtEntries(W))
  PROVE  s \o Numbered(es, Len(s) + 1) \in StmtSeqs(W)
<1>1. PICK n : n = Len(s)
  OBVIOUS
<1>2. n \in Nat
  BY <1>1 DEF StmtSeqs
<1>3. PICK t : t = Numbered(es, n + 1)
  OBVIOUS
<1>4. /\ t \in Seq(Entries) /\ Len(t) = Len(es)
      /\ \A i \in 1 .. Len(es) : t[i].stmt = n + 1 /\ t[i].op # "dead" /\ Legal(W, t[i])
  BY <1>2, <1>3, NumberedFacts
<1>5. \A i \in 1 .. Len(t) : /\ Legal(W, t[i]) /\ t[i].stmt \in n + 1 .. n + i
                             /\ t[i].op = "dead" => t[i].stmt = n + i
                             /\ \A j \in 1 .. i : t[j].stmt <= t[i].stmt
  BY <1>2, <1>4
<1> QED
  BY <1>1, <1>3, <1>4, <1>5, Extended

-----------------------------------------------------------------------------
(* The operations on the builder *)

\* g differs from fb in its blocks only.
Kept(fb, g) ==
  /\ g.cur = fb.cur /\ g.scopes = fb.scopes /\ g.loops = fb.loops /\ g.diverged = fb.diverged
  /\ g.final = fb.final /\ g.used = fb.used /\ g.value = fb.value /\ g.todo = fb.todo

\* What the operations are given.
StmtList(W, es) == es \in Seq(StmtEntries(W))
ReadList(W, es) == es \in Seq(ReadEntries(W))
Jumps(fb, succ) == succ \in Seq(Targetable(fb))
LoopStack(T, fb, loops) ==
  loops \in Seq([label : {s.label : s \in T}, brk : Targetable(fb), cont : Targetable(fb)])
Work(T, W, fb, items) == items \in Seq(Items(T, W, All(fb), Targetable(fb)))

LEMMA BuiltType ==
  ASSUME NEW T, NEW W, NEW fb, Built(T, W, fb)
  PROVE  /\ fb.blocks \in Seq(LoweredBlocks(W, Targetable(fb))) /\ Len(fb.blocks) \in Nat
         /\ Newest(fb) \in Nat /\ All(fb) \subseteq Nat
         /\ fb.cur \in All(fb) /\ fb.final \subseteq All(fb) /\ 1 \notin fb.final
         /\ fb.scopes \in Seq(Seq(Locals)) /\ fb.used \in [TempTypes -> Nat]
         /\ fb.value \in Seq(ReadEntries(W)) /\ fb.diverged \in BOOLEAN
         /\ fb.loops \in Seq([label : {s.label : s \in T}, brk : Targetable(fb), cont : Targetable(fb)])
         /\ Work(T, W, fb, fb.todo) /\ ReadList(W, fb.value)
         /\ \A b \in All(fb) : fb.blocks[b] \in LoweredBlocks(W, Targetable(fb))
BY DEF Built, Builders, All, Newest, Work, ReadList

\* Blocks that are replaced one by one.
LEMMA BlocksChanged ==
  ASSUME NEW T, NEW W, NEW fb, Built(T, W, fb), NEW blocks \in Seq(LoweredBlocks(W, Targetable(fb))),
         Len(blocks) = Len(fb.blocks), NEW g, g = [fb EXCEPT !.blocks = blocks]
  PROVE  /\ Built(T, W, g) /\ Kept(fb, g) /\ Newest(g) = Newest(fb) /\ Targetable(g) = Targetable(fb)
         /\ g.blocks = blocks
<1>1. g.blocks = blocks /\ Kept(fb, g)
  BY DEF Built, Builders, Kept
<1>2. Newest(g) = Newest(fb) /\ All(g) = All(fb) /\ Targetable(g) = Targetable(fb)
  BY <1>1 DEF Kept, All, Targetable, Newest
<1>3. g \in Builders(T, W, All(fb), Targetable(fb))
  BY DEF Built, Builders
<1> QED
  BY <1>1, <1>2, <1>3 DEF Built, Kept

LEMMA PushBuilt ==
  ASSUME NEW T, NEW W, NEW fb, Built(T, W, fb), NEW es, StmtList(W, es),
         NEW g, g = PushStmt(fb, es)
  PROVE  /\ Built(T, W, g) /\ Kept(fb, g) /\ Newest(g) = Newest(fb) /\ Targetable(g) = Targetable(fb)
         /\ Opened(g) = Opened(fb)
<1> DEFINE old == fb.blocks[fb.cur]
           new == [old EXCEPT !.stmts = old.stmts \o Numbered(es, Len(old.stmts) + 1)]
<1>1. PICK blocks : blocks = [fb.blocks EXCEPT ![fb.cur] = new]
  OBVIOUS
<1>2. g = [fb EXCEPT !.blocks = blocks]
  BY <1>1, BuiltType DEF PushStmt
<1>3. old \in LoweredBlocks(W, Targetable(fb))
  BY BuiltType
<1>4. old.stmts \o Numbered(es, Len(old.stmts) + 1) \in StmtSeqs(W)
  <2>1. PICK s : s = old.stmts
    OBVIOUS
  <2>2. s \in StmtSeqs(W)
    BY <1>3, <2>1 DEF LoweredBlocks
  <2> QED
    BY <2>1, <2>2, Pushed DEF StmtList
<1>5. new \in LoweredBlocks(W, Targetable(fb)) /\ new.kind = old.kind
  BY <1>3, <1>4 DEF LoweredBlocks
<1>6. /\ fb.blocks \in Seq(LoweredBlocks(W, Targetable(fb))) /\ fb.cur \in 1 .. Len(fb.blocks)
      /\ Len(fb.blocks) \in Nat
  BY BuiltType DEF All, Newest
<1> HIDE DEF new
<1>7. /\ blocks \in Seq(LoweredBlocks(W, Targetable(fb))) /\ Len(blocks) = Len(fb.blocks)
      /\ blocks[fb.cur] = new /\ \A b \in 1 .. Len(fb.blocks) : b # fb.cur => blocks[b] = fb.blocks[b]
  BY <1>1, <1>5, <1>6
<1>8. /\ Built(T, W, g) /\ Kept(fb, g) /\ Newest(g) = Newest(fb) /\ Targetable(g) = Targetable(fb)
      /\ g.blocks = blocks
  BY <1>2, <1>7, BlocksChanged
<1>9. \A b \in 1 .. Len(fb.blocks) : g.blocks[b].kind = fb.blocks[b].kind
  BY <1>5, <1>7, <1>8
<1>10. Opened(g) = Opened(fb)
  BY <1>8, <1>9 DEF Opened, IsOpen, Kept, All, Newest
<1> QED
  BY <1>8, <1>10

LEMMA TermBuilt ==
  ASSUME NEW T, NEW W, NEW fb, Built(T, W, fb), NEW b \in All(fb), NEW kind \in {"flow", "return"},
         NEW operands, StmtList(W, operands), kind = "return" => ReadList(W, operands),
         NEW succ, Jumps(fb, succ), NEW g, g = SetTerminator(fb, b, kind, operands, succ)
  PROVE  /\ Built(T, W, g) /\ Kept(fb, g) /\ Newest(g) = Newest(fb) /\ Targetable(g) = Targetable(fb)
         /\ Opened(g) = Opened(fb) \ {b}
<1> DEFINE old == fb.blocks[b]
           new == [old EXCEPT !.operands = operands, !.succ = succ, !.kind = kind]
<1>1. PICK blocks : blocks = [fb.blocks EXCEPT ![b] = new]
  OBVIOUS
<1>2. g = [fb EXCEPT !.blocks = blocks]
  BY <1>1, BuiltType DEF SetTerminator
<1>3. old \in LoweredBlocks(W, Targetable(fb))
  BY BuiltType
<1>4. new \in LoweredBlocks(W, Targetable(fb)) /\ new.kind = kind
  BY <1>3 DEF LoweredBlocks, StmtList, ReadList, Jumps
<1>5. /\ fb.blocks \in Seq(LoweredBlocks(W, Targetable(fb))) /\ b \in 1 .. Len(fb.blocks)
      /\ Len(fb.blocks) \in Nat
  BY BuiltType DEF All, Newest
<1> HIDE DEF new
<1>6. /\ blocks \in Seq(LoweredBlocks(W, Targetable(fb))) /\ Len(blocks) = Len(fb.blocks)
      /\ blocks[b] = new /\ \A c \in 1 .. Len(fb.blocks) : c # b => blocks[c] = fb.blocks[c]
  BY <1>1, <1>4, <1>5
<1>7. /\ Built(T, W, g) /\ Kept(fb, g) /\ Newest(g) = Newest(fb) /\ Targetable(g) = Targetable(fb)
      /\ g.blocks = blocks
  BY <1>2, <1>6, BlocksChanged
<1>8. Opened(g) = Opened(fb) \ {b}
  <2>1. \A c \in 1 .. Len(fb.blocks) : IsOpen(g, c) <=> IsOpen(fb, c) /\ c # b
    BY <1>4, <1>6, <1>7 DEF IsOpen, Kept
  <2> QED
    BY <2>1, <1>7 DEF Opened, All, Newest
<1> QED
  BY <1>7, <1>8

LEMMA JumpBuilt ==
  ASSUME NEW T, NEW W, NEW fb, Built(T, W, fb), NEW b \in All(fb), NEW target \in Targetable(fb),
         NEW g, g = JumpTo(fb, b, target)
  PROVE  /\ Built(T, W, g) /\ Kept(fb, g) /\ Newest(g) = Newest(fb) /\ Targetable(g) = Targetable(fb)
         /\ Opened(g) = Opened(fb) \ {b}
<1>1. PICK kind, none, succ : kind = "flow" /\ none = <<>> /\ succ = <<target>>
  OBVIOUS
<1>2. StmtList(W, none) /\ Jumps(fb, succ) /\ kind \in {"flow", "return"}
  BY <1>1 DEF StmtList, Jumps
<1>3. kind = "return" => ReadList(W, none)
  BY <1>1
<1>4. g = SetTerminator(fb, b, kind, none, succ)
  BY <1>1 DEF JumpTo
<1> QED
  BY <1>2, <1>3, <1>4, TermBuilt

LEMMA JoinBuilt ==
  ASSUME NEW T, NEW W, NEW fb, Built(T, W, fb), NEW b \in All(fb), NEW target \in Targetable(fb),
         NEW g, g = JoinIfOpen(fb, b, target)
  PROVE  /\ Built(T, W, g) /\ Kept(fb, g) /\ Newest(g) = Newest(fb) /\ Targetable(g) = Targetable(fb)
         /\ Opened(g) = Opened(fb) \ {b}
<1>1. CASE IsOpen(fb, b)
  BY <1>1, JumpBuilt DEF JoinIfOpen
<1>2. CASE ~IsOpen(fb, b)
  BY <1>2 DEF JoinIfOpen, Kept, Opened
<1> QED
  BY <1>1, <1>2

\* g has n blocks more.
Grown(fb, n, g) ==
  /\ Newest(g) = Newest(fb) + n /\ All(fb) \subseteq All(g)
  /\ Targetable(g) = Targetable(fb) \cup Newest(fb) + 1 .. Newest(fb) + n
  /\ Opened(g) = Opened(fb) \cup Newest(fb) + 1 .. Newest(fb) + n

LEMMA NewBuilt ==
  ASSUME NEW T, NEW W, NEW fb, Built(T, W, fb), NEW n \in Nat, NEW g, g = NewBlocks(fb, n)
  PROVE  Built(T, W, g) /\ Kept(fb, g) /\ Grown(fb, n, g)
<1>1. PICK more : more = [i \in 1 .. n |-> OpenBlock]
  OBVIOUS
<1>2. PICK m : m = Newest(fb)
  OBVIOUS
<1>3. m = Len(fb.blocks) /\ m \in Nat /\ All(fb) = 1 .. m /\ fb.final \subseteq 1 .. m
  BY <1>2, BuiltType DEF All, Newest
<1>4. g = [fb EXCEPT !.blocks = fb.blocks \o more]
  BY <1>1 DEF NewBlocks
<1>5. g.blocks = fb.blocks \o more /\ Kept(fb, g)
  BY <1>4 DEF Built, Builders, Kept
<1> DEFINE G == Targetable(fb) \cup m + 1 .. m + n
<1>6. OpenBlock \in LoweredBlocks(W, G)
  <2>1. <<>> \in StmtSeqs(W)
    BY DEF StmtSeqs
  <2> QED
    BY <2>1 DEF LoweredBlocks, OpenBlock
<1>7. fb.blocks \in Seq(LoweredBlocks(W, G))
  <2>1. Targetable(fb) \subseteq G
    OBVIOUS
  <2>2. PICK A, C, s : A = LoweredBlocks(W, Targetable(fb)) /\ C = LoweredBlocks(W, G) /\ s = fb.blocks
    OBVIOUS
  <2>3. A \subseteq C
    BY <2>1, <2>2, BlocksWider
  <2>4. s \in Seq(A)
    BY <2>2, BuiltType
  <2>5. s \in Seq(C)
    BY <2>3, <2>4, SeqWider
  <2> QED
    BY <2>2, <2>5
<1>8. more \in Seq(LoweredBlocks(W, G)) /\ Len(more) = n /\ \A i \in 1 .. n : more[i] = OpenBlock
  BY <1>1, <1>6
<1>9. /\ g.blocks \in Seq(LoweredBlocks(W, G)) /\ Len(g.blocks) = m + n
      /\ \A b \in 1 .. m : g.blocks[b] = fb.blocks[b]
      /\ \A b \in m + 1 .. m + n : g.blocks[b] = OpenBlock
  <2>1. PICK A, s : A = LoweredBlocks(W, G) /\ s = fb.blocks
    OBVIOUS
  <2>2. s \in Seq(A) /\ more \in Seq(A) /\ Len(s) = m
    BY <2>1, <1>3, <1>7, <1>8
  <2>3. /\ s \o more \in Seq(A) /\ Len(s \o more) = m + n
        /\ \A b \in 1 .. m : (s \o more)[b] = s[b]
        /\ \A b \in m + 1 .. m + n : (s \o more)[b] = OpenBlock
    BY <1>3, <1>8, <2>2
  <2> QED
    BY <2>1, <2>3, <1>5
<1>10. Newest(g) = m + n /\ All(g) = 1 .. m + n /\ Targetable(g) = G /\ All(fb) \subseteq All(g)
  BY <1>3, <1>5, <1>9 DEF Newest, All, Targetable, Kept
<1>11. g \in Builders(T, W, All(g), G)
  <2>1. fb \in Builders(T, W, All(g), G)
    <3>1. PICK B2, G2 : B2 = All(g) /\ G2 = G
      OBVIOUS
    <3>2. All(fb) \subseteq B2 /\ Targetable(fb) \subseteq G2
      BY <3>1, <1>10
    <3>3. fb \in Builders(T, W, B2, G2)
      BY <3>2, BuildersWider DEF Built
    <3> QED
      BY <3>1, <3>3
  <2>2. fb.blocks \o more \in Seq(LoweredBlocks(W, G))
    BY <1>5, <1>9
  <2> HIDE DEF G
  <2> QED
    BY <2>1, <2>2, <1>4 DEF Builders
<1>12. Opened(g) = Opened(fb) \cup m + 1 .. m + n
  <2>1. \A b \in 1 .. m : IsOpen(g, b) <=> IsOpen(fb, b)
    BY <1>5, <1>9 DEF IsOpen, Kept
  <2>2. \A b \in m + 1 .. m + n : IsOpen(g, b)
    BY <1>3, <1>5, <1>9 DEF IsOpen, Kept, OpenBlock
  <2> QED
    BY <2>1, <2>2, <1>3, <1>10 DEF Opened
<1> QED
  BY <1>2, <1>5, <1>10, <1>11, <1>12 DEF Built, Kept, Grown

\* Blocks and the final ones are as they were.
SameBlocks(fb, g) ==
  /\ g.blocks = fb.blocks /\ g.final = fb.final
  /\ Newest(g) = Newest(fb) /\ All(g) = All(fb) /\ Targetable(g) = Targetable(fb) /\ Opened(g) = Opened(fb)

LEMMA SameBlocksIntro ==
  ASSUME NEW fb, NEW g, g.blocks = fb.blocks, g.final = fb.final
  PROVE  SameBlocks(fb, g)
BY DEF SameBlocks, Newest, All, Targetable, Opened, IsOpen

LEMMA MoveBuilt ==
  ASSUME NEW T, NEW W, NEW fb, Built(T, W, fb), NEW b \in All(fb), NEW g, g = MoveTo(fb, b)
  PROVE  /\ Built(T, W, g) /\ SameBlocks(fb, g) /\ g.cur = b
         /\ g.scopes = fb.scopes /\ g.loops = fb.loops /\ g.used = fb.used /\ g.value = fb.value
         /\ g.todo = fb.todo /\ g.diverged = fb.diverged
<1>1. /\ g.blocks = fb.blocks /\ g.final = fb.final /\ g.cur = b
      /\ g.scopes = fb.scopes /\ g.loops = fb.loops /\ g.used = fb.used /\ g.value = fb.value
      /\ g.todo = fb.todo /\ g.diverged = fb.diverged
  BY DEF Built, Builders, MoveTo
<1>2. SameBlocks(fb, g)
  BY <1>1, SameBlocksIntro
<1>3. g \in Builders(T, W, All(fb), Targetable(fb))
  BY DEF Built, Builders, MoveTo
<1> QED
  BY <1>1, <1>2, <1>3 DEF SameBlocks, Built

LEMMA ValueBuilt ==
  ASSUME NEW T, NEW W, NEW fb, Built(T, W, fb), NEW v, ReadList(W, v),
         NEW g, g = [fb EXCEPT !.value = v]
  PROVE  /\ Built(T, W, g) /\ SameBlocks(fb, g) /\ g.value = v
         /\ g.scopes = fb.scopes /\ g.loops = fb.loops /\ g.used = fb.used /\ g.cur = fb.cur
         /\ g.todo = fb.todo /\ g.diverged = fb.diverged
<1>1. /\ g.blocks = fb.blocks /\ g.final = fb.final /\ g.cur = fb.cur
      /\ g.scopes = fb.scopes /\ g.loops = fb.loops /\ g.used = fb.used /\ g.value = v
      /\ g.todo = fb.todo /\ g.diverged = fb.diverged
  BY DEF Built, Builders
<1>2. SameBlocks(fb, g)
  BY <1>1, SameBlocksIntro
<1>3. g \in Builders(T, W, All(fb), Targetable(fb))
  BY DEF Built, Builders, ReadList, Work
<1> QED
  BY <1>1, <1>2, <1>3 DEF SameBlocks, Built

LEMMA TodoBuilt ==
  ASSUME NEW T, NEW W, NEW fb, Built(T, W, fb), NEW todo, Work(T, W, fb, todo),
         NEW g, g = [fb EXCEPT !.todo = todo]
  PROVE  /\ Built(T, W, g) /\ SameBlocks(fb, g) /\ g.value = fb.value
         /\ g.scopes = fb.scopes /\ g.loops = fb.loops /\ g.used = fb.used /\ g.cur = fb.cur
         /\ g.todo = todo /\ g.diverged = fb.diverged
<1>1. /\ g.blocks = fb.blocks /\ g.final = fb.final /\ g.cur = fb.cur
      /\ g.scopes = fb.scopes /\ g.loops = fb.loops /\ g.used = fb.used /\ g.value = fb.value
      /\ g.todo = todo /\ g.diverged = fb.diverged
  BY DEF Built, Builders
<1>2. SameBlocks(fb, g)
  BY <1>1, SameBlocksIntro
<1>3. g \in Builders(T, W, All(fb), Targetable(fb))
  BY DEF Built, Builders, ReadList, Work
<1> QED
  BY <1>1, <1>2, <1>3 DEF SameBlocks, Built

LEMMA ScopesBuilt ==
  ASSUME NEW T, NEW W, NEW fb, Built(T, W, fb), NEW scopes \in Seq(Seq(Locals)),
         NEW g, g = [fb EXCEPT !.scopes = scopes]
  PROVE  /\ Built(T, W, g) /\ SameBlocks(fb, g) /\ g.value = fb.value
         /\ g.scopes = scopes /\ g.loops = fb.loops /\ g.used = fb.used /\ g.cur = fb.cur
         /\ g.todo = fb.todo /\ g.diverged = fb.diverged
<1>1. /\ g.blocks = fb.blocks /\ g.final = fb.final /\ g.cur = fb.cur
      /\ g.scopes = scopes /\ g.loops = fb.loops /\ g.used = fb.used /\ g.value = fb.value
      /\ g.todo = fb.todo /\ g.diverged = fb.diverged
  BY DEF Built, Builders
<1>2. SameBlocks(fb, g)
  BY <1>1, SameBlocksIntro
<1>3. g \in Builders(T, W, All(fb), Targetable(fb))
  BY DEF Built, Builders
<1> QED
  BY <1>1, <1>2, <1>3 DEF SameBlocks, Built

LEMMA LoopsBuilt ==
  ASSUME NEW T, NEW W, NEW fb, Built(T, W, fb),
         NEW loops, LoopStack(T, fb, loops),
         NEW g, g = [fb EXCEPT !.loops = loops]
  PROVE  /\ Built(T, W, g) /\ SameBlocks(fb, g) /\ g.value = fb.value
         /\ g.scopes = fb.scopes /\ g.loops = loops /\ g.used = fb.used /\ g.cur = fb.cur
         /\ g.todo = fb.todo /\ g.diverged = fb.diverged
<1>1. /\ g.blocks = fb.blocks /\ g.final = fb.final /\ g.cur = fb.cur
      /\ g.scopes = fb.scopes /\ g.loops = loops /\ g.used = fb.used /\ g.value = fb.value
      /\ g.todo = fb.todo /\ g.diverged = fb.diverged
  BY DEF Built, Builders
<1>2. SameBlocks(fb, g)
  BY <1>1, SameBlocksIntro
<1>3. g \in Builders(T, W, All(fb), Targetable(fb))
  BY DEF Built, Builders, LoopStack
<1> QED
  BY <1>1, <1>2, <1>3 DEF SameBlocks, Built

LEMMA TempBuilt ==
  ASSUME NEW T, NEW W, NEW fb, Built(T, W, fb), NEW ty \in TempTypes, NEW g, g = NewTemp(fb, ty)
  PROVE  /\ Built(T, W, g) /\ SameBlocks(fb, g) /\ g.value = fb.value
         /\ g.scopes = fb.scopes /\ g.loops = fb.loops /\ g.cur = fb.cur
         /\ g.todo = fb.todo /\ g.diverged = fb.diverged
         /\ g.used = [fb.used EXCEPT ![ty] = @ + 1]
<1>1. PICK used : used = [fb.used EXCEPT ![ty] = fb.used[ty] + 1]
  OBVIOUS
<1>2. used \in [TempTypes -> Nat]
  <2>1. fb.used \in [TempTypes -> Nat]
    BY BuiltType
  <2>2. fb.used[ty] + 1 \in Nat
    BY <2>1
  <2> QED
    BY <1>1, <2>1, <2>2
<1>3. g = [fb EXCEPT !.used = used]
  BY <1>1 DEF NewTemp
<1>4. /\ g.blocks = fb.blocks /\ g.final = fb.final /\ g.cur = fb.cur
      /\ g.scopes = fb.scopes /\ g.loops = fb.loops /\ g.used = used /\ g.value = fb.value
      /\ g.todo = fb.todo /\ g.diverged = fb.diverged
  BY <1>3 DEF Built, Builders
<1>5. SameBlocks(fb, g)
  BY <1>4, SameBlocksIntro
<1>6. g \in Builders(T, W, All(fb), Targetable(fb))
  BY <1>2, <1>3 DEF Built, Builders
<1> QED
  BY <1>1, <1>4, <1>5, <1>6 DEF SameBlocks, Built

-----------------------------------------------------------------------------
(* What is left to do *)

LEMMA PendingConcat ==
  ASSUME NEW A, NEW s \in Seq(A), NEW t \in Seq(A)
  PROVE  Pending(s \o t) = Pending(s) \cup Pending(t)
<1>1. PICK st : st = s \o t
  OBVIOUS
<1>2. /\ Len(st) = Len(s) + Len(t)
      /\ \A i \in 1 .. Len(s) : st[i] = s[i] /\ i \in 1 .. Len(st)
      /\ \A i \in 1 .. Len(t) : st[Len(s) + i] = t[i] /\ Len(s) + i \in 1 .. Len(st)
      /\ \A i \in 1 .. Len(st) :
           \/ i \in 1 .. Len(s) /\ st[i] = s[i]
           \/ i - Len(s) \in 1 .. Len(t) /\ st[i] = t[i - Len(s)]
  BY <1>1
<1>3. Pending(st) \subseteq Pending(s) \cup Pending(t)
  BY <1>2 DEF Pending
<1>4. Pending(s) \subseteq Pending(st) /\ Pending(t) \subseteq Pending(st)
  BY <1>2 DEF Pending
<1> QED
  BY <1>1, <1>3, <1>4

LEMMA PendingTail ==
  ASSUME NEW A, NEW t \in Seq(A), t # <<>>
  PROVE  Pending(t) = Awaited(Head(t)) \cup Pending(Tail(t))
<1>1. PICK u : u = Tail(t)
  OBVIOUS
<1>2. /\ Len(t) \in Nat /\ Len(t) >= 1 /\ Len(u) = Len(t) - 1 /\ t[1] = Head(t)
      /\ \A i \in 1 .. Len(u) : u[i] = t[i + 1] /\ i + 1 \in 1 .. Len(t)
      /\ \A i \in 1 .. Len(t) : i = 1 \/ (i - 1 \in 1 .. Len(u) /\ t[i] = u[i - 1])
  BY <1>1
<1>3. Pending(t) \subseteq Awaited(t[1]) \cup Pending(u)
  BY <1>2 DEF Pending
<1>4. Pending(u) \subseteq Pending(t) /\ Awaited(t[1]) \subseteq Pending(t)
  BY <1>2 DEF Pending
<1> QED
  BY <1>1, <1>2, <1>3, <1>4

LEMMA DepthsConcat ==
  ASSUME NEW A, NEW s \in Seq(A), NEW t \in Seq(A), NEW n \in Nat, Depths(t, n),
         \A i \in 1 .. Len(s) : s[i].k # "endScope"
  PROVE  Depths(s \o t, n)
<1>1. PICK st, m : st = s \o t /\ m = Len(s)
  OBVIOUS
<1>2. PICK d \in [1 .. Len(t) + 1 -> Nat] :
        /\ d[1] = n
        /\ \A j \in 1 .. Len(t) : d[j] >= d[j + 1] + (IF t[j].k = "endScope" THEN 1 ELSE 0)
  BY DEF Depths
<1>3. /\ m \in Nat /\ Len(t) \in Nat /\ Len(st) = m + Len(t)
      /\ \A i \in 1 .. m : st[i] = s[i]
      /\ \A i \in m + 1 .. Len(st) : st[i] = t[i - m]
  BY <1>1
<1> DEFINE e == [j \in 1 .. Len(st) + 1 |-> IF j <= m THEN n ELSE d[j - m]]
<1>4. e \in [1 .. Len(st) + 1 -> Nat] /\ e[1] = n
  BY <1>2, <1>3
<1>5. ASSUME NEW j \in 1 .. Len(st)
      PROVE  e[j] >= e[j + 1] + (IF st[j].k = "endScope" THEN 1 ELSE 0)
  <2>1. CASE j < m
    <3>1. st[j].k # "endScope"
      BY <2>1, <1>1, <1>3
    <3>2. e[j] = n /\ e[j + 1] = n
      BY <2>1, <1>3
    <3> QED
      BY <3>1, <3>2
  <2>2. CASE j = m
    <3>1. st[j].k # "endScope"
      BY <2>2, <1>1, <1>3
    <3>2. e[j] = n /\ e[j + 1] = n
      BY <2>2, <1>2, <1>3
    <3> QED
      BY <3>1, <3>2
  <2>3. CASE j > m
    <3>1. PICK i : i = j - m
      OBVIOUS
    <3>2. i \in 1 .. Len(t) /\ j = i + m /\ st[j] = t[i]
      BY <2>3, <3>1, <1>3
    <3>3. e[j] = d[i] /\ e[j + 1] = d[i + 1]
      BY <2>3, <3>1, <3>2, <1>3
    <3> QED
      BY <3>2, <3>3, <1>2
  <2> QED
    BY <1>3, <2>1, <2>2, <2>3
<1> HIDE DEF e
<1>6. Depths(st, n)
  BY <1>4, <1>5 DEF Depths
<1> QED
  BY <1>1, <1>6

LEMMA DepthsCons ==
  ASSUME NEW A, NEW t \in Seq(A), NEW i \in A, NEW n \in Nat, Depths(t, n)
  PROVE  Depths(<<i>> \o t, n + 1)
<1>1. PICK st : st = <<i>> \o t
  OBVIOUS
<1>2. PICK d \in [1 .. Len(t) + 1 -> Nat] :
        /\ d[1] = n
        /\ \A j \in 1 .. Len(t) : d[j] >= d[j + 1] + (IF t[j].k = "endScope" THEN 1 ELSE 0)
  BY DEF Depths
<1>3. /\ Len(t) \in Nat /\ Len(st) = 1 + Len(t)
      /\ \A j \in 2 .. Len(st) : st[j] = t[j - 1]
  BY <1>1
<1> DEFINE e == [j \in 1 .. Len(st) + 1 |-> IF j = 1 THEN n + 1 ELSE d[j - 1]]
<1>4. e \in [1 .. Len(st) + 1 -> Nat] /\ e[1] = n + 1
  BY <1>2, <1>3
<1>5. ASSUME NEW j \in 1 .. Len(st)
      PROVE  e[j] >= e[j + 1] + (IF st[j].k = "endScope" THEN 1 ELSE 0)
  <2>1. CASE j = 1
    BY <2>1, <1>2, <1>3
  <2>2. CASE j > 1
    <3>1. PICK m : m = j - 1
      OBVIOUS
    <3>2. m \in 1 .. Len(t) /\ j = m + 1 /\ st[j] = t[m]
      BY <2>2, <3>1, <1>3
    <3>3. e[j] = d[m] /\ e[j + 1] = d[m + 1]
      BY <2>2, <3>1, <3>2, <1>3
    <3> QED
      BY <3>2, <3>3, <1>2
  <2> QED
    BY <1>3, <2>1, <2>2
<1> HIDE DEF e
<1>6. Depths(st, n + 1)
  BY <1>4, <1>5 DEF Depths
<1> QED
  BY <1>1, <1>6

LEMMA DepthsTail ==
  ASSUME NEW A, NEW t \in Seq(A), t # <<>>, NEW n \in Nat, Depths(t, n)
  PROVE  /\ Head(t).k = "endScope" => n >= 1 /\ Depths(Tail(t), n - 1)
         /\ Depths(Tail(t), n)
<1>1. PICK u : u = Tail(t)
  OBVIOUS
<1>2. PICK d \in [1 .. Len(t) + 1 -> Nat] :
        /\ d[1] = n
        /\ \A j \in 1 .. Len(t) : d[j] >= d[j + 1] + (IF t[j].k = "endScope" THEN 1 ELSE 0)
  BY DEF Depths
<1>3. /\ Len(t) \in Nat /\ Len(t) >= 1 /\ Len(u) = Len(t) - 1 /\ t[1] = Head(t)
      /\ \A j \in 1 .. Len(u) : u[j] = t[j + 1]
  BY <1>1
<1>4. ASSUME NEW m \in Nat, m >= d[2] PROVE Depths(u, m)
  <2> DEFINE e == [j \in 1 .. Len(u) + 1 |-> IF j = 1 THEN m ELSE d[j + 1]]
  <2>1. e \in [1 .. Len(u) + 1 -> Nat] /\ e[1] = m
    BY <1>2, <1>3
  <2>2. ASSUME NEW j \in 1 .. Len(u)
        PROVE  e[j] >= e[j + 1] + (IF u[j].k = "endScope" THEN 1 ELSE 0)
    <3>1. j + 1 \in 1 .. Len(t) /\ e[j + 1] = d[j + 2] /\ e[j] >= d[j + 1]
      BY <1>2, <1>3, <1>4
    <3>2. d[j + 1] >= d[j + 2] + (IF t[j + 1].k = "endScope" THEN 1 ELSE 0)
      BY <3>1, <1>2
    <3>3. e[j] \in Nat /\ d[j + 1] \in Nat /\ d[j + 2] \in Nat
      <4>1. j + 1 \in 1 .. Len(t) + 1 /\ j + 2 \in 1 .. Len(t) + 1 /\ j \in 1 .. Len(u) + 1
        BY <1>3
      <4> QED
        BY <4>1, <2>1, <1>2
    <3> QED
      BY <3>1, <3>2, <3>3, <1>3
  <2> HIDE DEF e
  <2> QED
    BY <2>1, <2>2 DEF Depths
<1>5. d[1] \in Nat /\ d[2] \in Nat /\ d[1] >= d[2] + (IF t[1].k = "endScope" THEN 1 ELSE 0)
  BY <1>2, <1>3
<1>6. Depths(u, n)
  BY <1>2, <1>4, <1>5
<1>7. t[1].k = "endScope" => n >= 1 /\ Depths(u, n - 1)
  <2> SUFFICES ASSUME t[1].k = "endScope" PROVE n >= 1 /\ Depths(u, n - 1)
    OBVIOUS
  <2>1. n >= d[2] + 1
    BY <1>2, <1>5
  <2>2. n - 1 \in Nat /\ n - 1 >= d[2] /\ n >= 1
    BY <2>1, <1>5
  <2> QED
    BY <2>2, <1>4
<1> QED
  BY <1>1, <1>3, <1>6, <1>7

-----------------------------------------------------------------------------
(* Steps that keep the invariant *)

LEMMA VarEntries ==
  ASSUME NEW W, NEW l \in Locals
  PROVE  /\ \A op \in {"copy", "move"} : Entry(op, VarPlace(l)) \in ReadEntries(W)
         /\ \A op \in OpKinds \ {"dead"} : Entry(op, VarPlace(l)) \in StmtEntries(W)
         /\ ReadEntries(W) \subseteq StmtEntries(W)
<1>1. VarPlace(l) \in Places /\ VarPlace(l).field = Whole
  BY DEF VarPlace, Places
<1>2. \A op \in OpKinds : /\ Entry(op, VarPlace(l)) \in Entries
                          /\ Entry(op, VarPlace(l)).op = op /\ Entry(op, VarPlace(l)).place = VarPlace(l)
  BY <1>1 DEF Entry, Entries
<1>3. \A op \in OpKinds : Legal(W, Entry(op, VarPlace(l)))
  BY <1>1, <1>2 DEF Legal
<1> QED
  BY <1>2, <1>3 DEF ReadEntries, StmtEntries, OpKinds

LEMMA PlaceEntries ==
  ASSUME NEW W, NEW p \in OwnPlaces, NEW op \in OpKinds \ {"dead"},
         op \in {"move", "write"} /\ p.local \in W => p.field = Whole
  PROVE  /\ Entry(op, p) \in StmtEntries(W)
         /\ op \in {"copy", "move"} => Entry(op, p) \in ReadEntries(W)
<1>1. PICK l \in Locals : p \in PlacesOf(l)
  BY DEF OwnPlaces
<1>2. p.local = l /\ p.field \in FieldsOf[l] \cup {Whole} /\ p \in Places
  BY <1>1, FieldsAssumption DEF PlacesOf, Places
<1>3. Entry(op, p) \in Entries /\ Entry(op, p).op = op /\ Entry(op, p).place = p
  BY <1>2 DEF Entry, Entries
<1>4. Legal(W, Entry(op, p))
  BY <1>2, <1>3 DEF Legal
<1> QED
  BY <1>3, <1>4 DEF StmtEntries, ReadEntries

\* What steps that neither open nor close anything leave alone.
Steady(fb, g) ==
  /\ Newest(g) = Newest(fb) /\ All(g) = All(fb) /\ Targetable(g) = Targetable(fb)
  /\ g.loops = fb.loops /\ g.cur = fb.cur

LEMMA PushInv ==
  ASSUME NEW T, NEW W, NEW fb, LowerInv(T, W, fb), NEW es, StmtList(W, es),
         NEW g, g = PushStmt(fb, es)
  PROVE  LowerInv(T, W, g) /\ Kept(fb, g) /\ Steady(fb, g)
<1>1. /\ Built(T, W, g) /\ Kept(fb, g) /\ Newest(g) = Newest(fb) /\ Targetable(g) = Targetable(fb)
      /\ Opened(g) = Opened(fb)
  BY PushBuilt DEF LowerInv
<1> QED
  BY <1>1 DEF LowerInv, Kept, Steady, All

LEMMA TermInv ==
  ASSUME NEW T, NEW W, NEW fb, LowerInv(T, W, fb), NEW kind \in {"flow", "return"},
         NEW operands, StmtList(W, operands), kind = "return" => ReadList(W, operands),
         NEW succ, Jumps(fb, succ), NEW g, g = SetTerminator(fb, fb.cur, kind, operands, succ)
  PROVE  LowerInv(T, W, g) /\ Kept(fb, g) /\ Steady(fb, g)
<1>1. Built(T, W, fb) /\ fb.cur \in All(fb)
  BY BuiltType DEF LowerInv
<1>2. PICK b : b = fb.cur
  OBVIOUS
<1>3. /\ Built(T, W, g) /\ Kept(fb, g) /\ Newest(g) = Newest(fb) /\ Targetable(g) = Targetable(fb)
      /\ Opened(g) = Opened(fb) \ {b}
  BY <1>1, <1>2, TermBuilt
<1> QED
  BY <1>3 DEF LowerInv, Kept, Steady, All

LEMMA ValueInv ==
  ASSUME NEW T, NEW W, NEW fb, LowerInv(T, W, fb), NEW v, ReadList(W, v),
         NEW g, g = [fb EXCEPT !.value = v]
  PROVE  /\ LowerInv(T, W, g) /\ Steady(fb, g) /\ g.value = v /\ g.used = fb.used
         /\ g.todo = fb.todo /\ g.scopes = fb.scopes
<1>1. Built(T, W, fb)
  BY DEF LowerInv
<1>2. /\ Built(T, W, g) /\ SameBlocks(fb, g) /\ g.value = v
      /\ g.scopes = fb.scopes /\ g.loops = fb.loops /\ g.used = fb.used /\ g.cur = fb.cur
      /\ g.todo = fb.todo
  BY <1>1, ValueBuilt
<1> QED
  BY <1>2 DEF LowerInv, SameBlocks, Steady

LEMMA TempInv ==
  ASSUME NEW T, NEW W, NEW fb, LowerInv(T, W, fb), NEW ty \in TempTypes, NEW g, g = NewTemp(fb, ty)
  PROVE  /\ LowerInv(T, W, g) /\ Steady(fb, g) /\ g.value = fb.value /\ g.used = [fb.used EXCEPT ![ty] = @ + 1]
         /\ g.todo = fb.todo /\ g.scopes = fb.scopes
<1>1. Built(T, W, fb)
  BY DEF LowerInv
<1>2. /\ Built(T, W, g) /\ SameBlocks(fb, g) /\ g.value = fb.value
      /\ g.scopes = fb.scopes /\ g.loops = fb.loops /\ g.cur = fb.cur
      /\ g.todo = fb.todo /\ g.used = [fb.used EXCEPT ![ty] = @ + 1]
  BY <1>1, TempBuilt
<1> QED
  BY <1>2 DEF LowerInv, SameBlocks, Steady

\* Work put in front.
InFront(fb, items, g) ==
  g.todo = items \o fb.todo /\ Pending(g.todo) = Pending(items) \cup Pending(fb.todo)

LEMMA ThenBuilt ==
  ASSUME NEW T, NEW W, NEW fb, Built(T, W, fb), NEW items, Work(T, W, fb, items),
         NEW g, g = Then(fb, items)
  PROVE  /\ Built(T, W, g) /\ SameBlocks(fb, g) /\ g.value = fb.value
         /\ g.scopes = fb.scopes /\ g.loops = fb.loops /\ g.used = fb.used /\ g.cur = fb.cur
         /\ InFront(fb, items, g)
<1>1. PICK I, todo : I = Items(T, W, All(fb), Targetable(fb)) /\ todo = items \o fb.todo
  OBVIOUS
<1>2. fb.todo \in Seq(I) /\ items \in Seq(I)
  BY <1>1, BuiltType DEF Work
<1>3. todo \in Seq(I) /\ Pending(todo) = Pending(items) \cup Pending(fb.todo)
  BY <1>1, <1>2, PendingConcat
<1>4. g = [fb EXCEPT !.todo = todo]
  BY <1>1 DEF Then
<1>5. Work(T, W, fb, todo)
  BY <1>1, <1>3 DEF Work
<1>6. /\ Built(T, W, g) /\ SameBlocks(fb, g) /\ g.value = fb.value
      /\ g.scopes = fb.scopes /\ g.loops = fb.loops /\ g.used = fb.used /\ g.cur = fb.cur
      /\ g.todo = todo
  BY <1>4, <1>5, TodoBuilt
<1> QED
  BY <1>1, <1>3, <1>6 DEF InFront

\* Work none of which ends a scope, and the blocks it goes on in.
Piece(T, W, fb, items, awaited) ==
  /\ Work(T, W, fb, items) /\ Pending(items) = awaited
  /\ \A j \in 1 .. Len(items) : items[j].k # "endScope"

LEMMA PieceConcat ==
  ASSUME NEW T, NEW W, NEW fb, NEW s, NEW A, Piece(T, W, fb, s, A), NEW t, NEW B, Piece(T, W, fb, t, B)
  PROVE  Piece(T, W, fb, s \o t, A \cup B)
<1>1. PICK I : I = Items(T, W, All(fb), Targetable(fb))
  OBVIOUS
<1>2. s \in Seq(I) /\ t \in Seq(I)
  BY <1>1 DEF Piece, Work
<1>3. s \o t \in Seq(I) /\ Pending(s \o t) = Pending(s) \cup Pending(t)
  BY <1>2, PendingConcat
<1>4. \A j \in 1 .. Len(s \o t) : (s \o t)[j].k # "endScope"
  <2>1. PICK st : st = s \o t
    OBVIOUS
  <2>2. \A j \in 1 .. Len(st) : \/ j \in 1 .. Len(s) /\ st[j] = s[j]
                                \/ j - Len(s) \in 1 .. Len(t) /\ st[j] = t[j - Len(s)]
    BY <1>2, <2>1
  <2>3. \A j \in 1 .. Len(st) : st[j].k # "endScope"
    BY <2>2 DEF Piece
  <2> QED
    BY <2>1, <2>3
<1> QED
  BY <1>1, <1>3, <1>4 DEF Piece, Work

LEMMA PieceOne ==
  ASSUME NEW T, NEW W, NEW fb, NEW x \in Items(T, W, All(fb), Targetable(fb)), x.k # "endScope"
  PROVE  Piece(T, W, fb, <<x>>, Awaited(x))
<1>1. PICK I : I = Items(T, W, All(fb), Targetable(fb))
  OBVIOUS
<1>2. <<x>> \in Seq(I) /\ Len(<<x>>) = 1 /\ <<x>>[1] = x
  BY <1>1
<1>3. Pending(<<x>>) = Awaited(x)
  BY <1>2 DEF Pending
<1> QED
  BY <1>1, <1>2, <1>3 DEF Piece, Work

LEMMA PieceTwo ==
  ASSUME NEW T, NEW W, NEW fb, NEW x \in Items(T, W, All(fb), Targetable(fb)), x.k # "endScope",
         NEW y \in Items(T, W, All(fb), Targetable(fb)), y.k # "endScope"
  PROVE  Piece(T, W, fb, <<x, y>>, Awaited(x) \cup Awaited(y))
<1>1. PICK I : I = Items(T, W, All(fb), Targetable(fb))
  OBVIOUS
<1>2. <<x, y>> \in Seq(I) /\ Len(<<x, y>>) = 2 /\ <<x, y>>[1] = x /\ <<x, y>>[2] = y
  BY <1>1
<1>3. Pending(<<x, y>>) = Awaited(x) \cup Awaited(y)
  BY <1>2 DEF Pending
<1>4. \A j \in 1 .. 2 : <<x, y>>[j].k # "endScope"
  BY <1>2
<1> QED
  BY <1>1, <1>2, <1>3, <1>4 DEF Piece, Work

LEMMA PieceNone ==
  ASSUME NEW T, NEW W, NEW fb
  PROVE  Piece(T, W, fb, <<>>, {})
BY DEF Piece, Work, Pending

LEMMA ItemsIntro ==
  ASSUME NEW T, NEW W, NEW B, NEW G
  PROVE  /\ T \subseteq Items(T, W, B, G)
         /\ [k |-> "endScope"] \in Items(T, W, B, G) /\ [k |-> "endLoop"] \in Items(T, W, B, G)
         /\ [k |-> "refer"] \in Items(T, W, B, G)
         /\ \A at \in G, else \in AtMostOne(T), ty \in Types :
              [k |-> "else", at |-> at, else |-> else, ty |-> ty] \in Items(T, W, B, G)
         /\ \A to \in G, next \in G : Join(to, next) \in Items(T, W, B, G)
         /\ \A ty \in TempTypes : [k |-> "receive", ty |-> ty] \in Items(T, W, B, G)
         /\ \A l \in Locals : [k |-> "store", l |-> l] \in Items(T, W, B, G)
BY DEF Items, Join

LEMMA MeetIntro ==
  ASSUME NEW T, NEW W, NEW B, NEW G, NEW at \in B, NEW v, ReadList(W, v), NEW ty \in Types
  PROVE  [k |-> "meet", arm |-> [cur |-> at, value |-> v], ty |-> ty] \in Items(T, W, B, G)
BY DEF Items, ReadList

LEMMA ArgIntro ==
  ASSUME NEW T, NEW W, NEW B, NEW G, NEW left \in Seq(T), NEW v, ReadList(W, v), NEW ty \in Types
  PROVE  [k |-> "arg", left |-> left, operands |-> v, ty |-> ty] \in Items(T, W, B, G)
BY DEF Items, ReadList

LEMMA TreeKinds ==
  ASSUME NEW T, Trees(T), NEW e \in T
  PROVE  e.k # "endScope" /\ Awaited(e) = {}
BY DEF Trees, StmtKinds, ExprKinds, Awaited

LEMMA PieceTree ==
  ASSUME NEW T, Trees(T), NEW W, NEW fb, NEW e \in T
  PROVE  Piece(T, W, fb, <<e>>, {})
BY TreeKinds, PieceOne, ItemsIntro

LEMMA PieceMaybe ==
  ASSUME NEW T, Trees(T), NEW W, NEW fb, NEW o \in AtMostOne(T)
  PROVE  Piece(T, W, fb, o, {})
BY PieceTree, PieceNone DEF AtMostOne

\* A block opened before may be waited for by the new work.
LEMMA PutInFront ==
  ASSUME NEW T, NEW W, NEW fb, Built(T, W, fb), Depths(fb.todo, Len(fb.scopes)),
         NEW items, NEW A, Piece(T, W, fb, items, A),
         Opened(fb) \subseteq (Pending(fb.todo) \cup {fb.cur}) \cup A, NEW g, g = Then(fb, items)
  PROVE  LowerInv(T, W, g) /\ Steady(fb, g) /\ g.value = fb.value /\ g.used = fb.used
<1>1. Built(T, W, fb) /\ Work(T, W, fb, items)
  BY DEF Piece

<1>2. /\ Built(T, W, g) /\ SameBlocks(fb, g) /\ g.value = fb.value
      /\ g.scopes = fb.scopes /\ g.loops = fb.loops /\ g.used = fb.used /\ g.cur = fb.cur
      /\ InFront(fb, items, g)
  BY <1>1, ThenBuilt
<1>3. Depths(g.todo, Len(g.scopes))
  <2>1. PICK I, n, todo : I = Items(T, W, All(fb), Targetable(fb)) /\ n = Len(fb.scopes) /\ todo = fb.todo
    OBVIOUS
  <2>2. items \in Seq(I) /\ todo \in Seq(I)
    BY <1>1, <2>1, BuiltType DEF Work
  <2>3. fb.scopes \in Seq(Seq(Locals)) /\ Depths(todo, n)
    BY <1>1, <2>1, BuiltType
  <2>4. n \in Nat
    BY <2>1, <2>3
  <2>5. Depths(items \o todo, n)
    BY <2>2, <2>3, <2>4, DepthsConcat DEF Piece
  <2> QED
    BY <1>2, <2>1, <2>5 DEF InFront
<1> QED
  BY <1>2, <1>3 DEF LowerInv, SameBlocks, Steady, InFront, Piece

LEMMA ThenInv ==
  ASSUME NEW T, NEW W, NEW fb, LowerInv(T, W, fb), NEW items, NEW A, Piece(T, W, fb, items, A),
         NEW g, g = Then(fb, items)
  PROVE  LowerInv(T, W, g) /\ Steady(fb, g) /\ g.value = fb.value /\ g.used = fb.used
<1>1. Built(T, W, fb) /\ Depths(fb.todo, Len(fb.scopes)) /\ Opened(fb) \subseteq (Pending(fb.todo) \cup {fb.cur}) \cup A
  BY DEF LowerInv
<1> QED
  BY <1>1, PutInFront

LEMMA EmitInv ==
  ASSUME NEW T, NEW W, NEW fb, LowerInv(T, W, fb), NEW operands, StmtList(W, operands),
         NEW g, g = EmitCall(fb, operands)
  PROVE  LowerInv(T, W, g) /\ g.used = fb.used /\ g.value = fb.value /\ g.todo = fb.todo
<1>1. Built(T, W, fb) /\ fb.cur \in All(fb) /\ Newest(fb) \in Nat
  BY BuiltType DEF LowerInv
<1>2. PICK h, m, one : h = NewBlock(fb) /\ m = Newest(fb) + 1 /\ one = 1
  OBVIOUS
<1>3. h = NewBlocks(fb, one) /\ one \in Nat
  BY <1>2 DEF NewBlock
<1>4. Built(T, W, h) /\ Kept(fb, h) /\ Grown(fb, one, h)
  BY <1>1, <1>3, NewBuilt
<1>5. Opened(h) = Opened(fb) \cup {m} /\ m \in Targetable(h) /\ m \in All(h) /\ All(fb) \subseteq All(h)
  BY <1>1, <1>2, <1>4 DEF Targetable, Grown
<1>6. PICK b, kind, succ, t : /\ b = fb.cur /\ kind = "flow" /\ succ = <<m>>
                              /\ t = SetTerminator(h, b, kind, operands, succ)
  OBVIOUS
<1>7. b \in All(h) /\ kind \in {"flow", "return"} /\ Jumps(h, succ)
      /\ (kind = "return" => ReadList(W, operands))
  BY <1>1, <1>5, <1>6 DEF Jumps
<1>8. /\ Built(T, W, t) /\ Kept(h, t) /\ Newest(t) = Newest(h) /\ Targetable(t) = Targetable(h)
      /\ Opened(t) = Opened(h) \ {b}
  BY <1>4, <1>6, <1>7, TermBuilt
<1>9. g = MoveTo(t, m) /\ m \in All(t)
  BY <1>2, <1>5, <1>6, <1>8 DEF EmitCall, All
<1>10. /\ Built(T, W, g) /\ SameBlocks(t, g) /\ g.cur = m
       /\ g.scopes = t.scopes /\ g.loops = t.loops /\ g.used = t.used /\ g.value = t.value
       /\ g.todo = t.todo
  BY <1>8, <1>9, MoveBuilt
<1>11. Opened(g) \subseteq {g.cur} \cup Pending(g.todo)
  BY <1>4, <1>5, <1>6, <1>8, <1>10 DEF LowerInv, Kept, SameBlocks
<1> QED
  BY <1>4, <1>8, <1>10, <1>11 DEF LowerInv, Kept

-----------------------------------------------------------------------------
(* Statements *)

LEMMA RerouteInv ==
  ASSUME NEW T, NEW W, NEW fb, LowerInv(T, W, fb), NEW g, g = Reroute(fb)
  PROVE  LowerInv(T, W, g) /\ g.used = fb.used /\ g.todo = fb.todo /\ g.loops = fb.loops
<1>1. CASE IsOpen(fb, fb.cur)
  BY <1>1 DEF Reroute
<1>2. CASE ~IsOpen(fb, fb.cur)
  <2>1. Built(T, W, fb) /\ Newest(fb) \in Nat
    BY BuiltType DEF LowerInv
  <2>2. PICK h, m, one : h = NewBlock(fb) /\ m = Newest(fb) + 1 /\ one = 1
    OBVIOUS
  <2>3. h = NewBlocks(fb, one) /\ one \in Nat
    BY <2>2 DEF NewBlock
  <2>4. Built(T, W, h) /\ Kept(fb, h) /\ Grown(fb, one, h)
    BY <2>1, <2>3, NewBuilt
  <2>5. m \in All(h) /\ Opened(h) = Opened(fb) \cup {m}
    BY <2>1, <2>2, <2>4 DEF Grown, Targetable
  <2>6. PICK t : t = MoveTo(h, m)
    OBVIOUS
  <2>7. /\ Built(T, W, t) /\ SameBlocks(h, t) /\ t.cur = m
        /\ t.scopes = h.scopes /\ t.loops = h.loops /\ t.used = h.used /\ t.value = h.value
        /\ t.todo = h.todo
    BY <2>4, <2>5, <2>6, MoveBuilt
  <2>8. g = [t EXCEPT !.diverged = TRUE]
    BY <1>2, <2>2, <2>4, <2>6 DEF Reroute, MoveTo, Built, Builders
  <2>9. /\ g.blocks = t.blocks /\ g.final = t.final /\ g.cur = t.cur /\ g.scopes = t.scopes
        /\ g.used = t.used /\ g.todo = t.todo /\ g.loops = t.loops
    BY <2>7, <2>8 DEF Built, Builders
  <2>10. SameBlocks(t, g)
    BY <2>9, SameBlocksIntro
  <2>11. g \in Builders(T, W, All(t), Targetable(t)) /\ 1 \notin g.final
    BY <2>7, <2>8, <2>9 DEF Built, Builders
  <2>12. Built(T, W, g)
    BY <2>10, <2>11 DEF Built, SameBlocks
  <2>13. Opened(g) \subseteq {g.cur} \cup Pending(g.todo)
    BY <1>2, <2>4, <2>5, <2>7, <2>9, <2>10 DEF LowerInv, Kept, SameBlocks, Opened
  <2> QED
    BY <2>4, <2>7, <2>9, <2>12, <2>13 DEF LowerInv, Kept
<1> QED
  BY <1>1, <1>2

LEMMA DeclareLiveInv ==
  ASSUME NEW T, NEW W, NEW fb, LowerInv(T, W, fb), NEW l \in Locals, NEW g, g = DeclareLive(fb, l)
  PROVE  LowerInv(T, W, g)
<1>1. PICK es, h : es = <<Entry("live", VarPlace(l))>> /\ h = PushStmt(fb, es)
  OBVIOUS
<1>2. StmtList(W, es)
  BY <1>1, VarEntries DEF StmtList, OpKinds
<1>3. LowerInv(T, W, h) /\ Kept(fb, h) /\ Steady(fb, h)
  BY <1>1, <1>2, PushInv
<1>4. g = Declare(h, l)
  BY <1>1 DEF DeclareLive
<1>5. CASE h.scopes = <<>>
  BY <1>3, <1>4, <1>5 DEF Declare
<1>6. CASE h.scopes # <<>>
  <2>1. PICK scopes : scopes = [h.scopes EXCEPT ![Len(h.scopes)] = Append(h.scopes[Len(h.scopes)], l)]
    OBVIOUS
  <2>2. h.scopes \in Seq(Seq(Locals))
    BY <1>3, BuiltType DEF LowerInv
  <2>3. scopes \in Seq(Seq(Locals)) /\ Len(scopes) = Len(h.scopes)
    BY <1>6, <2>1, <2>2
  <2>4. g = [h EXCEPT !.scopes = scopes]
    BY <1>4, <1>6, <2>1 DEF Declare
  <2>5. /\ Built(T, W, g) /\ SameBlocks(h, g) /\ g.value = h.value
        /\ g.scopes = scopes /\ g.loops = h.loops /\ g.used = h.used /\ g.cur = h.cur
        /\ g.todo = h.todo
    BY <1>3, <2>3, <2>4, ScopesBuilt DEF LowerInv
  <2> QED
    BY <1>3, <2>3, <2>5 DEF LowerInv, SameBlocks
<1> QED
  BY <1>5, <1>6

LEMMA PushedPlace ==
  ASSUME NEW T, NEW W, NEW fb, LowerInv(T, W, fb), NEW e \in StmtEntries(W), NEW g, g = PushStmt(fb, <<e>>)
  PROVE  LowerInv(T, W, g)
<1>1. PICK es : es = <<e>>
  OBVIOUS
<1>2. StmtList(W, es)
  BY <1>1 DEF StmtList
<1> QED
  BY <1>1, <1>2, PushInv

LEMMA LetInv ==
  ASSUME NEW T, Trees(T), NEW W, NEW fb, LowerInv(T, W, fb), NEW s \in T, s.k = "let"
  PROVE  LowerInv(T, W, LowerLet(fb, s))
<1>1. s.l \in Locals
  BY DEF Trees
<1>2. PICK h : h = DeclareLive(fb, s.l)
  OBVIOUS
<1>3. LowerInv(T, W, h)
  BY <1>1, <1>2, DeclareLiveInv
<1>4. Entry("write", VarPlace(s.l)) \in StmtEntries(W)
  BY <1>1, VarEntries DEF OpKinds
<1>5. LowerInv(T, W, PushStmt(h, <<Entry("write", VarPlace(s.l))>>))
  BY <1>3, <1>4, PushedPlace
<1> QED
  BY <1>2, <1>3, <1>5 DEF LowerLet

LEMMA BindInv ==
  ASSUME NEW T, Trees(T), NEW W, NEW fb, LowerInv(T, W, fb), NEW s \in T, s.k = "bind"
  PROVE  LowerInv(T, W, LowerBind(fb, s))
<1>1. s.l \in Locals /\ s.e \in T
  BY DEF Trees
<1>2. PICK h, store : h = DeclareLive(fb, s.l) /\ store = [k |-> "store", l |-> s.l]
  OBVIOUS
<1>3. LowerInv(T, W, h)
  BY <1>1, <1>2, DeclareLiveInv
<1>4. /\ store \in Items(T, W, All(h), Targetable(h)) /\ store.k # "endScope"
      /\ s.e \in Items(T, W, All(h), Targetable(h)) /\ s.e.k # "endScope"
  BY <1>1, <1>2, ItemsIntro, TreeKinds
<1>5. PICK items, A : Piece(T, W, h, items, A) /\ items = <<s.e, store>>
  BY <1>4, PieceTwo
<1>6. LowerInv(T, W, Then(h, items))
  BY <1>3, <1>5, ThenInv
<1> QED
  BY <1>2, <1>5, <1>6 DEF LowerBind

LEMMA ReturnInv ==
  ASSUME NEW T, Trees(T), NEW W, MovesWhole(T, W), NEW fb, LowerInv(T, W, fb), NEW s \in T, s.k = "return"
  PROVE  LowerInv(T, W, LowerReturn(fb, s))
<1>1. PICK operand, none, kind :
        operand = (IF s.op = "none" THEN <<>> ELSE <<Entry(s.op, s.p)>>) /\ none = <<>> /\ kind = "return"
  OBVIOUS
<1>2. ReadList(W, operand) /\ StmtList(W, operand)
  <2>1. CASE s.op = "none"
    BY <1>1, <2>1 DEF ReadList, StmtList
  <2>2. CASE s.op # "none"
    <3>1. s.op \in {"copy", "move"} /\ s.p \in OwnPlaces
      BY <2>2 DEF Trees
    <3>2. s.op = "move" /\ s.p.local \in W => s.p.field = Whole
      BY DEF MovesWhole
    <3>3. s.op \in OpKinds \ {"dead"} /\ s.op # "write"
      BY <3>1 DEF OpKinds
    <3>4. Entry(s.op, s.p) \in StmtEntries(W) /\ Entry(s.op, s.p) \in ReadEntries(W)
      BY <3>1, <3>2, <3>3, PlaceEntries
    <3> QED
      BY <1>1, <2>2, <3>4 DEF ReadList, StmtList
  <2> QED
    BY <2>1, <2>2
<1>3. StmtList(W, none) /\ ReadList(W, none) /\ kind \in {"flow", "return"}
  BY <1>1 DEF ReadList, StmtList
<1>4. PICK h : h = PushStmt(fb, operand)
  OBVIOUS
<1>5. Jumps(fb, none) /\ Jumps(h, none)
  BY <1>1 DEF Jumps
<1>6. LowerInv(T, W, h) /\ h.cur = fb.cur
  BY <1>2, <1>4, PushInv DEF Kept
<1>7. PICK t, u : /\ t = SetTerminator(fb, fb.cur, kind, operand, none)
                  /\ u = SetTerminator(h, h.cur, kind, none, none)
  OBVIOUS
<1>8. LowerInv(T, W, t)
  BY <1>2, <1>3, <1>5, <1>7, TermInv
<1>9. LowerInv(T, W, u)
  BY <1>3, <1>5, <1>6, <1>7, TermInv
<1> QED
  BY <1>1, <1>4, <1>6, <1>7, <1>8, <1>9 DEF LowerReturn

LEMMA LeaveInv ==
  ASSUME NEW T, NEW W, NEW fb, LowerInv(T, W, fb), NEW label, Targets(fb, label) # {}
  PROVE  /\ LowerInv(T, W, JumpTo(fb, fb.cur, LoopTarget(fb, label).brk))
         /\ LowerInv(T, W, JumpTo(fb, fb.cur, LoopTarget(fb, label).cont))
<1>1. fb.loops \in Seq([label : {s.label : s \in T}, brk : Targetable(fb), cont : Targetable(fb)])
  BY BuiltType DEF LowerInv
<1>2. PICK L, loops, R : /\ L = {s.label : s \in T} /\ loops = fb.loops
                         /\ R = [label : L, brk : Targetable(fb), cont : Targetable(fb)]
  OBVIOUS
<1>3. loops \in Seq(R) /\ Len(loops) \in Nat /\ Targets(fb, label) \subseteq 1 .. Len(loops)
  BY <1>1, <1>2 DEF Targets
<1>4. PICK n \in Targets(fb, label) : \A m \in Targets(fb, label) : m <= n
  BY <1>3, GreatestOf
<1>5. \E x \in Targets(fb, label) : \A y \in Targets(fb, label) : x >= y
  BY <1>3, <1>4
<1>6. Max(Targets(fb, label)) \in Targets(fb, label)
  BY <1>5 DEF Max
<1>7. LoopTarget(fb, label) \in R
  <2>1. PICK k : k = Max(Targets(fb, label))
    OBVIOUS
  <2>2. k \in 1 .. Len(loops)
    BY <2>1, <1>3, <1>6
  <2>3. loops[k] \in R
    BY <2>2, <1>3
  <2> QED
    BY <2>1, <2>3, <1>2 DEF LoopTarget
<1>8. LoopTarget(fb, label).brk \in Targetable(fb) /\ LoopTarget(fb, label).cont \in Targetable(fb)
  BY <1>2, <1>7
<1>9. PICK kind, none : kind = "flow" /\ none = <<>>
  OBVIOUS
<1>10. StmtList(W, none) /\ kind \in {"flow", "return"} /\ (kind = "return" => ReadList(W, none))
  BY <1>9 DEF StmtList
<1>11. ASSUME NEW target \in Targetable(fb) PROVE LowerInv(T, W, JumpTo(fb, fb.cur, target))
  <2>1. PICK succ, g : succ = <<target>> /\ g = SetTerminator(fb, fb.cur, kind, none, succ)
    OBVIOUS
  <2>2. Jumps(fb, succ)
    BY <2>1 DEF Jumps
  <2>3. LowerInv(T, W, g)
    BY <1>10, <2>1, <2>2, TermInv
  <2> QED
    BY <1>9, <2>1, <2>3 DEF JumpTo
<1> QED
  BY <1>8, <1>11

LEMMA ConsumeInv ==
  ASSUME NEW T, Trees(T), NEW W, MovesWhole(T, W), NEW fb, LowerInv(T, W, fb), NEW s \in T, s.k = "consume"
  PROVE  LowerInv(T, W, LowerConsume(fb, s))
<1>1. Entry("move", s.p) \in StmtEntries(W)
  BY PlaceEntries DEF Trees, MovesWhole, OpKinds
<1>2. PICK operands : operands = <<Entry("move", s.p)>>
  OBVIOUS
<1>3. StmtList(W, operands)
  BY <1>1, <1>2 DEF StmtList
<1> QED
  BY <1>2, <1>3, EmitInv DEF LowerConsume

\* Either piece may be empty.
LEMMA Maybe ==
  ASSUME NEW T, NEW o \in AtMostOne(T)
  PROVE  Len(o) \in {0, 1} /\ (o = <<>> <=> Len(o) = 0)
BY DEF AtMostOne

LEMMA JoinItem ==
  ASSUME NEW to, NEW next
  PROVE  Join(to, next).k = "join" /\ Awaited(Join(to, next)) = {next}
BY DEF Join, Awaited

LEMMA TwoFields ==
  ASSUME NEW T, NEW W, NEW B, NEW G, NEW fb \in Builders(T, W, B, G), NEW c, NEW l
  PROVE  [[fb EXCEPT !.cur = c] EXCEPT !.loops = l] = [fb EXCEPT !.cur = c, !.loops = l]
BY DEF Builders

LEMMA WhileInv ==
  ASSUME NEW T, Trees(T), NEW W, NEW fb, LowerInv(T, W, fb), NEW s \in T, s.k = "while"
  PROVE  LowerInv(T, W, LowerWhile(fb, s))
<1>1. s.body \in T /\ s.update \in AtMostOne(T) /\ s.else \in AtMostOne(T)
  BY DEF Trees
<1>2. PICK m, k, exit, natural, next :
        /\ m = Newest(fb) /\ k = 3 + Len(s.else) + Len(s.update) /\ exit = m + 3
        /\ natural = (IF s.else = <<>> THEN exit ELSE exit + 1)
        /\ next = (IF s.update = <<>> THEN m + 1 ELSE natural + 1)
  OBVIOUS
<1>3. Built(T, W, fb) /\ m \in Nat /\ fb.cur \in All(fb)
  BY <1>2, BuiltType DEF LowerInv
<1>4. /\ k \in Nat /\ {m + 1, m + 2, exit, natural, next} \subseteq m + 1 .. m + k
      /\ m + 1 .. m + k \subseteq {m + 1, m + 2, exit, natural, next}
  <2>1. CASE s.else = <<>> /\ s.update = <<>>
    <3>1. k = 3 /\ natural = m + 3 /\ next = m + 1 /\ exit = m + 3
      BY <1>2, <2>1
    <3> QED
      BY <3>1, <1>3
  <2>2. CASE s.else # <<>> /\ s.update = <<>>
    <3>1. Len(s.else) = 1 /\ Len(s.update) = 0
      BY <1>1, <2>2, Maybe
    <3>2. k = 4 /\ natural = m + 4 /\ next = m + 1 /\ exit = m + 3
      BY <1>2, <1>3, <2>2, <3>1
    <3> QED
      BY <3>2, <1>3
  <2>3. CASE s.else = <<>> /\ s.update # <<>>
    <3>1. Len(s.else) = 0 /\ Len(s.update) = 1
      BY <1>1, <2>3, Maybe
    <3>2. k = 4 /\ natural = m + 3 /\ next = m + 4 /\ exit = m + 3
      BY <1>2, <1>3, <2>3, <3>1
    <3> QED
      BY <3>2, <1>3
  <2>4. CASE s.else # <<>> /\ s.update # <<>>
    <3>1. Len(s.else) = 1 /\ Len(s.update) = 1
      BY <1>1, <2>4, Maybe
    <3>2. k = 5 /\ natural = m + 4 /\ next = m + 5 /\ exit = m + 3
      BY <1>2, <1>3, <2>4, <3>1
    <3> QED
      BY <3>2, <1>3
  <2> QED
    BY <2>1, <2>2, <2>3, <2>4
<1>5. PICK created : created = NewBlocks(fb, k)
  OBVIOUS
<1>6. Built(T, W, created) /\ Kept(fb, created) /\ Grown(fb, k, created)
  BY <1>3, <1>4, <1>5, NewBuilt
<1>7. /\ m + 1 .. m + k \subseteq Targetable(created) /\ Targetable(created) \subseteq All(created)
      /\ fb.cur \in All(created) /\ Opened(created) = Opened(fb) \cup m + 1 .. m + k
  BY <1>2, <1>3, <1>6 DEF Grown, Targetable
<1>8. {m + 1, m + 2, exit, natural, next} \subseteq Targetable(created)
  BY <1>4, <1>7
<1>9. PICK c, header, jumped : c = fb.cur /\ header = m + 1 /\ jumped = JumpTo(created, c, header)
  OBVIOUS
<1>10. /\ Built(T, W, jumped) /\ Kept(created, jumped) /\ Newest(jumped) = Newest(created)
       /\ Targetable(jumped) = Targetable(created) /\ Opened(jumped) = Opened(created) \ {c}
  BY <1>6, <1>7, <1>8, <1>9, JumpBuilt
<1>11. PICK kind, none, succ, test :
         /\ kind = "flow" /\ none = <<>> /\ succ = <<header + 1, natural>>
         /\ test = SetTerminator(jumped, header, kind, none, succ)
  OBVIOUS
<1>12. /\ StmtList(W, none) /\ Jumps(jumped, succ) /\ kind \in {"flow", "return"}
       /\ (kind = "return" => ReadList(W, none)) /\ header \in All(jumped)
  <2>1. StmtList(W, none) /\ kind \in {"flow", "return"} /\ (kind = "return" => ReadList(W, none))
    BY <1>11 DEF StmtList
  <2>2. header + 1 = m + 2 /\ header \in All(created) /\ All(jumped) = All(created)
    BY <1>3, <1>7, <1>8, <1>9, <1>10 DEF All
  <2>3. Jumps(jumped, succ)
    BY <1>8, <1>10, <1>11, <2>2 DEF Jumps
  <2> QED
    BY <2>1, <2>2, <2>3
<1>13. /\ Built(T, W, test) /\ Kept(jumped, test) /\ Newest(test) = Newest(jumped)
       /\ Targetable(test) = Targetable(jumped) /\ Opened(test) = Opened(jumped) \ {header}
  BY <1>10, <1>11, <1>12, TermBuilt
<1>14. {m + 1, m + 2, exit, natural, next} \subseteq Targetable(test) /\ m + 2 \in All(test)
  BY <1>8, <1>10, <1>13 DEF Targetable
<1>15. PICK body, moved : body = m + 2 /\ moved = MoveTo(test, body)
  OBVIOUS
<1>16. /\ Built(T, W, moved) /\ SameBlocks(test, moved) /\ moved.cur = body
       /\ moved.scopes = test.scopes /\ moved.loops = test.loops /\ moved.used = test.used /\ moved.value = test.value
       /\ moved.todo = test.todo
  BY <1>13, <1>14, <1>15, MoveBuilt
<1>17. PICK loops, looped : /\ loops = Append(moved.loops, [label |-> s.label, brk |-> exit, cont |-> next])
                            /\ looped = [moved EXCEPT !.loops = loops]
  OBVIOUS
<1>18. LoopStack(T, moved, loops)
  <2>1. PICK L : L = {t.label : t \in T}
    OBVIOUS
  <2>2. moved.loops \in Seq([label : L, brk : Targetable(moved), cont : Targetable(moved)])
    BY <1>16, <2>1, BuiltType
  <2>3. s.label \in L /\ exit \in Targetable(moved) /\ next \in Targetable(moved)
    BY <2>1, <1>14, <1>16 DEF SameBlocks
  <2> QED
    BY <1>17, <2>1, <2>2, <2>3 DEF LoopStack
<1>19. /\ Built(T, W, looped) /\ SameBlocks(moved, looped) /\ looped.value = moved.value
       /\ looped.scopes = moved.scopes /\ looped.loops = loops /\ looped.used = moved.used
       /\ looped.cur = moved.cur /\ looped.todo = moved.todo
  <2>1. looped = [moved EXCEPT !.loops = loops]
    BY <1>17
  <2> QED
    BY <2>1, <1>16, <1>18, LoopsBuilt
<1>20. PICK G, B : G = Targetable(looped) /\ B = All(looped)
  OBVIOUS
<1>21. {m + 1, m + 2, exit, natural, next} \subseteq G
  BY <1>14, <1>16, <1>19, <1>20 DEF SameBlocks
<1>22. PICK first : first = <<s.body, [k |-> "endLoop"]>>
  OBVIOUS
<1>23. PICK A : Piece(T, W, looped, first, A)
  <2>1. /\ s.body \in Items(T, W, B, G) /\ s.body.k # "endScope"
        /\ [k |-> "endLoop"] \in Items(T, W, B, G) /\ [k |-> "endLoop"].k # "endScope"
    BY <1>1, ItemsIntro, TreeKinds
  <2> QED
    BY <1>20, <1>22, <2>1, PieceTwo
<1>24. \A to \in {header, exit, next}, then \in {natural, exit, next} :
         Piece(T, W, looped, <<Join(to, then)>>, {then})
  <2> SUFFICES ASSUME NEW to \in {header, exit, next}, NEW then \in {natural, exit, next}
               PROVE  Piece(T, W, looped, <<Join(to, then)>>, {then})
    OBVIOUS
  <2>1. to \in G /\ then \in G
    BY <1>9, <1>21
  <2>2. Join(to, then) \in Items(T, W, B, G)
    BY <2>1, ItemsIntro
  <2> QED
    <3>1. PICK x : x = Join(to, then)
      OBVIOUS
    <3>2. x \in Items(T, W, All(looped), Targetable(looped)) /\ x.k # "endScope" /\ Awaited(x) = {then}
      BY <1>20, <2>2, <3>1, JoinItem
    <3> QED
      BY <3>1, <3>2, PieceOne
<1>25. PICK update : update = (IF s.update = <<>> THEN <<>> ELSE <<Join(next, next)>> \o s.update)
  OBVIOUS
<1>26. PICK U : Piece(T, W, looped, update, U) /\ (s.update # <<>> => next \in U)
  <2>1. CASE s.update = <<>>
    BY <1>25, <2>1, PieceNone
  <2>2. CASE s.update # <<>>
    <3>1. PICK j : j = <<Join(next, next)>>
      OBVIOUS
    <3>2. Piece(T, W, looped, j, {next}) /\ Piece(T, W, looped, s.update, {})
      BY <1>1, <1>24, <3>1, PieceMaybe
    <3>3. Piece(T, W, looped, j \o s.update, {next} \cup {})
      BY <3>2, PieceConcat
    <3> QED
      BY <1>25, <2>2, <3>1, <3>3
  <2> QED
    BY <2>1, <2>2
<1>27. PICK else : else = (IF s.else = <<>> THEN <<>> ELSE s.else \o <<Join(exit, exit)>>)
  OBVIOUS
<1>28. PICK E : Piece(T, W, looped, else, E) /\ (s.else # <<>> => exit \in E)
  <2>1. CASE s.else = <<>>
    BY <1>27, <2>1, PieceNone
  <2>2. CASE s.else # <<>>
    <3>1. PICK j : j = <<Join(exit, exit)>>
      OBVIOUS
    <3>2. Piece(T, W, looped, j, {exit}) /\ Piece(T, W, looped, s.else, {})
      BY <1>1, <1>24, <3>1, PieceMaybe
    <3>3. Piece(T, W, looped, s.else \o j, {} \cup {exit})
      BY <3>2, PieceConcat
    <3> QED
      BY <1>27, <2>2, <3>1, <3>3
  <2> QED
    BY <2>1, <2>2
<1>29. PICK back : back = <<Join(header, natural)>>
  OBVIOUS
<1>30. Piece(T, W, looped, back, {natural})
  BY <1>24, <1>29
<1>31. PICK i1, i2, items : i1 = first \o update /\ i2 = i1 \o back /\ items = i2 \o else
  OBVIOUS
<1>32. Piece(T, W, looped, i1, A \cup U)
  BY <1>23, <1>26, <1>31, PieceConcat
<1>33. Piece(T, W, looped, i2, (A \cup U) \cup {natural})
  BY <1>30, <1>31, <1>32, PieceConcat
<1>34. PICK I : Piece(T, W, looped, items, I) /\ I = ((A \cup U) \cup {natural}) \cup E
  BY <1>28, <1>31, <1>33, PieceConcat
<1>35. m + 1 .. m + k \subseteq {header, body} \cup I
  <2>1. s.else = <<>> => natural = exit
    BY <1>2
  <2>2. s.update = <<>> => next = header
    BY <1>2, <1>9
  <2> QED
    BY <1>4, <1>9, <1>15, <1>26, <1>28, <1>34, <2>1, <2>2
<1>36. Opened(looped) \subseteq (Pending(fb.todo) \cup {body}) \cup I
  <2>1. Opened(looped) = (Opened(created) \ {c}) \ {header}
    BY <1>10, <1>13, <1>16, <1>19 DEF SameBlocks
  <2> QED
    BY <2>1, <1>7, <1>9, <1>35 DEF LowerInv
<1>37. PICK g : g = Then(looped, items)
  OBVIOUS
<1>38. looped.todo = fb.todo /\ looped.scopes = fb.scopes /\ looped.cur = body
  BY <1>6, <1>10, <1>13, <1>16, <1>19 DEF Kept
<1>39. LowerInv(T, W, g)
  BY <1>19, <1>34, <1>36, <1>37, <1>38, PutInFront DEF LowerInv
<1>40. g = LowerWhile(fb, s)
  <2>1. created = NewBlocks(fb, 3 + Len(s.else) + Len(s.update))
    BY <1>2, <1>5
  <2>2. looped = [test EXCEPT !.cur = header + 1, !.loops = Append(@, [label |-> s.label, brk |-> exit, cont |-> next])]
    <3>1. PICK at : at = header + 1
      OBVIOUS
    <3>2. moved = [test EXCEPT !.cur = at] /\ looped = [moved EXCEPT !.loops = loops]
      BY <1>3, <1>9, <1>15, <1>17, <3>1 DEF MoveTo
    <3>3. looped = [test EXCEPT !.cur = at, !.loops = loops]
      BY <1>13, <3>2, TwoFields DEF Built
    <3>4. loops = Append(test.loops, [label |-> s.label, brk |-> exit, cont |-> next])
      BY <1>16, <1>17
    <3> QED
      BY <3>1, <3>3, <3>4
  <2>3. header = Newest(fb) + 1 /\ exit = header + 2 /\ items = ((first \o update) \o back) \o else
    BY <1>2, <1>3, <1>9, <1>31
  <2> QED
    BY <2>1, <2>2, <2>3, <1>2, <1>9, <1>11, <1>22, <1>25, <1>27, <1>29, <1>37 DEF LowerWhile
<1> QED
  BY <1>39, <1>40

-----------------------------------------------------------------------------
(* Expressions *)

LEMMA OperandInv ==
  ASSUME NEW T, NEW W, NEW fb, LowerInv(T, W, fb), NEW op \in {"copy", "move"}, NEW l \in Locals
  PROVE  LowerInv(T, W, WithValue(fb, op, l))
<1>1. PICK v, g : v = <<Entry(op, VarPlace(l))>> /\ g = [fb EXCEPT !.value = v]
  OBVIOUS
<1>2. ReadList(W, v)
  BY <1>1, VarEntries DEF ReadList
<1>3. LowerInv(T, W, g)
  BY <1>1, <1>2, ValueInv
<1> QED
  BY <1>1, <1>3 DEF WithValue

LEMMA NoValueInv ==
  ASSUME NEW T, NEW W, NEW fb, LowerInv(T, W, fb)
  PROVE  LowerInv(T, W, NoValue(fb))
<1>1. PICK v, g : v = <<>> /\ g = [fb EXCEPT !.value = v]
  OBVIOUS
<1>2. ReadList(W, v)
  BY <1>1 DEF ReadList
<1>3. LowerInv(T, W, g)
  BY <1>1, <1>2, ValueInv
<1> QED
  BY <1>1, <1>3 DEF NoValue

LEMMA PlaceOperandInv ==
  ASSUME NEW T, NEW W, NEW fb, LowerInv(T, W, fb), NEW l \in Locals, NEW ty
  PROVE  LowerInv(T, W, PlaceOperand(fb, l, ty))
BY OperandInv DEF PlaceOperand

LEMMA AssignedList ==
  ASSUME NEW W, NEW v, ReadList(W, v), NEW l \in Locals
  PROVE  StmtList(W, v \o <<Entry("write", VarPlace(l))>>)
<1>1. PICK e : e = Entry("write", VarPlace(l))
  OBVIOUS
<1>2. e \in StmtEntries(W) /\ ReadEntries(W) \subseteq StmtEntries(W)
  BY <1>1, VarEntries DEF OpKinds
<1>3. PICK S : S = StmtEntries(W)
  OBVIOUS
<1>4. v \in Seq(S) /\ e \in S
  BY <1>2, <1>3, SeqWider DEF ReadList
<1>5. v \o <<e>> \in Seq(S)
  BY <1>4
<1> QED
  BY <1>1, <1>3, <1>5 DEF StmtList

LEMMA AssignInv ==
  ASSUME NEW T, NEW W, NEW fb, LowerInv(T, W, fb), NEW l \in Locals
  PROVE  LowerInv(T, W, AssignValue(fb, l))
<1>1. PICK es, g : es = fb.value \o <<Entry("write", VarPlace(l))>> /\ g = PushStmt(fb, es)
  OBVIOUS
<1>2. ReadList(W, fb.value)
  BY BuiltType DEF LowerInv
<1>3. StmtList(W, es)
  BY <1>1, <1>2, AssignedList
<1>4. LowerInv(T, W, g)
  BY <1>1, <1>3, PushInv
<1> QED
  BY <1>1, <1>4 DEF AssignValue

\* No operation but NewTemp changes the count of temporaries.
SameUsed(fb, g) == "used" \in DOMAIN g /\ g.used = fb.used

LEMMA UsedKept ==
  ASSUME NEW fb, "used" \in DOMAIN fb
  PROVE  /\ \A b : SameUsed(fb, MoveTo(fb, b))
         /\ \A v : SameUsed(fb, [fb EXCEPT !.value = v])
         /\ \A b, v : SameUsed(fb, [fb EXCEPT !.cur = b, !.value = v])
         /\ \A es : SameUsed(fb, PushStmt(fb, es))
         /\ \A b, kind, operands, succ : SameUsed(fb, SetTerminator(fb, b, kind, operands, succ))
         /\ \A n : SameUsed(fb, NewBlocks(fb, n))
BY DEF SameUsed, MoveTo, PushStmt, SetTerminator, NewBlocks

LEMMA BuiltUsed ==
  ASSUME NEW T, NEW W, NEW fb, Built(T, W, fb)
  PROVE  "used" \in DOMAIN fb
BY DEF Built, Builders

LEMMA EmitUsed ==
  ASSUME NEW fb, "used" \in DOMAIN fb, NEW operands
  PROVE  SameUsed(fb, EmitCall(fb, operands))
<1>1. PICK h, t : /\ h = NewBlocks(fb, 1)
                  /\ t = SetTerminator(h, fb.cur, "flow", operands, <<Newest(fb) + 1>>)
  OBVIOUS
<1>2. SameUsed(fb, h)
  BY <1>1, UsedKept
<1>3. SameUsed(h, t)
  BY <1>1, <1>2, UsedKept DEF SameUsed
<1>4. SameUsed(t, MoveTo(t, Newest(fb) + 1))
  BY <1>3, UsedKept DEF SameUsed
<1> QED
  BY <1>1, <1>2, <1>3, <1>4 DEF SameUsed, EmitCall, NewBlock

LEMMA AssignUsed ==
  ASSUME NEW fb, "used" \in DOMAIN fb, NEW l
  PROVE  SameUsed(fb, AssignValue(fb, l))
BY UsedKept DEF AssignValue

LEMMA TempLocal ==
  ASSUME NEW T, NEW W, NEW fb, Built(T, W, fb), NEW ty \in TempTypes, NEW h, h = NewTemp(fb, ty),
         NEW g, Named(g), g.used = h.used
  PROVE  NewestTemp(h, ty) \in Locals
<1>1. PICK n : n = fb.used[ty] + 1
  OBVIOUS
<1>2. fb.used \in [TempTypes -> Nat]
  BY DEF Built, Builders
<1>3. h.used[ty] = n /\ n \in Nat \ {0}
  <2>1. h.used = [fb.used EXCEPT ![ty] = @ + 1]
    BY TempBuilt
  <2> QED
    BY <1>1, <1>2, <2>1
<1>4. n <= Len(Temps[ty])
  BY <1>3 DEF Named
<1>5. Temps[ty] \in Seq(Locals)
  BY TempsAssumption
<1>6. Temps[ty][n] \in Locals
  BY <1>3, <1>4, <1>5
<1> QED
  BY <1>3, <1>6 DEF NewestTemp

LEMMA PointToInv ==
  ASSUME NEW T, NEW W, NEW fb, LowerInv(T, W, fb), NEW l \in Locals, Named(PointTo(fb, l))
  PROVE  LowerInv(T, W, PointTo(fb, l))
<1>1. PICK ty, t : ty = "view" /\ t = NewTemp(fb, ty)
  OBVIOUS
<1>2. ty \in TempTypes /\ Built(T, W, fb)
  BY <1>1 DEF TempTypes, LowerInv
<1>3. LowerInv(T, W, t) /\ "used" \in DOMAIN t
  BY <1>1, <1>2, TempInv, BuiltUsed DEF LowerInv
<1>4. PICK p, es, h : /\ p = NewestTemp(t, ty) /\ h = PushStmt(t, es)
                      /\ es = <<Entry("copy", VarPlace(l)), Entry("write", VarPlace(p))>>
  OBVIOUS
<1>5. PointTo(fb, l) = WithValue(h, "move", p)
  BY <1>1, <1>4 DEF PointTo
<1>6. p \in Locals
  <2>1. SameUsed(t, h)
    BY <1>3, <1>4, UsedKept
  <2>2. SameUsed(h, WithValue(h, "move", p))
    BY <2>1, UsedKept DEF SameUsed, WithValue
  <2>3. PICK g : g = WithValue(h, "move", p)
    OBVIOUS
  <2>4. Named(g) /\ g.used = t.used
    BY <1>5, <2>1, <2>2, <2>3 DEF SameUsed
  <2> QED
    BY <1>1, <1>2, <1>4, <2>4, TempLocal
<1>7. StmtList(W, es)
  <2>1. Entry("copy", VarPlace(l)) \in StmtEntries(W) /\ Entry("write", VarPlace(p)) \in StmtEntries(W)
    BY <1>6, VarEntries DEF OpKinds
  <2> QED
    BY <1>4, <2>1 DEF StmtList
<1>8. LowerInv(T, W, h)
  BY <1>3, <1>4, <1>7, PushInv
<1> QED
  BY <1>5, <1>6, <1>8, OperandInv

LEMMA IntoTempInv ==
  ASSUME NEW T, NEW W, NEW fb, LowerInv(T, W, fb), NEW ty \in TempTypes,
         NEW h, h = IntoTemp(fb, ty), NEW g, Named(g), g.used[ty] = h.used[ty]
  PROVE  LowerInv(T, W, h) /\ NewestTemp(h, ty) \in Locals
<1>1. PICK t : t = NewTemp(fb, ty)
  OBVIOUS
<1>2. Built(T, W, fb)
  BY DEF LowerInv
<1>3. LowerInv(T, W, t) /\ "used" \in DOMAIN t
  BY <1>1, <1>2, TempInv, BuiltUsed DEF LowerInv
<1>4. PICK p : p = NewestTemp(t, ty)
  OBVIOUS
<1>5. h = AssignValue(t, p)
  BY <1>1, <1>4 DEF IntoTemp
<1>6. h.used = t.used
  BY <1>3, <1>5, AssignUsed DEF SameUsed
<1>7. p \in Locals
  <2>1. fb.used \in [TempTypes -> Nat]
    BY <1>2 DEF Built, Builders
  <2>2. PICK n : n = fb.used[ty] + 1
    OBVIOUS
  <2>3. t.used[ty] = n /\ n \in Nat \ {0}
    <3>1. t.used = [fb.used EXCEPT ![ty] = @ + 1]
      BY <1>1, <1>2, TempBuilt
    <3> QED
      BY <2>1, <2>2, <3>1
  <2>4. n <= Len(Temps[ty])
    BY <1>6, <2>3 DEF Named
  <2>5. Temps[ty] \in Seq(Locals)
    BY TempsAssumption
  <2>6. Temps[ty][n] \in Locals
    BY <2>3, <2>4, <2>5
  <2> QED
    BY <1>4, <2>3, <2>6 DEF NewestTemp
<1>8. NewestTemp(h, ty) = p
  BY <1>4, <1>6 DEF NewestTemp
<1> QED
  BY <1>3, <1>5, <1>7, <1>8, AssignInv

LEMMA ReceiveInv ==
  ASSUME NEW T, NEW W, NEW fb, LowerInv(T, W, fb), NEW ty \in TempTypes, Named(Receive(fb, ty))
  PROVE  LowerInv(T, W, Receive(fb, ty))
<1>1. PICK h, g : h = IntoTemp(fb, ty) /\ g = Receive(fb, ty)
  OBVIOUS
<1>2. g = PlaceOperand(h, NewestTemp(h, ty), ty)
  BY <1>1 DEF Receive
<1>3. "used" \in DOMAIN h
  <2>1. PICK t : t = NewTemp(fb, ty)
    OBVIOUS
  <2>2. "used" \in DOMAIN t
    BY <2>1, TempInv, BuiltUsed DEF LowerInv
  <2> QED
    BY <1>1, <2>1, <2>2, AssignUsed DEF IntoTemp, SameUsed
<1>4. g.used = h.used
  BY <1>2, <1>3, UsedKept DEF PlaceOperand, WithValue, SameUsed
<1>5. LowerInv(T, W, h) /\ NewestTemp(h, ty) \in Locals
  BY <1>1, <1>4, IntoTempInv
<1> QED
  BY <1>1, <1>2, <1>5, PlaceOperandInv

LEMMA ReferInv ==
  ASSUME NEW T, NEW W, NEW fb, LowerInv(T, W, fb), Named(Refer(fb))
  PROVE  LowerInv(T, W, Refer(fb))
<1>1. PICK h, g, ty, l : h = IntoTemp(fb, ty) /\ g = Refer(fb) /\ ty = "owner" /\ l = NewestTemp(h, ty)
  OBVIOUS
<1>2. g = PointTo(h, l) /\ ty \in TempTypes
  BY <1>1 DEF Refer, TempTypes
<1>3. "used" \in DOMAIN h /\ h.used \in [TempTypes -> Nat]
  <2>1. PICK t : t = NewTemp(fb, ty)
    OBVIOUS
  <2>2. LowerInv(T, W, t)
    BY <1>2, <2>1, TempInv
  <2>3. "used" \in DOMAIN t /\ t.used \in [TempTypes -> Nat]
    BY <2>2, BuiltUsed, BuiltType DEF LowerInv
  <2> QED
    BY <1>1, <2>1, <2>3, AssignUsed DEF IntoTemp, SameUsed
<1>4. g.used[ty] = h.used[ty]
  <2>1. PICK t : t = NewTemp(h, "view")
    OBVIOUS
  <2>2. "used" \in DOMAIN t /\ t.used[ty] = h.used[ty]
    BY <1>1, <1>3, <2>1 DEF NewTemp
  <2>3. PICK p, es, u : /\ p = NewestTemp(t, "view") /\ u = PushStmt(t, es)
                        /\ es = <<Entry("copy", VarPlace(l)), Entry("write", VarPlace(p))>>
    OBVIOUS
  <2>4. g = WithValue(u, "move", p)
    BY <1>2, <2>1, <2>3 DEF PointTo
  <2>5. SameUsed(t, u)
    BY <2>2, <2>3, UsedKept
  <2>6. SameUsed(u, g)
    BY <2>4, <2>5, UsedKept DEF SameUsed, WithValue
  <2> QED
    BY <2>2, <2>5, <2>6 DEF SameUsed
<1>5. LowerInv(T, W, h) /\ l \in Locals
  BY <1>1, <1>2, <1>4, IntoTempInv
<1> QED
  BY <1>1, <1>2, <1>5, PointToInv

LEMMA CallIntoInv ==
  ASSUME NEW T, NEW W, NEW fb, LowerInv(T, W, fb), NEW operands, ReadList(W, operands), NEW ty \in TempTypes,
         Named(CallInto(fb, operands, ty))
  PROVE  LowerInv(T, W, CallInto(fb, operands, ty))
<1>1. PICK t : t = NewTemp(fb, ty)
  OBVIOUS
<1>2. LowerInv(T, W, t) /\ "used" \in DOMAIN t /\ Built(T, W, fb)
  BY <1>1, TempInv, BuiltUsed DEF LowerInv
<1>3. PICK dest, ops, h, g : /\ dest = NewestTemp(t, ty)
                             /\ ops = Append(operands, Entry("write", VarPlace(dest)))
                             /\ h = EmitCall(t, ops) /\ g = CallInto(fb, operands, ty)
  OBVIOUS
<1>4. g = PlaceOperand(h, dest, ty)
  BY <1>1, <1>3 DEF CallInto
<1>5. g.used = t.used
  <2>1. SameUsed(t, h)
    BY <1>2, <1>3, EmitUsed
  <2>2. SameUsed(h, g)
    BY <1>4, <2>1, UsedKept DEF PlaceOperand, WithValue, SameUsed
  <2> QED
    BY <2>1, <2>2 DEF SameUsed
<1>6. dest \in Locals
  BY <1>1, <1>2, <1>3, <1>5, TempLocal
<1>7. StmtList(W, ops)
  <2>1. StmtList(W, operands \o <<Entry("write", VarPlace(dest))>>)
    BY <1>6, AssignedList
  <2>2. PICK S, e : S = ReadEntries(W) \cup {e} /\ e = Entry("write", VarPlace(dest))
    OBVIOUS
  <2>3. operands \in Seq(S) /\ e \in S
    BY <2>2, SeqWider DEF ReadList
  <2>4. Append(operands, e) = operands \o <<e>>
    BY <2>3, AppendIsConcat
  <2> QED
    BY <1>3, <2>1, <2>2, <2>4
<1>8. LowerInv(T, W, h)
  BY <1>2, <1>3, <1>7, EmitInv
<1> QED
  BY <1>3, <1>4, <1>6, <1>8, PlaceOperandInv

LEMMA ArgsInv ==
  ASSUME NEW T, Trees(T), NEW W, NEW fb, LowerInv(T, W, fb), NEW left \in Seq(T),
         NEW operands, ReadList(W, operands), NEW ty \in Types, Named(LowerArgs(fb, left, operands, ty))
  PROVE  LowerInv(T, W, LowerArgs(fb, left, operands, ty))
<1>1. CASE left # <<>>
  <2>1. PICK e, rest : e = Head(left) /\ rest = Tail(left)
    OBVIOUS
  <2>2. e \in T /\ rest \in Seq(T)
    BY <1>1, <2>1
  <2>3. PICK arg : arg = [k |-> "arg", left |-> rest, operands |-> operands, ty |-> ty]
    OBVIOUS
  <2>4. /\ arg \in Items(T, W, All(fb), Targetable(fb)) /\ arg.k # "endScope"
        /\ e \in Items(T, W, All(fb), Targetable(fb)) /\ e.k # "endScope"
    BY <2>2, <2>3, ItemsIntro, ArgIntro, TreeKinds
  <2>5. PICK items, A : Piece(T, W, fb, items, A) /\ items = <<e, arg>>
    BY <2>4, PieceTwo
  <2>6. LowerInv(T, W, Then(fb, items))
    BY <2>5, ThenInv
  <2> QED
    BY <1>1, <2>1, <2>3, <2>5, <2>6 DEF LowerArgs
<1>2. CASE left = <<>> /\ ty = "plain"
  <2>1. StmtList(W, operands)
    BY VarEntries, SeqWider DEF ReadList, StmtList, ReadEntries, StmtEntries
  <2>2. LowerInv(T, W, EmitCall(fb, operands))
    BY <2>1, EmitInv
  <2> QED
    BY <1>2, <2>2, NoValueInv DEF LowerArgs
<1>3. CASE left = <<>> /\ ty # "plain"
  BY <1>3, CallIntoInv DEF LowerArgs, Types
<1> QED
  BY <1>1, <1>2, <1>3

LEMMA RefInv ==
  ASSUME NEW T, Trees(T), NEW W, NEW fb, LowerInv(T, W, fb), NEW e \in T, e.k = "ref", Named(LowerRef(fb, e))
  PROVE  LowerInv(T, W, LowerRef(fb, e))
<1>1. e.e \in T
  BY DEF Trees
<1>2. CASE e.e.k = "var"
  <2>1. e.e.l \in Locals
    BY <1>1, <1>2 DEF Trees
  <2> QED
    BY <1>2, <2>1, PointToInv DEF LowerRef
<1>3. CASE e.e.k # "var"
  <2>1. PICK x, refer : x = e.e /\ refer = [k |-> "refer"]
    OBVIOUS
  <2>2. /\ x \in Items(T, W, All(fb), Targetable(fb)) /\ x.k # "endScope"
        /\ refer \in Items(T, W, All(fb), Targetable(fb)) /\ refer.k # "endScope"
    BY <1>1, <2>1, ItemsIntro, TreeKinds
  <2>3. PICK items, A : Piece(T, W, fb, items, A) /\ items = <<x, refer>>
    BY <2>2, PieceTwo
  <2>4. LowerInv(T, W, Then(fb, items))
    BY <2>3, ThenInv
  <2> QED
    BY <1>3, <2>1, <2>3, <2>4 DEF LowerRef
<1> QED
  BY <1>2, <1>3

LEMMA RecvInv ==
  ASSUME NEW T, Trees(T), NEW W, NEW fb, LowerInv(T, W, fb), NEW e \in T, e.k = "recv"
  PROVE  LowerInv(T, W, LowerRecv(fb, e))
<1>1. e.e \in T /\ e.ty \in TempTypes
  BY DEF Trees
<1>2. CASE e.e.k = "var"
  <2>1. e.e.l \in Locals
    BY <1>1, <1>2 DEF Trees
  <2> QED
    BY <1>2, <2>1, PlaceOperandInv DEF LowerRecv
<1>3. CASE e.e.k # "var"
  <2>1. PICK x, receive : x = e.e /\ receive = [k |-> "receive", ty |-> e.ty]
    OBVIOUS
  <2>2. /\ x \in Items(T, W, All(fb), Targetable(fb)) /\ x.k # "endScope"
        /\ receive \in Items(T, W, All(fb), Targetable(fb)) /\ receive.k # "endScope"
    BY <1>1, <2>1, ItemsIntro, TreeKinds
  <2>3. PICK items, A : Piece(T, W, fb, items, A) /\ items = <<x, receive>>
    BY <2>2, PieceTwo
  <2>4. LowerInv(T, W, Then(fb, items))
    BY <2>3, ThenInv
  <2> QED
    BY <1>3, <2>1, <2>3, <2>4 DEF LowerRecv
<1> QED
  BY <1>2, <1>3

LEMMA BlockInv ==
  ASSUME NEW T, Trees(T), NEW W, NEW fb, LowerInv(T, W, fb), NEW e \in T, e.k = "block"
  PROVE  LowerInv(T, W, LowerBlock(fb, e))
<1>1. e.body \in Seq(T) /\ Built(T, W, fb)
  BY DEF Trees, LowerInv
<1>2. PICK scopes, end, n, body : /\ scopes = Append(fb.scopes, <<>>)
                                  /\ end = [k |-> "endScope"] /\ n = Len(fb.scopes) /\ body = e.body
  OBVIOUS
<1>0. PICK h : h = [fb EXCEPT !.scopes = scopes]
  OBVIOUS
<1>3. fb.scopes \in Seq(Seq(Locals))
  BY <1>1, BuiltType
<1>4. scopes \in Seq(Seq(Locals)) /\ Len(scopes) = n + 1 /\ n \in Nat
  BY <1>2, <1>3
<1>5. /\ Built(T, W, h) /\ SameBlocks(fb, h) /\ h.value = fb.value
      /\ h.scopes = scopes /\ h.loops = fb.loops /\ h.used = fb.used /\ h.cur = fb.cur
      /\ h.todo = fb.todo
  BY <1>1, <1>0, <1>4, ScopesBuilt
<1>6. PICK I, todo, items : I = Items(T, W, All(h), Targetable(h)) /\ todo = h.todo /\ items = Append(body, end)
  OBVIOUS
<1>7. todo \in Seq(I) /\ body \in Seq(I) /\ end \in I
  <2>1. Work(T, W, h, h.todo)
    BY <1>5, BuiltType
  <2>2. T \subseteq I /\ end \in I
    BY <1>2, <1>6, ItemsIntro
  <2>3. todo \in Seq(I)
    BY <1>6, <2>1 DEF Work
  <2>4. body \in Seq(I)
    BY <1>1, <1>2, <2>2, SeqWider
  <2> QED
    BY <2>2, <2>3, <2>4
<1>8. items \in Seq(I) /\ Len(items) = Len(body) + 1
  BY <1>6, <1>7
<1>9. PICK g : g = Then(h, items)
  OBVIOUS
<1>10. Work(T, W, h, items)
  BY <1>6, <1>8 DEF Work
<1>11. /\ Built(T, W, g) /\ SameBlocks(h, g) /\ g.value = h.value
       /\ g.scopes = h.scopes /\ g.loops = h.loops /\ g.used = h.used /\ g.cur = h.cur
       /\ InFront(h, items, g)
  BY <1>5, <1>9, <1>10, ThenBuilt
<1>12. Depths(g.todo, n + 1)
  <2>1. Depths(todo, n)
    BY <1>2, <1>5, <1>6 DEF LowerInv
  <2>2. PICK ended : ended = <<end>> \o todo
    OBVIOUS
  <2>3. Depths(ended, n + 1) /\ ended \in Seq(I)
    <3>1. Depths(<<end>> \o todo, n + 1)
      BY <1>4, <1>7, <2>1, DepthsCons
    <3> QED
      BY <1>7, <2>2, <3>1
  <2>4. \A j \in 1 .. Len(body) : body[j].k # "endScope"
    <3>1. \A j \in 1 .. Len(body) : body[j] \in T
      BY <1>1, <1>2
    <3> QED
      BY <3>1, TreeKinds
  <2>5. PICK m : m = n + 1
    OBVIOUS
  <2>6. Depths(body \o ended, m)
    BY <1>4, <1>7, <2>3, <2>4, <2>5, DepthsConcat
  <2>7. items \o todo = body \o ended
    <3>1. items = body \o <<end>>
      BY <1>6, <1>7, AppendIsConcat
    <3>2. PICK one : one = <<end>>
      OBVIOUS
    <3>3. one \in Seq(I)
      BY <1>7, <3>2
    <3>4. (body \o one) \o todo = body \o (one \o todo)
      BY <1>7, <3>3, ConcatAssociative
    <3> QED
      BY <2>2, <3>1, <3>2, <3>4
  <2> QED
    BY <1>6, <1>11, <2>5, <2>6, <2>7 DEF InFront
<1>13. LowerInv(T, W, g)
  BY <1>4, <1>5, <1>11, <1>12 DEF LowerInv, SameBlocks, InFront
<1>14. g = LowerBlock(fb, e)
  BY <1>2, <1>0, <1>6, <1>9 DEF LowerBlock
<1> QED
  BY <1>13, <1>14

LEMMA IfInv ==
  ASSUME NEW T, Trees(T), NEW W, NEW fb, LowerInv(T, W, fb), NEW e \in T, e.k = "if"
  PROVE  LowerInv(T, W, LowerIf(fb, e))
<1>1. e.then \in T /\ e.else \in AtMostOne(T) /\ e.ty \in Types
  BY DEF Trees, Types
<1>2. Built(T, W, fb) /\ Newest(fb) \in Nat /\ fb.cur \in All(fb)
  BY BuiltType DEF LowerInv
<1>3. PICK m, two, h, c : m = Newest(fb) /\ two = 2 /\ h = NewBlocks(fb, two) /\ c = fb.cur
  OBVIOUS
<1>4. Built(T, W, h) /\ Kept(fb, h) /\ Grown(fb, two, h)
  BY <1>2, <1>3, NewBuilt
<1>5. /\ m + 1 \in Targetable(h) /\ m + 2 \in Targetable(h) /\ c \in All(h) /\ m + 1 \in All(h)
      /\ Opened(h) = Opened(fb) \cup {m + 1, m + 2}
  BY <1>2, <1>3, <1>4 DEF Grown, Targetable
<1>6. PICK kind, none, succ, t : /\ kind = "flow" /\ none = <<>> /\ succ = <<m + 1, m + 2>>
                                 /\ t = SetTerminator(h, c, kind, none, succ)
  OBVIOUS
<1>7. /\ StmtList(W, none) /\ kind \in {"flow", "return"} /\ (kind = "return" => ReadList(W, none))
      /\ Jumps(h, succ)
  BY <1>5, <1>6 DEF StmtList, Jumps
<1>8. /\ Built(T, W, t) /\ Kept(h, t) /\ Newest(t) = Newest(h) /\ Targetable(t) = Targetable(h)
      /\ Opened(t) = Opened(h) \ {c}
  BY <1>4, <1>5, <1>6, <1>7, TermBuilt
<1>9. t = Split(fb)
  BY <1>3, <1>6 DEF Split
<1>10. PICK b, u : b = m + 1 /\ u = MoveTo(t, b)
  OBVIOUS
<1>11. b \in All(t)
  BY <1>5, <1>8, <1>10 DEF All
<1>12. /\ Built(T, W, u) /\ SameBlocks(t, u) /\ u.cur = b
       /\ u.scopes = t.scopes /\ u.loops = t.loops /\ u.used = t.used /\ u.value = t.value
       /\ u.todo = t.todo
  BY <1>8, <1>10, <1>11, MoveBuilt
<1>13. PICK x, y : x = e.then /\ y = [k |-> "else", at |-> m + 2, else |-> e.else, ty |-> e.ty]
  OBVIOUS
<1>14. /\ x \in Items(T, W, All(u), Targetable(u)) /\ x.k # "endScope"
       /\ y \in Items(T, W, All(u), Targetable(u)) /\ y.k # "endScope" /\ Awaited(y) = {m + 2}
  <2>1. m + 2 \in Targetable(u)
    BY <1>5, <1>8, <1>12 DEF SameBlocks
  <2>2. y \in Items(T, W, All(u), Targetable(u))
    BY <1>1, <1>13, <2>1, ItemsIntro
  <2>3. y.k = "else" /\ y.at = m + 2
    BY <1>13
  <2>4. Awaited(y) = {m + 2}
    BY <2>3 DEF Awaited
  <2> QED
    BY <1>1, <1>13, <2>2, <2>3, <2>4, ItemsIntro, TreeKinds
<1>15. PICK items, A : Piece(T, W, u, items, A) /\ items = <<x, y>> /\ A = Awaited(x) \cup Awaited(y)
  BY <1>14, PieceTwo
<1>16. Opened(u) \subseteq (Pending(u.todo) \cup {u.cur}) \cup A
  BY <1>3, <1>4, <1>5, <1>8, <1>10, <1>12, <1>14, <1>15 DEF LowerInv, Kept, SameBlocks
<1>17. PICK g : g = Then(u, items)
  OBVIOUS
<1>18. Depths(u.todo, Len(u.scopes))
  BY <1>4, <1>8, <1>12 DEF LowerInv, Kept
<1>19. LowerInv(T, W, g)
  BY <1>12, <1>15, <1>16, <1>17, <1>18, PutInFront
<1> QED
  BY <1>3, <1>9, <1>10, <1>13, <1>15, <1>17, <1>19 DEF LowerIf

LEMMA AbortInv ==
  ASSUME NEW T, NEW W, NEW fb, LowerInv(T, W, fb)
  PROVE  LowerInv(T, W, LowerAbort(fb))
<1>1. PICK g, m, G, c : g = LowerAbort(fb) /\ m = Newest(fb) /\ G = Targetable(fb) /\ c = fb.cur
  OBVIOUS
<1>2. /\ Built(T, W, fb) /\ m \in Nat /\ c \in 1 .. m /\ fb.final \subseteq 1 .. m /\ 1 \notin fb.final
      /\ m = Len(fb.blocks) /\ G \subseteq 1 .. m
  BY <1>1, BuiltType DEF LowerInv, All, Newest, Targetable
<1>3. PICK old, new : /\ old = fb.blocks
                      /\ new = [old[c] EXCEPT !.operands = <<>>, !.succ = <<>>, !.kind = "flow"]
  OBVIOUS
<1>4. old \in Seq(LoweredBlocks(W, G)) /\ Len(old) = m
  BY <1>1, <1>2, <1>3, BuiltType
<1>5. PICK more, blocks : /\ more = [i \in 1 .. 1 |-> OpenBlock]
                          /\ blocks = [old \o more EXCEPT
                                         ![c] = [@ EXCEPT !.operands = <<>>, !.succ = <<>>, !.kind = "flow"]]
  OBVIOUS
<1>6. g = [fb EXCEPT !.blocks = blocks, !.cur = m + 1, !.final = fb.final \cup {m + 1}, !.value = <<>>]
  <2>1. PICK h, t : h = NewBlock(fb) /\ t = SetTerminator(h, c, "flow", <<>>, <<>>)
    OBVIOUS
  <2>2. h = [fb EXCEPT !.blocks = old \o more]
    BY <1>3, <1>5, <2>1 DEF NewBlock, NewBlocks
  <2>3. h.blocks = old \o more /\ h.final = fb.final
    BY <1>2, <2>2 DEF Built, Builders
  <2>4. t = [h EXCEPT !.blocks = blocks]
    BY <1>5, <2>1, <2>3 DEF SetTerminator
  <2>5. t = [fb EXCEPT !.blocks = blocks]
    BY <1>2, <2>2, <2>4 DEF Built, Builders
  <2>6. g = [t EXCEPT !.cur = m + 1, !.final = @ \cup {m + 1}, !.value = <<>>]
    BY <1>1, <2>1 DEF LowerAbort
  <2> QED
    BY <1>2, <2>5, <2>6 DEF Built, Builders
<1>7. OpenBlock \in LoweredBlocks(W, G)
  <2>1. <<>> \in StmtSeqs(W)
    BY DEF StmtSeqs
  <2> QED
    BY <2>1 DEF LoweredBlocks, OpenBlock
<1>8. new \in LoweredBlocks(W, G) /\ new.kind = "flow"
  <2>1. PICK o : o = old[c]
    OBVIOUS
  <2>2. o \in LoweredBlocks(W, G)
    BY <1>2, <1>4, <2>1
  <2>3. PICK none, kind : none = <<>> /\ kind = "flow"
    OBVIOUS
  <2>4. new = [o EXCEPT !.operands = none, !.succ = none, !.kind = kind]
    BY <1>3, <2>1, <2>3
  <2>5. none \in Seq(StmtEntries(W)) /\ none \in Seq(G) /\ kind \in {"flow", "return", "unreachable"} /\ kind # "return"
    BY <2>3
  <2>6. new \in LoweredBlocks(W, G) /\ new.kind = kind
    BY <2>2, <2>4, <2>5 DEF LoweredBlocks
  <2> QED
    BY <2>3, <2>6
<1>9. /\ blocks \in Seq(LoweredBlocks(W, G)) /\ Len(blocks) = m + 1
      /\ blocks[c] = new /\ \A b \in 1 .. m : b # c => blocks[b] = old[b]
  <2>1. PICK A, st : A = LoweredBlocks(W, G) /\ st = old \o more
    OBVIOUS
  <2>2. old \in Seq(A) /\ Len(more) = 1 /\ more \in Seq(A) /\ more[1] = OpenBlock
    BY <1>4, <1>5, <1>7, <2>1
  <2>3. /\ st \in Seq(A) /\ Len(st) = m + 1 /\ \A b \in 1 .. m : st[b] = old[b]
    <3>1. /\ old \o more \in Seq(A) /\ Len(old \o more) = Len(old) + Len(more)
          /\ \A i \in 1 .. Len(old) : (old \o more)[i] = old[i]
      BY <2>2, ConcatAt
    <3>2. Len(old) = m /\ Len(more) = 1
      BY <1>4, <2>2
    <3> QED
      BY <2>1, <3>1, <3>2
  <2>4. blocks = [st EXCEPT ![c] = new]
    BY <1>2, <1>3, <1>5, <2>1, <2>3
  <2>5. new \in A
    BY <1>8, <2>1
  <2>6. /\ blocks \in Seq(A) /\ Len(blocks) = m + 1
        /\ blocks[c] = new /\ \A b \in 1 .. m : b # c => blocks[b] = old[b]
    BY <1>2, <2>3, <2>4, <2>5
  <2> QED
    BY <2>1, <2>6
<1>10. /\ g.blocks = blocks /\ g.cur = m + 1 /\ g.final = fb.final \cup {m + 1} /\ g.value = <<>>
       /\ g.scopes = fb.scopes /\ g.todo = fb.todo
  BY <1>2, <1>6 DEF Built, Builders
<1>11. All(g) = 1 .. m + 1 /\ Targetable(g) = G /\ All(fb) \subseteq All(g)
  BY <1>1, <1>2, <1>9, <1>10 DEF All, Targetable, Newest
<1>12. g \in Builders(T, W, All(g), G)
  <2>1. fb \in Builders(T, W, All(g), G)
    <3>1. PICK B2, G2 : B2 = All(g) /\ G2 = G
      OBVIOUS
    <3>2. All(fb) \subseteq B2 /\ Targetable(fb) \subseteq G2
      BY <3>1, <1>1, <1>11
    <3>3. fb \in Builders(T, W, B2, G2)
      BY <1>2, <3>2, BuildersWider DEF Built
    <3> QED
      BY <3>1, <3>3
  <2>2. m + 1 \in All(g) /\ fb.final \cup {m + 1} \subseteq All(g)
    BY <1>2, <1>11
  <2> QED
    <3>1. PICK at, F, v, B : at = m + 1 /\ F = fb.final \cup {m + 1} /\ v = <<>> /\ B = All(g)
      OBVIOUS
    <3>2. fb \in Builders(T, W, B, G) /\ at \in B /\ F \in SUBSET B /\ v \in Seq(ReadEntries(W))
      BY <2>1, <2>2, <3>1
    <3>3. g = [fb EXCEPT !.blocks = blocks, !.cur = at, !.final = F, !.value = v]
      BY <1>6, <3>1
    <3>4. g \in Builders(T, W, B, G)
      BY <1>9, <3>2, <3>3 DEF Builders
    <3> QED
      BY <3>1, <3>4
<1>13. Opened(g) \subseteq Opened(fb) \ {c}
  <2>1. \A b \in 1 .. m + 1 : IsOpen(g, b) => b \in 1 .. m /\ IsOpen(fb, b) /\ b # c
    <3> SUFFICES ASSUME NEW b \in 1 .. m + 1, IsOpen(g, b) PROVE b \in 1 .. m /\ IsOpen(fb, b) /\ b # c
      OBVIOUS
    <3>1. b \notin fb.final \cup {m + 1} /\ blocks[b].kind = "unreachable"
      BY <1>10 DEF IsOpen
    <3>2. b \in 1 .. m /\ b # c
      BY <1>2, <1>8, <1>9, <3>1
    <3> QED
      BY <1>3, <1>9, <3>1, <3>2 DEF IsOpen
  <2> QED
    BY <1>1, <1>11, <2>1 DEF Opened, All
<1>14. Opened(g) \subseteq {g.cur} \cup Pending(g.todo)
  BY <1>1, <1>10, <1>13 DEF LowerInv
<1>15. 1 \notin g.final
  BY <1>2, <1>10
<1> QED
  BY <1>1, <1>10, <1>11, <1>12, <1>14, <1>15 DEF LowerInv, Built

-----------------------------------------------------------------------------
(* What follows a subtree *)

\* A StorageDead for each local of a scope.
DeadOf(locals, n) == [i \in DOMAIN locals |-> [op |-> "dead", place |-> VarPlace(locals[i]), stmt |-> n + i]]

LEMMA DeadFacts ==
  ASSUME NEW W, NEW s \in StmtSeqs(W), NEW locals \in Seq(Locals)
  PROVE  s \o DeadOf(locals, Len(s)) \in StmtSeqs(W)
<1>1. PICK n, t : n = Len(s) /\ t = DeadOf(locals, n)
  OBVIOUS
<1>2. n \in Nat /\ Len(locals) \in Nat
  BY <1>1 DEF StmtSeqs
<1>3. t = [i \in 1 .. Len(locals) |-> [op |-> "dead", place |-> VarPlace(locals[i]), stmt |-> n + i]]
  BY <1>1 DEF DeadOf
<1>4. ASSUME NEW i \in 1 .. Len(locals)
      PROVE  /\ t[i] \in Entries /\ Legal(W, t[i])
             /\ t[i].op = "dead" /\ t[i].stmt = n + i
  <2>1. VarPlace(locals[i]) \in Places /\ VarPlace(locals[i]).field = Whole
    BY DEF VarPlace, Places
  <2>2. t[i] = [op |-> "dead", place |-> VarPlace(locals[i]), stmt |-> n + i]
    BY <1>3
  <2> QED
    BY <1>2, <2>1, <2>2 DEF Entries, OpKinds, Legal
<1>5. t \in Seq(Entries) /\ Len(t) = Len(locals)
  <2>1. t \in [1 .. Len(locals) -> Entries]
    BY <1>3, <1>4
  <2> QED
    BY <1>2, <2>1
<1>6. \A i \in 1 .. Len(t) : /\ Legal(W, t[i]) /\ t[i].stmt \in n + 1 .. n + i
                             /\ t[i].op = "dead" => t[i].stmt = n + i
                             /\ \A j \in 1 .. i : t[j].stmt <= t[i].stmt
  <2> SUFFICES ASSUME NEW i \in 1 .. Len(locals)
               PROVE  /\ Legal(W, t[i]) /\ t[i].stmt \in n + 1 .. n + i
                      /\ t[i].op = "dead" => t[i].stmt = n + i
                      /\ \A j \in 1 .. i : t[j].stmt <= t[i].stmt
    BY <1>5
  <2>1. n + i \in n + 1 .. n + i /\ \A j \in 1 .. i : j \in 1 .. Len(locals) /\ n + j <= n + i
    BY <1>2
  <2>2. \A j \in 1 .. i : t[j].stmt <= t[i].stmt
    BY <1>4, <2>1
  <2> QED
    BY <1>4, <2>1, <2>2
<1> QED
  BY <1>1, <1>5, <1>6, Extended

LEMMA EndScopeInv ==
  ASSUME NEW T, NEW W, NEW fb, Built(T, W, fb), Opened(fb) \subseteq {fb.cur} \cup Pending(fb.todo),
         Len(fb.scopes) >= 1, Depths(fb.todo, Len(fb.scopes) - 1)
  PROVE  LowerInv(T, W, EndScope(fb))
<1>1. /\ fb.scopes \in Seq(Seq(Locals)) /\ fb.cur \in All(fb) /\ Len(fb.blocks) \in Nat
      /\ fb.blocks[fb.cur] \in LoweredBlocks(W, Targetable(fb))
      /\ fb.blocks \in Seq(LoweredBlocks(W, Targetable(fb)))
  BY BuiltType
<1>2. PICK scopes, locals, front, c, old, A :
        /\ scopes = fb.scopes /\ locals = Reverse(Last(fb.scopes)) /\ front = Front(fb.scopes)
        /\ c = fb.cur /\ old = fb.blocks[fb.cur] /\ A = LoweredBlocks(W, Targetable(fb))
  OBVIOUS
<1>3. locals \in Seq(Locals) /\ front \in Seq(Seq(Locals)) /\ Len(front) = Len(scopes) - 1
  <2>1. PICK last : last = scopes[Len(scopes)]
    OBVIOUS
  <2>2. last \in Seq(Locals)
    BY <1>1, <1>2, <2>1
  <2>3. locals \in [1 .. Len(last) -> Locals] /\ Len(last) \in Nat
    <3>1. locals = [i \in 1 .. Len(last) |-> last[(Len(last) - i) + 1]]
      BY <1>2, <2>1 DEF Reverse, Last
    <3> QED
      BY <2>2, <3>1
  <2>4. locals \in Seq(Locals)
    BY <2>3
  <2>5. front \in Seq(Seq(Locals)) /\ Len(front) = Len(scopes) - 1
    BY <1>1, <1>2 DEF Front
  <2> QED
    BY <2>4, <2>5
<1>4. PICK stmts : stmts = old.stmts \o DeadOf(locals, Len(old.stmts))
  OBVIOUS
<1>5. stmts \in StmtSeqs(W)
  <2>1. PICK s : s = old.stmts
    OBVIOUS
  <2>2. s \in StmtSeqs(W)
    BY <1>1, <1>2, <2>1 DEF LoweredBlocks
  <2> QED
    BY <1>3, <1>4, <2>1, <2>2, DeadFacts
<1>6. PICK new : new = [old EXCEPT !.stmts = stmts]
  OBVIOUS
<1>7. new \in A /\ new.kind = old.kind
  BY <1>1, <1>2, <1>5, <1>6 DEF LoweredBlocks
<1>8. PICK blocks : blocks = [fb.blocks EXCEPT ![c] = new]
  OBVIOUS
<1>9. /\ blocks \in Seq(A) /\ Len(blocks) = Len(fb.blocks)
      /\ blocks[c] = new /\ \A b \in 1 .. Len(fb.blocks) : b # c => blocks[b] = fb.blocks[b]
  BY <1>1, <1>2, <1>7, <1>8 DEF All, Newest
<1>10. PICK h : h = [fb EXCEPT !.blocks = blocks]
  OBVIOUS
<1>11. /\ Built(T, W, h) /\ Kept(fb, h) /\ Newest(h) = Newest(fb) /\ Targetable(h) = Targetable(fb)
       /\ h.blocks = blocks
  BY <1>2, <1>9, <1>10, BlocksChanged
<1>12. Opened(h) = Opened(fb)
  <2>1. \A b \in 1 .. Len(fb.blocks) : h.blocks[b].kind = fb.blocks[b].kind
    BY <1>2, <1>7, <1>9, <1>11
  <2> QED
    BY <1>11, <2>1 DEF Opened, IsOpen, Kept, All, Newest
<1>13. PICK none, u : none = <<>> /\ u = [h EXCEPT !.value = none]
  OBVIOUS
<1>14. ReadList(W, none)
  BY <1>13 DEF ReadList
<1>15. /\ Built(T, W, u) /\ SameBlocks(h, u) /\ u.scopes = h.scopes /\ u.cur = h.cur
       /\ u.todo = h.todo
  BY <1>11, <1>13, <1>14, ValueBuilt
<1>16. PICK g : g = [u EXCEPT !.scopes = front]
  OBVIOUS
<1>17. /\ Built(T, W, g) /\ SameBlocks(u, g) /\ g.scopes = front /\ g.cur = u.cur /\ g.todo = u.todo
  BY <1>3, <1>15, <1>16, ScopesBuilt
<1>18. LowerInv(T, W, g)
  BY <1>2, <1>3, <1>11, <1>12, <1>15, <1>17 DEF LowerInv, Kept, SameBlocks
<1>19. g = EndScope(fb)
  <2>1. g = [fb EXCEPT !.scopes = front, !.value = <<>>, !.blocks = blocks]
    BY <1>10, <1>13, <1>16 DEF Built, Builders
  <2>2. EndScope(fb) = [fb EXCEPT !.scopes = front, !.value = <<>>, !.blocks[c].stmts = stmts]
    BY <1>2, <1>4 DEF EndScope, DeadOf, Built, Builders
  <2>3. EndScope(fb) = [fb EXCEPT !.scopes = front, !.value = <<>>, !.blocks = blocks]
    BY <1>2, <1>6, <1>8, <2>2 DEF Built, Builders
  <2> QED
    BY <2>1, <2>3
<1> QED
  BY <1>18, <1>19

LEMMA EndLoopInv ==
  ASSUME NEW T, NEW W, NEW fb, LowerInv(T, W, fb)
  PROVE  LowerInv(T, W, [fb EXCEPT !.loops = Front(@)])
<1>1. PICK L, loops, front, g : /\ L = {s.label : s \in T} /\ loops = fb.loops /\ front = Front(fb.loops)
                                /\ g = [fb EXCEPT !.loops = front]
  OBVIOUS
<1>2. LoopStack(T, fb, front)
  <2>1. PICK R : R = [label : L, brk : Targetable(fb), cont : Targetable(fb)]
    OBVIOUS
  <2>2. loops \in Seq(R)
    BY <1>1, <2>1, BuiltType DEF LowerInv
  <2>3. front \in Seq(R)
    BY <1>1, <2>2 DEF Front
  <2> QED
    BY <1>1, <2>1, <2>3 DEF LoopStack
<1>3. Built(T, W, fb)
  BY DEF LowerInv
<1>4. /\ Built(T, W, g) /\ SameBlocks(fb, g) /\ g.scopes = fb.scopes /\ g.cur = fb.cur /\ g.todo = fb.todo
  BY <1>1, <1>2, <1>3, LoopsBuilt
<1>5. LowerInv(T, W, g)
  BY <1>4 DEF LowerInv, SameBlocks
<1> QED
  BY <1>1, <1>5

LEMMA JoinInv ==
  ASSUME NEW T, NEW W, NEW fb, Built(T, W, fb), Depths(fb.todo, Len(fb.scopes)),
         NEW to \in Targetable(fb), NEW next \in Targetable(fb),
         Opened(fb) \subseteq {fb.cur, next} \cup Pending(fb.todo)
  PROVE  LowerInv(T, W, MoveTo(JoinIfOpen(fb, fb.cur, to), next))
<1>1. PICK c, h, g : c = fb.cur /\ h = JoinIfOpen(fb, c, to) /\ g = MoveTo(h, next)
  OBVIOUS
<1>2. c \in All(fb)
  BY <1>1, BuiltType
<1>3. /\ Built(T, W, h) /\ Kept(fb, h) /\ Newest(h) = Newest(fb) /\ Targetable(h) = Targetable(fb)
      /\ Opened(h) = Opened(fb) \ {c}
  BY <1>1, <1>2, JoinBuilt
<1>4. next \in All(h)
  BY <1>3 DEF Targetable
<1>5. /\ Built(T, W, g) /\ SameBlocks(h, g) /\ g.cur = next /\ g.scopes = h.scopes /\ g.todo = h.todo
  BY <1>1, <1>3, <1>4, MoveBuilt
<1>6. LowerInv(T, W, g)
  BY <1>1, <1>3, <1>5 DEF LowerInv, Kept, SameBlocks
<1> QED
  BY <1>1, <1>6

LEMMA ElseInv ==
  ASSUME NEW T, Trees(T), NEW W, NEW fb, Built(T, W, fb), Depths(fb.todo, Len(fb.scopes)),
         NEW i, i.at \in Targetable(fb), i.else \in AtMostOne(T), i.ty \in Types,
         Opened(fb) \subseteq {fb.cur, i.at} \cup Pending(fb.todo)
  PROVE  LowerInv(T, W, LowerElse(fb, i))
<1>1. PICK c, v, at, u, meet : /\ c = fb.cur /\ v = fb.value /\ at = i.at /\ u = MoveTo(fb, at)
                               /\ meet = [k |-> "meet", arm |-> [cur |-> c, value |-> v], ty |-> i.ty]
  OBVIOUS
<1>2. at \in All(fb) /\ c \in All(fb) /\ ReadList(W, v)
  BY <1>1, BuiltType DEF Targetable
<1>3. /\ Built(T, W, u) /\ SameBlocks(fb, u) /\ u.cur = at /\ u.scopes = fb.scopes /\ u.todo = fb.todo
  BY <1>1, <1>2, MoveBuilt
<1>4. meet \in Items(T, W, All(u), Targetable(u)) /\ meet.k # "endScope" /\ Awaited(meet) = {c}
  <2>1. c \in All(u)
    BY <1>2, <1>3 DEF SameBlocks
  <2>2. meet \in Items(T, W, All(u), Targetable(u))
    BY <1>1, <1>2, <2>1, MeetIntro
  <2>3. meet.k = "meet" /\ meet.arm.cur = c
    BY <1>1
  <2> QED
    BY <2>2, <2>3 DEF Awaited
<1>5. PICK one : one = <<meet>> /\ Piece(T, W, u, one, {c})
  BY <1>4, PieceOne
<1>6. Piece(T, W, u, i.else, {})
  BY PieceMaybe
<1>7. PICK items : items = i.else \o one /\ Piece(T, W, u, items, {} \cup {c})
  BY <1>5, <1>6, PieceConcat
<1>8. PICK A : A = {} \cup {c}
  OBVIOUS
<1>9. Opened(u) \subseteq (Pending(u.todo) \cup {u.cur}) \cup A
  BY <1>1, <1>3, <1>8 DEF SameBlocks
<1>10. PICK g : g = Then(u, items)
  OBVIOUS
<1>11. Depths(u.todo, Len(u.scopes))
  BY <1>3
<1>12. LowerInv(T, W, g)
  BY <1>3, <1>7, <1>8, <1>9, <1>10, <1>11, PutInFront
<1> QED
  BY <1>1, <1>5, <1>7, <1>10, <1>12 DEF LowerElse, Arm

\* The end of an arm: assigned to the result, and joined.
LEMMA ArmBuilt ==
  ASSUME NEW T, NEW W, NEW fb, Built(T, W, fb), NEW arm \in [cur : All(fb), value : Seq(ReadEntries(W))],
         NEW result \in Locals, NEW join \in Targetable(fb), NEW g, g = ArmEnds(fb, arm, result, join)
  PROVE  /\ Built(T, W, g) /\ Newest(g) = Newest(fb) /\ Targetable(g) = Targetable(fb)
         /\ Opened(g) = Opened(fb) \ {arm.cur} /\ g.todo = fb.todo /\ g.scopes = fb.scopes
<1>1. CASE ~IsOpen(fb, arm.cur)
  BY <1>1 DEF ArmEnds, Opened
<1>2. CASE IsOpen(fb, arm.cur)
  <2>1. PICK b, v : b = arm.cur /\ v = arm.value
    OBVIOUS
  <2>2. b \in All(fb) /\ ReadList(W, v)
    BY <2>1 DEF ReadList
  <2>3. PICK m, u : m = MoveTo(fb, b) /\ u = [m EXCEPT !.value = v]
    OBVIOUS
  <2>4. Built(T, W, m) /\ SameBlocks(fb, m) /\ m.cur = b /\ m.scopes = fb.scopes /\ m.todo = fb.todo
    BY <2>2, <2>3, MoveBuilt
  <2>5. /\ Built(T, W, u) /\ SameBlocks(m, u) /\ u.value = v /\ u.cur = m.cur
        /\ u.scopes = m.scopes /\ u.todo = m.todo
    BY <2>2, <2>3, <2>4, ValueBuilt
  <2>6. u = [fb EXCEPT !.cur = b, !.value = v]
    BY <2>3 DEF MoveTo, Built, Builders
  <2>7. PICK es, h : es = v \o <<Entry("write", VarPlace(result))>> /\ h = PushStmt(u, es)
    OBVIOUS
  <2>8. StmtList(W, es)
    BY <2>2, <2>7, AssignedList
  <2>9. /\ Built(T, W, h) /\ Kept(u, h) /\ Newest(h) = Newest(u) /\ Targetable(h) = Targetable(u)
        /\ Opened(h) = Opened(u)
    BY <2>5, <2>7, <2>8, PushBuilt
  <2>10. b \in All(h) /\ join \in Targetable(h)
    BY <2>2, <2>4, <2>5, <2>9 DEF SameBlocks, All
  <2>11. g = JumpTo(h, b, join)
    BY <1>2, <2>1, <2>5, <2>6, <2>7 DEF ArmEnds, AssignValue
  <2>12. /\ Built(T, W, g) /\ Kept(h, g) /\ Newest(g) = Newest(h) /\ Targetable(g) = Targetable(h)
         /\ Opened(g) = Opened(h) \ {b}
    BY <2>9, <2>10, <2>11, JumpBuilt
  <2> QED
    BY <2>1, <2>4, <2>5, <2>9, <2>12 DEF SameBlocks, Kept
<1> QED
  BY <1>1, <1>2

LEMMA ArmUsed ==
  ASSUME NEW fb, "used" \in DOMAIN fb, NEW arm, NEW result, NEW join
  PROVE  SameUsed(fb, ArmEnds(fb, arm, result, join))
<1>1. CASE ~IsOpen(fb, arm.cur)
  BY <1>1 DEF ArmEnds, SameUsed
<1>2. CASE IsOpen(fb, arm.cur)
  <2>1. PICK u, h : u = [fb EXCEPT !.cur = arm.cur, !.value = arm.value] /\ h = AssignValue(u, result)
    OBVIOUS
  <2>2. SameUsed(fb, u)
    BY <2>1, UsedKept
  <2>3. SameUsed(u, h)
    BY <2>1, <2>2, AssignUsed DEF SameUsed
  <2>4. SameUsed(h, JumpTo(h, arm.cur, join))
    BY <2>3, UsedKept DEF SameUsed, JumpTo
  <2> QED
    BY <1>2, <2>1, <2>2, <2>3, <2>4 DEF ArmEnds, SameUsed
<1> QED
  BY <1>1, <1>2

LEMMA TempBlocks ==
  ASSUME NEW T, NEW W, NEW fb, Built(T, W, fb), NEW ty \in TempTypes, NEW g, g = NewTemp(fb, ty)
  PROVE  Built(T, W, g) /\ SameBlocks(fb, g) /\ g.scopes = fb.scopes /\ g.todo = fb.todo
<1>1. /\ Built(T, W, g) /\ SameBlocks(fb, g) /\ g.value = fb.value
      /\ g.scopes = fb.scopes /\ g.loops = fb.loops /\ g.cur = fb.cur
      /\ g.todo = fb.todo /\ g.used = [fb.used EXCEPT ![ty] = @ + 1]
  BY TempBuilt
<1> QED
  BY <1>1

\* Two arms, c and d, have ended where the code after them goes on.
Met(fb, h, join, c, d) ==
  /\ Opened(fb) \subseteq {c, d} \cup Pending(fb.todo) /\ Depths(fb.todo, Len(fb.scopes))
  /\ h.todo = fb.todo /\ h.scopes = fb.scopes
  /\ Opened(h) = ((Opened(fb) \cup {join}) \ {c}) \ {d}

LEMMA MetInv ==
  ASSUME NEW T, NEW W, NEW fb, NEW h, Built(T, W, h), NEW join \in Targetable(h), NEW c, NEW d,
         Met(fb, h, join, c, d), NEW g, g = MoveTo(h, join)
  PROVE  LowerInv(T, W, g)
<1>1. join \in All(h)
  BY DEF Targetable
<1>2. Built(T, W, g) /\ SameBlocks(h, g) /\ g.cur = join /\ g.scopes = h.scopes /\ g.todo = h.todo
  BY <1>1, MoveBuilt
<1> QED
  BY <1>2 DEF LowerInv, SameBlocks, Met

LEMMA MeetInv ==
  ASSUME NEW T, NEW W, NEW fb, Built(T, W, fb), Depths(fb.todo, Len(fb.scopes)),
         NEW i, i.arm \in [cur : All(fb), value : Seq(ReadEntries(W))], i.ty \in Types,
         Opened(fb) \subseteq {fb.cur, i.arm.cur} \cup Pending(fb.todo), Named(Meet(fb, i))
  PROVE  LowerInv(T, W, Meet(fb, i))
<1>1. Newest(fb) \in Nat /\ fb.cur \in All(fb) /\ fb.value \in Seq(ReadEntries(W))
  BY BuiltType
<1>2. PICK join, one, h, c, d, ty : /\ join = Newest(fb) + 1 /\ one = 1 /\ h = NewBlocks(fb, one)
                                    /\ c = i.arm.cur /\ d = fb.cur /\ ty = i.ty
  OBVIOUS
<1>3. h = NewBlock(fb) /\ one \in Nat
  BY <1>2 DEF NewBlock
<1>4. Built(T, W, h) /\ Kept(fb, h) /\ Grown(fb, one, h)
  BY <1>2, <1>3, NewBuilt
<1>5. /\ join \in Targetable(h) /\ c \in All(h) /\ d \in All(h) /\ All(fb) \subseteq All(h)
      /\ Opened(h) = Opened(fb) \cup {join}
  BY <1>1, <1>2, <1>4 DEF Grown
<1>6. CASE ty = "plain"
  <2>1. PICK u, v : u = JoinIfOpen(h, c, join) /\ v = JoinIfOpen(u, d, join)
    OBVIOUS
  <2>2. /\ Built(T, W, u) /\ Kept(h, u) /\ Newest(u) = Newest(h) /\ Targetable(u) = Targetable(h)
        /\ Opened(u) = Opened(h) \ {c}
    BY <1>4, <1>5, <2>1, JoinBuilt
  <2>3. d \in All(u) /\ join \in Targetable(u)
    BY <1>5, <2>2 DEF All
  <2>4. /\ Built(T, W, v) /\ Kept(u, v) /\ Newest(v) = Newest(u) /\ Targetable(v) = Targetable(u)
        /\ Opened(v) = Opened(u) \ {d}
    BY <2>1, <2>2, <2>3, JoinBuilt
  <2>5. PICK m : m = MoveTo(v, join)
    OBVIOUS
  <2>6. join \in Targetable(v) /\ v.todo = fb.todo /\ v.scopes = fb.scopes
    BY <1>4, <1>5, <2>2, <2>4 DEF Kept
  <2>7. Opened(v) = ((Opened(fb) \cup {join}) \ {c}) \ {d}
    BY <1>5, <2>2, <2>4
  <2>8. Met(fb, v, join, c, d)
    BY <1>2, <2>6, <2>7 DEF Met
  <2>9. LowerInv(T, W, m)
    BY <2>4, <2>5, <2>6, <2>8, MetInv
  <2>10. Meet(fb, i) = NoValue(m)
    BY <1>2, <1>3, <1>6, <2>1, <2>5 DEF Meet
  <2> QED
    BY <2>9, <2>10, NoValueInv
<1>7. CASE ty # "plain"
  <2>1. ty \in TempTypes
    BY <1>2, <1>7 DEF Types
  <2>2. PICK t, result, here : t = NewTemp(h, ty) /\ result = NewestTemp(t, ty) /\ here = Arm(fb)
    OBVIOUS
  <2>3. PICK u, v, m, g : /\ u = ArmEnds(t, i.arm, result, join) /\ v = ArmEnds(u, here, result, join)
                          /\ m = MoveTo(v, join) /\ g = Meet(fb, i)
    OBVIOUS
  <2>4. g = WithValue(m, "move", result)
    BY <1>2, <1>3, <1>7, <2>2, <2>3 DEF Meet
  <2>5. Built(T, W, t) /\ SameBlocks(h, t) /\ t.scopes = h.scopes /\ t.todo = h.todo
    <3>1. t = NewTemp(h, ty) /\ Built(T, W, h)
      BY <1>4, <2>2
    <3> QED
      BY <2>1, <3>1, TempBlocks
  <2>6. "used" \in DOMAIN t
    BY <2>5, BuiltUsed
  <2>7. g.used = t.used
    <3>1. SameUsed(t, u)
      BY <2>3, <2>6, ArmUsed
    <3>2. SameUsed(u, v)
      BY <2>3, <3>1, ArmUsed DEF SameUsed
    <3>3. SameUsed(v, m)
      BY <2>3, <3>2, UsedKept DEF SameUsed
    <3>4. SameUsed(m, g)
      BY <2>4, <3>3, UsedKept DEF SameUsed, WithValue
    <3> QED
      BY <3>1, <3>2, <3>3, <3>4 DEF SameUsed
  <2>8. result \in Locals
    BY <1>4, <2>1, <2>2, <2>3, <2>7, TempLocal
  <2>9. PICK arm : arm = i.arm
    OBVIOUS
  <2>10. arm \in [cur : All(t), value : Seq(ReadEntries(W))] /\ join \in Targetable(t)
    BY <1>5, <2>5, <2>9 DEF SameBlocks
  <2>11. u = ArmEnds(t, arm, result, join)
    BY <2>3, <2>9
  <2>12. /\ Built(T, W, u) /\ Newest(u) = Newest(t) /\ Targetable(u) = Targetable(t)
         /\ Opened(u) = Opened(t) \ {arm.cur} /\ u.todo = t.todo /\ u.scopes = t.scopes
    BY <2>5, <2>8, <2>10, <2>11, ArmBuilt
  <2>13. here \in [cur : All(u), value : Seq(ReadEntries(W))] /\ here.cur = d /\ join \in Targetable(u)
    <3>1. fb.cur \in All(u)
      BY <1>2, <1>5, <2>5, <2>12 DEF SameBlocks, All
    <3> QED
      BY <1>1, <1>2, <2>2, <2>10, <2>12, <3>1 DEF Arm
  <2>14. /\ Built(T, W, v) /\ Newest(v) = Newest(u) /\ Targetable(v) = Targetable(u)
         /\ Opened(v) = Opened(u) \ {here.cur} /\ v.todo = u.todo /\ v.scopes = u.scopes
    BY <2>3, <2>8, <2>12, <2>13, ArmBuilt
  <2>15. join \in Targetable(v) /\ v.todo = fb.todo /\ v.scopes = fb.scopes
    BY <1>4, <2>5, <2>12, <2>13, <2>14 DEF Kept
  <2>16. Opened(v) = ((Opened(fb) \cup {join}) \ {c}) \ {d}
    BY <1>2, <1>5, <2>5, <2>9, <2>12, <2>13, <2>14 DEF SameBlocks
  <2>17. Met(fb, v, join, c, d)
    BY <1>2, <2>15, <2>16 DEF Met
  <2>18. LowerInv(T, W, m)
    BY <2>3, <2>14, <2>15, <2>17, MetInv
  <2> QED
    BY <2>3, <2>4, <2>8, <2>18, OperandInv
<1> QED
  BY <1>6, <1>7

-----------------------------------------------------------------------------
(* One step, and all *)

LEMMA StatementInv ==
  ASSUME NEW T, Trees(T), NEW W, MovesWhole(T, W), NEW f, LowerInv(T, W, f), NEW s \in T, s.k \in StmtKinds,
         s.k \in {"break", "continue"} => Targets(f, s.label) # {}
  PROVE  LowerInv(T, W, LowerStmt(Reroute(f), s))
<1>1. PICK fb : fb = Reroute(f)
  OBVIOUS
<1>2. LowerInv(T, W, fb) /\ fb.loops = f.loops
  BY <1>1, RerouteInv
<1>3. CASE s.k = "let"
  BY <1>1, <1>2, <1>3, LetInv DEF LowerStmt
<1>4. CASE s.k = "bind"
  BY <1>1, <1>2, <1>4, BindInv DEF LowerStmt
<1>5. CASE s.k = "assign"
  <2>1. Entry("write", s.p) \in StmtEntries(W)
    BY <1>5, PlaceEntries DEF Trees, MovesWhole, OpKinds
  <2> QED
    BY <1>1, <1>2, <1>5, <2>1, PushedPlace DEF LowerStmt
<1>6. CASE s.k = "read"
  <2>1. Entry("copy", s.p) \in StmtEntries(W)
    BY <1>6, PlaceEntries DEF Trees, OpKinds
  <2> QED
    BY <1>1, <1>2, <1>6, <2>1, PushedPlace DEF LowerStmt
<1>7. CASE s.k = "consume"
  BY <1>1, <1>2, <1>7, ConsumeInv DEF LowerStmt
<1>8. CASE s.k = "eval"
  <2>1. s.e \in T
    BY <1>8 DEF Trees
  <2>2. PICK items, A : items = <<s.e>> /\ Piece(T, W, fb, items, A)
    BY <2>1, PieceTree
  <2>3. LowerInv(T, W, Then(fb, items))
    BY <1>2, <2>2, ThenInv
  <2> QED
    BY <1>1, <1>8, <2>2, <2>3 DEF LowerStmt
<1>9. CASE s.k = "return"
  BY <1>1, <1>2, <1>9, ReturnInv DEF LowerStmt
<1>10. CASE s.k = "while"
  BY <1>1, <1>2, <1>10, WhileInv DEF LowerStmt
<1>11. CASE s.k \in {"break", "continue"}
  <2>1. Targets(fb, s.label) # {}
    BY <1>2, <1>11 DEF Targets
  <2>2. /\ LowerInv(T, W, JumpTo(fb, fb.cur, LoopTarget(fb, s.label).brk))
        /\ LowerInv(T, W, JumpTo(fb, fb.cur, LoopTarget(fb, s.label).cont))
    BY <1>2, <2>1, LeaveInv
  <2> QED
    BY <1>1, <1>11, <2>2 DEF LowerStmt
<1> QED
  BY <1>3, <1>4, <1>5, <1>6, <1>7, <1>8, <1>9, <1>10, <1>11 DEF StmtKinds

LEMMA ExpressionInv ==
  ASSUME NEW T, Trees(T), NEW W, NEW fb, LowerInv(T, W, fb), NEW e \in T, e.k \in ExprKinds,
         Named(LowerExpr(fb, e))
  PROVE  LowerInv(T, W, LowerExpr(fb, e))
<1>1. CASE e.k = "call"
  <2>1. PICK none, left, ty, g : none = <<>> /\ left = e.args /\ ty = e.ty /\ g = LowerArgs(fb, left, none, ty)
    OBVIOUS
  <2>2. ReadList(W, none)
    BY <2>1 DEF ReadList
  <2>3. left \in Seq(T) /\ ty \in Types
    BY <1>1, <2>1 DEF Trees, Types
  <2>4. LowerExpr(fb, e) = LowerArgs(fb, left, none, ty)
    BY <1>1, <2>1 DEF LowerExpr
  <2> QED
    BY <2>2, <2>3, <2>4, ArgsInv
<1>2. CASE e.k = "ref"
  BY <1>2, RefInv DEF LowerExpr
<1>3. CASE e.k = "recv"
  BY <1>3, RecvInv DEF LowerExpr
<1>4. CASE e.k = "if"
  BY <1>4, IfInv DEF LowerExpr
<1>5. CASE e.k = "block"
  BY <1>5, BlockInv DEF LowerExpr
<1>6. CASE e.k = "var"
  BY <1>6, PlaceOperandInv DEF LowerExpr, Trees
<1>7. CASE e.k = "abort"
  BY <1>7, AbortInv DEF LowerExpr
<1> QED
  BY <1>1, <1>2, <1>3, <1>4, <1>5, <1>6, <1>7 DEF ExprKinds

ResumeKinds == {"endScope", "else", "meet", "endLoop", "join", "arg", "refer", "receive", "store"}
LEMMA ItemFacts ==
  ASSUME NEW T, Trees(T), NEW W, NEW B, NEW G, NEW i \in Items(T, W, B, G)
  PROVE  /\ i.k \in StmtKinds \cup ExprKinds => i \in T
         /\ i.k \notin StmtKinds \cup ExprKinds => i.k \in ResumeKinds
         /\ i.k = "else" => i.at \in G /\ i.else \in AtMostOne(T) /\ i.ty \in Types
         /\ i.k = "meet" => i.arm \in [cur : B, value : Seq(ReadEntries(W))] /\ i.ty \in Types
         /\ i.k = "join" => i.to \in G /\ i.next \in G
         /\ i.k = "arg" => i.left \in Seq(T) /\ ReadList(W, i.operands) /\ i.ty \in Types
         /\ i.k = "receive" => i.ty \in TempTypes
         /\ i.k = "store" => i.l \in Locals
<1>1. CASE i \in T
  <2>1. i.k \in StmtKinds \cup ExprKinds
    BY <1>1 DEF Trees
  <2> QED
    BY <1>1, <2>1 DEF StmtKinds, ExprKinds
<1>2. CASE i \in [k : {"else"}, at : G, else : AtMostOne(T), ty : Types]
  BY <1>2 DEF StmtKinds, ExprKinds, ResumeKinds
<1>3. CASE i \in [k : {"meet"}, arm : [cur : B, value : Seq(ReadEntries(W))], ty : Types]
  BY <1>3 DEF StmtKinds, ExprKinds, ResumeKinds
<1>4. CASE i \in [k : {"join"}, to : G, next : G]
  BY <1>4 DEF StmtKinds, ExprKinds, ResumeKinds
<1>5. CASE i \in [k : {"arg"}, left : Seq(T), operands : Seq(ReadEntries(W)), ty : Types]
  <2>1. i.k = "arg" /\ i.left \in Seq(T) /\ i.operands \in Seq(ReadEntries(W)) /\ i.ty \in Types
    BY <1>5
  <2> QED
    BY <2>1 DEF StmtKinds, ExprKinds, ResumeKinds, ReadList
<1>6. CASE i \in [k : {"receive"}, ty : TempTypes]
  BY <1>6 DEF StmtKinds, ExprKinds, ResumeKinds
<1>7. CASE i \in [k : {"store"}, l : Locals]
  BY <1>7 DEF StmtKinds, ExprKinds, ResumeKinds
<1>8. CASE i \in [k : {"endScope"}] \cup [k : {"endLoop"}] \cup [k : {"refer"}]
  BY <1>8 DEF StmtKinds, ExprKinds, ResumeKinds
<1> QED
  BY <1>1, <1>2, <1>3, <1>4, <1>5, <1>6, <1>7, <1>8 DEF Items

\* The first item i has been taken from the work to do.
Taken(T, W, fb, i) ==
  /\ Built(T, W, fb) /\ i \in Items(T, W, All(fb), Targetable(fb))
  /\ Opened(fb) \subseteq ({fb.cur} \cup Awaited(i)) \cup Pending(fb.todo)
  /\ Depths(fb.todo, Len(fb.scopes))
  /\ i.k = "endScope" => Len(fb.scopes) >= 1 /\ Depths(fb.todo, Len(fb.scopes) - 1)

LEMMA TakeInv ==
  ASSUME NEW T, NEW W, NEW fb, LowerInv(T, W, fb), fb.todo # <<>>, NEW g, g = [fb EXCEPT !.todo = Tail(@)]
  PROVE  Taken(T, W, g, Head(fb.todo)) /\ g.loops = fb.loops
<1>1. PICK I, t, n, u, i : /\ I = Items(T, W, All(fb), Targetable(fb)) /\ t = fb.todo /\ n = Len(fb.scopes)
                           /\ u = Tail(fb.todo) /\ i = Head(fb.todo)
  OBVIOUS
<1>2. Built(T, W, fb) /\ Work(T, W, fb, fb.todo) /\ fb.scopes \in Seq(Seq(Locals))
  BY BuiltType DEF LowerInv
<1>3. t \in Seq(I)
  BY <1>1, <1>2 DEF Work
<1>4. u \in Seq(I) /\ i \in I /\ t # <<>> /\ n \in Nat
  BY <1>1, <1>2, <1>3
<1>5. Pending(t) = Awaited(i) \cup Pending(u)
  BY <1>1, <1>3, <1>4, PendingTail
<1>6. Depths(t, n)
  BY <1>1 DEF LowerInv
<1>7. Depths(u, n) /\ (i.k = "endScope" => n >= 1 /\ Depths(u, n - 1))
  BY <1>1, <1>3, <1>4, <1>6, DepthsTail
<1>0. PICK h : h = [fb EXCEPT !.todo = u]
  OBVIOUS
<1>8. Work(T, W, fb, u) /\ g = h
  BY <1>0, <1>1, <1>4 DEF Work
<1>9. /\ Built(T, W, g) /\ SameBlocks(fb, g) /\ g.value = fb.value
      /\ g.scopes = fb.scopes /\ g.loops = fb.loops /\ g.used = fb.used /\ g.cur = fb.cur
      /\ g.todo = u /\ g.diverged = fb.diverged
  <2>1. /\ Built(T, W, h) /\ SameBlocks(fb, h) /\ h.value = fb.value
        /\ h.scopes = fb.scopes /\ h.loops = fb.loops /\ h.used = fb.used /\ h.cur = fb.cur
        /\ h.todo = u /\ h.diverged = fb.diverged
    BY <1>0, <1>2, <1>8, TodoBuilt
  <2> QED
    BY <1>8, <2>1
<1>10. Opened(fb) \subseteq {fb.cur} \cup Pending(t)
  BY <1>1 DEF LowerInv
<1>11. Taken(T, W, g, i)
  BY <1>1, <1>4, <1>5, <1>7, <1>9, <1>10 DEF Taken, SameBlocks
<1> QED
  BY <1>1, <1>9, <1>11

LEMMA TakenInv ==
  ASSUME NEW T, NEW W, NEW fb, NEW i, Taken(T, W, fb, i), Awaited(i) = {}
  PROVE  LowerInv(T, W, fb)
BY DEF Taken, LowerInv

LEMMA ResumeInv ==
  ASSUME NEW T, Trees(T), NEW W, NEW fb, NEW i, Taken(T, W, fb, i), i.k \in ResumeKinds, Named(Resume(fb, i))
  PROVE  LowerInv(T, W, Resume(fb, i))
<1>1. /\ Built(T, W, fb) /\ i \in Items(T, W, All(fb), Targetable(fb)) /\ Depths(fb.todo, Len(fb.scopes))
      /\ Opened(fb) \subseteq ({fb.cur} \cup Awaited(i)) \cup Pending(fb.todo)
  BY DEF Taken
<1>2. CASE i.k = "endScope"
  <2>1. Awaited(i) = {} /\ Len(fb.scopes) >= 1 /\ Depths(fb.todo, Len(fb.scopes) - 1)
    BY <1>2 DEF Awaited, Taken
  <2>2. Opened(fb) \subseteq {fb.cur} \cup Pending(fb.todo)
    BY <1>1, <2>1
  <2>3. LowerInv(T, W, EndScope(fb))
    BY <1>1, <2>1, <2>2, EndScopeInv
  <2> QED
    BY <1>2, <2>3 DEF Resume
<1>3. CASE i.k = "else"
  <2>1. i.at \in Targetable(fb) /\ i.else \in AtMostOne(T) /\ i.ty \in Types /\ Awaited(i) = {i.at}
    BY <1>1, <1>3, ItemFacts DEF Awaited
  <2>2. Opened(fb) \subseteq {fb.cur, i.at} \cup Pending(fb.todo)
    BY <1>1, <2>1
  <2>3. LowerInv(T, W, LowerElse(fb, i))
    BY <1>1, <2>1, <2>2, ElseInv
  <2> QED
    BY <1>3, <2>3 DEF Resume
<1>4. CASE i.k = "meet"
  <2>1. /\ i.arm \in [cur : All(fb), value : Seq(ReadEntries(W))] /\ i.ty \in Types
        /\ Awaited(i) = {i.arm.cur}
    BY <1>1, <1>4, ItemFacts DEF Awaited
  <2>2. Opened(fb) \subseteq {fb.cur, i.arm.cur} \cup Pending(fb.todo)
    BY <1>1, <2>1
  <2>3. Resume(fb, i) = Meet(fb, i)
    BY <1>4 DEF Resume
  <2> QED
    BY <1>1, <2>1, <2>2, <2>3, MeetInv
<1>5. CASE i.k = "join"
  <2>1. i.to \in Targetable(fb) /\ i.next \in Targetable(fb) /\ Awaited(i) = {i.next}
    BY <1>1, <1>5, ItemFacts DEF Awaited
  <2>2. Opened(fb) \subseteq {fb.cur, i.next} \cup Pending(fb.todo)
    BY <1>1, <2>1
  <2>3. LowerInv(T, W, MoveTo(JoinIfOpen(fb, fb.cur, i.to), i.next))
    BY <1>1, <2>1, <2>2, JoinInv
  <2> QED
    BY <1>5, <2>3 DEF Resume
<1>6. i.k \notin {"endScope", "else", "meet", "join"} => LowerInv(T, W, fb)
  <2>1. i.k \notin {"endScope", "else", "meet", "join"} => Awaited(i) = {}
    BY DEF Awaited
  <2> QED
    BY <2>1, TakenInv
<1>7. CASE i.k = "endLoop"
  BY <1>6, <1>7, EndLoopInv DEF Resume
<1>8. CASE i.k = "arg"
  <2>1. i.left \in Seq(T) /\ ReadList(W, i.operands) /\ i.ty \in Types /\ ReadList(W, fb.value)
    BY <1>1, <1>8, ItemFacts, BuiltType
  <2>2. PICK ops : ops = i.operands \o fb.value
    OBVIOUS
  <2>3. ReadList(W, ops)
    <3>1. PICK R, a, b : R = ReadEntries(W) /\ a = i.operands /\ b = fb.value
      OBVIOUS
    <3>2. a \in Seq(R) /\ b \in Seq(R)
      BY <2>1, <3>1 DEF ReadList
    <3>3. a \o b \in Seq(R)
      BY <3>2
    <3> QED
      BY <2>2, <3>1, <3>3 DEF ReadList
  <2>4. Resume(fb, i) = LowerArgs(fb, i.left, ops, i.ty)
    BY <1>8, <2>2 DEF Resume
  <2> QED
    BY <1>6, <1>8, <2>1, <2>3, <2>4, ArgsInv
<1>9. CASE i.k = "refer"
  BY <1>6, <1>9, ReferInv DEF Resume
<1>10. CASE i.k = "receive"
  <2>1. i.ty \in TempTypes /\ Resume(fb, i) = Receive(fb, i.ty)
    BY <1>1, <1>10, ItemFacts DEF Resume
  <2> QED
    BY <1>6, <1>10, <2>1, ReceiveInv
<1>11. CASE i.k = "store"
  <2>1. i.l \in Locals
    BY <1>1, <1>11, ItemFacts
  <2> QED
    BY <1>6, <1>11, <2>1, AssignInv DEF Resume
<1> QED
  BY <1>2, <1>3, <1>4, <1>5, <1>7, <1>8, <1>9, <1>10, <1>11 DEF ResumeKinds

LEMMA LowerStepInv ==
  ASSUME NEW T, Trees(T), NEW W, MovesWhole(T, W), NEW fb, LowerInv(T, W, fb)
  PROVE  LowerInv(T, W, LowerStep(fb))
<1>1. PICK h, i, g : h = [fb EXCEPT !.todo = Tail(@)] /\ i = Head(fb.todo) /\ g = Perform(h, i)
  OBVIOUS
<1>2. SUFFICES ASSUME fb.todo # <<>>, ~Panics(fb), Named(g) PROVE LowerInv(T, W, g)
  BY <1>1 DEF LowerStep
<1>3. Taken(T, W, h, i) /\ h.loops = fb.loops
  BY <1>1, <1>2, TakeInv
<1>4. PICK B, G : B = All(h) /\ G = Targetable(h)
  OBVIOUS
<1>5. i \in Items(T, W, B, G)
  BY <1>3, <1>4 DEF Taken
<1>6. /\ i.k \in StmtKinds \cup ExprKinds => i \in T
      /\ i.k \notin StmtKinds \cup ExprKinds => i.k \in ResumeKinds
  BY <1>5, ItemFacts
<1>7. i \in T => LowerInv(T, W, h)
  BY <1>3, TreeKinds, TakenInv
<1>8. CASE i.k \in StmtKinds
  <2>1. i.k \in {"break", "continue"} => Targets(h, i.label) # {}
    BY <1>1, <1>2, <1>3 DEF Panics, Targets
  <2>2. LowerInv(T, W, LowerStmt(Reroute(h), i))
    BY <1>6, <1>7, <1>8, <2>1, StatementInv
  <2> QED
    BY <1>1, <1>8, <2>2 DEF Perform
<1>9. CASE i.k \in ExprKinds
  <2>1. i.k \notin StmtKinds
    BY <1>9 DEF ExprKinds, StmtKinds
  <2>2. g = LowerExpr(h, i)
    BY <1>1, <1>9, <2>1 DEF Perform
  <2> QED
    BY <1>2, <1>6, <1>7, <1>9, <2>2, ExpressionInv
<1>10. CASE i.k \notin StmtKinds \cup ExprKinds
  <2>1. g = Resume(h, i)
    BY <1>1, <1>10 DEF Perform
  <2> QED
    BY <1>2, <1>3, <1>6, <1>10, <2>1, ResumeInv
<1> QED
  BY <1>8, <1>9, <1>10

LEMMA InitialInv ==
  ASSUME NEW T, Trees(T), NEW W, NEW body \in Seq(T)
  PROVE  LowerInv(T, W, NewBuilder(body))
<1>1. PICK fb, one, none, blocks, used :
        /\ fb = NewBuilder(body) /\ one = 1 /\ none = <<>> /\ blocks = <<OpenBlock>>
        /\ used = [ty \in TempTypes |-> 0]
  OBVIOUS
<1>2. fb = [blocks |-> blocks, cur |-> one, scopes |-> none, loops |-> none, diverged |-> FALSE, final |-> {},
            used |-> used, value |-> none, todo |-> body]
  BY <1>1 DEF NewBuilder
<1>3. /\ fb.blocks = blocks /\ fb.cur = one /\ fb.scopes = none /\ fb.final = {} /\ fb.todo = body
  BY <1>2
<1>4. OpenBlock \in LoweredBlocks(W, {one})
  <2>1. <<>> \in StmtSeqs(W)
    BY DEF StmtSeqs
  <2> QED
    BY <2>1 DEF LoweredBlocks, OpenBlock
<1>5. blocks \in Seq(LoweredBlocks(W, {one})) /\ Len(blocks) = 1 /\ blocks[1] = OpenBlock
  BY <1>1, <1>4
<1>6. All(fb) = {one} /\ Targetable(fb) = {one}
  BY <1>1, <1>3, <1>5 DEF All, Targetable, Newest
<1>7. \A A : none \in Seq(A)
  BY <1>1
<1>8. used \in [TempTypes -> Nat]
  BY <1>1
<1>9. PICK I : I = Items(T, W, {one}, {one})
  OBVIOUS
<1>10. body \in Seq(I)
  <2>1. T \subseteq I
    BY <1>9, ItemsIntro
  <2> QED
    BY <2>1, SeqWider
<1>11. fb \in Builders(T, W, {one}, {one})
  BY <1>2, <1>5, <1>7, <1>8, <1>9, <1>10 DEF Builders
<1>12. Opened(fb) \subseteq {fb.cur} \cup Pending(fb.todo)
  BY <1>3, <1>6 DEF Opened
<1>13. Depths(body, 0)
  <2> DEFINE d == [j \in 1 .. Len(body) + 1 |-> 0]
  <2>1. Len(body) \in Nat /\ \A j \in 1 .. Len(body) : body[j].k # "endScope"
    BY TreeKinds
  <2>2. d \in [1 .. Len(body) + 1 -> Nat] /\ d[1] = 0
    BY <2>1
  <2>3. \A j \in 1 .. Len(body) : d[j] >= d[j + 1] + (IF body[j].k = "endScope" THEN 1 ELSE 0)
    BY <2>1
  <2> HIDE DEF d
  <2> QED
    BY <2>2, <2>3 DEF Depths
<1>14. Len(fb.scopes) = 0
  BY <1>1, <1>3
<1> QED
  BY <1>1, <1>3, <1>6, <1>11, <1>12, <1>13, <1>14 DEF LowerInv, Built

\* What holds of 0 and of the successor of what it holds of, up to a bound.
LEMMA CountUp ==
  ASSUME NEW N \in Nat, NEW S, 0 \in S, \A n \in 1 .. N : n - 1 \in S => n \in S
  PROVE  0 .. N \subseteq S
<1> DEFINE Left == {n \in 0 .. N : n \notin S}
<1> SUFFICES ASSUME Left # {} PROVE FALSE
  OBVIOUS
<1>1. Left \subseteq Nat
  OBVIOUS
<1>2. PICK n \in Left : \A m \in Left : n <= m
  BY <1>1, LeastOf
<1>3. n \in 1 .. N
  BY <1>2
<1>4. n - 1 \in 0 .. N /\ ~(n <= n - 1)
  BY <1>3
<1>5. n - 1 \in S
  BY <1>2, <1>4
<1> QED
  BY <1>2, <1>3, <1>5

\* A step can be repeated N times.
Repeats(S, x0, N, F) == \E g \in [0 .. N -> S] : g[0] = x0 /\ \A n \in 1 .. N : g[n] = F[g[n - 1]]

LEMMA Repeat ==
  ASSUME NEW S, NEW x0 \in S, NEW N \in Nat, NEW F \in [S -> S]
  PROVE  Repeats(S, x0, N, F)
<1> DEFINE Trace(n, g) == g[0] = x0 /\ \A m \in 1 .. n : g[m] = F[g[m - 1]]
           R == {n \in 0 .. N : \E g \in [0 .. N -> S] : Trace(n, g)}
<1>1. 0 \in R
  <2>1. PICK g : g = [i \in 0 .. N |-> x0]
    OBVIOUS
  <2>2. g \in [0 .. N -> S]
    BY <2>1
  <2>3. Trace(0, g)
    BY <2>1
  <2>4. 0 \in 0 .. N
    OBVIOUS
  <2> HIDE DEF Trace
  <2> QED
    BY <2>2, <2>3, <2>4
<1>2. ASSUME NEW n \in 1 .. N, n - 1 \in R PROVE n \in R
  <2>1. PICK g \in [0 .. N -> S] : Trace(n - 1, g)
    BY <1>2
  <2> DEFINE y == F[g[n - 1]]
             h == [g EXCEPT ![n] = y]
  <2>2. n - 1 \in 0 .. N
    OBVIOUS
  <2>3. y \in S
    BY <2>2
  <2>4. h \in [0 .. N -> S] /\ h[n] = y /\ \A i \in 0 .. N : i # n => h[i] = g[i]
    BY <2>3
  <2>5. h[0] = x0
    BY <2>1, <2>4
  <2>6. ASSUME NEW m \in 1 .. n PROVE h[m] = F[h[m - 1]]
    <3>1. m - 1 \in 0 .. N /\ m - 1 # n /\ m \in 0 .. N
      OBVIOUS
    <3>2. h[m - 1] = g[m - 1]
      BY <3>1, <2>4
    <3>3. CASE m = n
      BY <3>2, <3>3, <2>4
    <3>4. CASE m # n
      <4>1. m \in 1 .. n - 1
        BY <3>4
      <4>2. h[m] = g[m] /\ g[m] = F[g[m - 1]]
        BY <4>1, <3>1, <3>4, <2>1, <2>4
      <4> QED
        BY <4>2, <3>2
    <3> QED
      BY <3>3, <3>4
  <2> HIDE DEF h
  <2>7. Trace(n, h)
    BY <2>5, <2>6
  <2>8. n \in 0 .. N /\ h \in [0 .. N -> S]
    BY <2>4
  <2> HIDE DEF Trace
  <2> QED
    BY <2>7, <2>8
<1> HIDE DEF R
<1>3. \A n \in 1 .. N : n - 1 \in R => n \in R
  BY <1>2
<1>4. 0 .. N \subseteq R
  BY <1>1, <1>3, CountUp
<1>5. N \in 0 .. N
  OBVIOUS
<1>6. N \in R
  BY <1>4, <1>5
<1> QED
  BY <1>6 DEF R, Repeats

LEMMA LoweringInv ==
  ASSUME NEW T, Trees(T), NEW W, MovesWhole(T, W), NEW body \in Seq(T), NEW n \in 0 .. MaxSteps
  PROVE  LowerInv(T, W, Lowering(body)[n])
<1> DEFINE S == {fb \in Builders(T, W, Nat, Nat) : LowerInv(T, W, fb)}
           F == [fb \in S |-> LowerStep(fb)]
<1>1. ASSUME NEW fb, LowerInv(T, W, fb) PROVE fb \in S
  <2>1. PICK B, G, N : B = All(fb) /\ G = Targetable(fb) /\ N = Nat
    OBVIOUS
  <2>2. fb \in Builders(T, W, B, G)
    BY <1>1, <2>1 DEF LowerInv, Built
  <2>3. B \subseteq N /\ G \subseteq N
    BY <1>1, <2>1, BuiltType DEF LowerInv, Targetable
  <2>4. fb \in Builders(T, W, N, N)
    BY <2>2, <2>3, BuildersWider
  <2> QED
    BY <1>1, <2>1, <2>4
<1>2. PICK x0, M : x0 = NewBuilder(body) /\ M = MaxSteps
  OBVIOUS
<1>3. x0 \in S /\ M \in Nat
  BY <1>1, <1>2, InitialInv, TempsAssumption
<1>4. \A fb \in S : LowerStep(fb) \in S
  BY <1>1, LowerStepInv
<1>5. F \in [S -> S]
  BY <1>4
<1>6. PICK A : A = S
  OBVIOUS
<1>7. PICK g \in [0 .. M -> A] : g[0] = x0 /\ \A m \in 1 .. M : g[m] = F[g[m - 1]]
  <2>1. PICK f : f = F
    OBVIOUS
  <2> HIDE DEF S, F
  <2>2. f \in [A -> A] /\ x0 \in A /\ M \in Nat
    BY <1>3, <1>5, <1>6, <2>1
  <2>3. Repeats(A, x0, M, f)
    BY <2>2, Repeat
  <2> QED
    BY <2>1, <2>3 DEF Repeats
<1>8. \A m \in 1 .. M : g[m] = LowerStep(g[m - 1])
  <2> TAKE m \in 1 .. M
  <2>1. m - 1 \in 0 .. M
    BY <1>3
  <2> HIDE DEF S
  <2>2. g[m - 1] \in S
    BY <1>6, <2>1
  <2> QED
    BY <1>7, <2>2
<1> DEFINE Body(h) == [m \in 0 .. M |-> IF m = 0 THEN x0 ELSE LowerStep(h[m - 1])]
<1> HIDE DEF S, F
<1>9. g = Body(g)
  <2>1. \A m \in 0 .. M : g[m] = Body(g)[m]
    BY <1>3, <1>7, <1>8
  <2>2. g = [m \in 0 .. M |-> g[m]]
    BY <1>7
  <2> QED
    BY <2>1, <2>2
<1>10. Lowering(body) = CHOOSE h : h = Body(h)
  BY <1>2 DEF Lowering
<1> HIDE DEF Body
<1>11. PICK h : h = Lowering(body)
  OBVIOUS
<1>12. h = Body(h)
  BY <1>9, <1>10, <1>11
<1>13. h[0] = x0 /\ \A m \in 1 .. M : h[m] = LowerStep(h[m - 1])
  BY <1>3, <1>12 DEF Body
<1> DEFINE R == {m \in 0 .. M : LowerInv(T, W, h[m])}
<1>14. 0 \in R
  BY <1>2, <1>3, <1>13, InitialInv
<1>15. ASSUME NEW m \in 1 .. M, m - 1 \in R PROVE m \in R
  <2>1. m \in 0 .. M
    BY <1>3
  <2>2. LowerInv(T, W, h[m])
    BY <1>13, <1>15, LowerStepInv
  <2> QED
    BY <2>1, <2>2
<1> HIDE DEF R
<1>16. 0 .. M \subseteq R
  <2>1. \A m \in 1 .. M : m - 1 \in R => m \in R
    BY <1>15
  <2> QED
    BY <1>3, <1>14, <2>1, CountUp
<1> QED
  BY <1>2, <1>11, <1>16 DEF R

-----------------------------------------------------------------------------
(* The lowered function *)

MirOf(W, block, m) ==
  /\ m \in MirBlocks /\ InStatementOrder(m) /\ m.kind = block.kind /\ m.succ = block.succ
  /\ \A i \in 1 .. Len(m.code) : Legal(W, m.code[i])

LEMMA MirBlockFacts ==
  ASSUME NEW W, NEW G, G \subseteq Blocks, NEW block \in LoweredBlocks(W, G), NEW m, m = MirBlock(block)
  PROVE  MirOf(W, block, m)
<1>1. PICK s, es, n, t, st : /\ s = block.stmts /\ es = block.operands /\ n = Len(s)
                             /\ t = Numbered(es, n + 1) /\ st = s \o t
  OBVIOUS
<1>2. /\ s \in StmtSeqs(W) /\ es \in Seq(StmtEntries(W)) /\ block.succ \in Seq(G)
      /\ block.kind \in {"flow", "return", "unreachable"}
      /\ block.kind = "return" => es \in Seq(ReadEntries(W))
  BY <1>1 DEF LoweredBlocks
<1>3. m = [code |-> st, term |-> n + 1, succ |-> block.succ, kind |-> block.kind]
  BY <1>1 DEF MirBlock
<1>4. s \in Seq(Entries) /\ n \in Nat
  BY <1>1, <1>2 DEF StmtSeqs
<1>5. /\ t \in Seq(Entries) /\ Len(t) = Len(es)
      /\ \A i \in 1 .. Len(es) :
           t[i].op = es[i].op /\ t[i].stmt = n + 1 /\ t[i].op # "dead" /\ Legal(W, t[i])
  BY <1>1, <1>2, <1>4, NumberedFacts
<1>6. /\ st \in Seq(Entries) /\ Len(st) = n + Len(t)
      /\ \A i \in 1 .. n : st[i] = s[i]
      /\ \A i \in 1 .. n + Len(t) :
           \/ i \in 1 .. n /\ st[i] = s[i]
           \/ i - n \in 1 .. Len(t) /\ st[i] = t[i - n]
  <2>1. PICK A : A = Entries
    OBVIOUS
  <2>2. s \in Seq(A) /\ t \in Seq(A)
    BY <1>4, <1>5, <2>1
  <2>3. /\ s \o t \in Seq(A) /\ Len(s \o t) = Len(s) + Len(t)
        /\ \A i \in 1 .. Len(s) : (s \o t)[i] = s[i]
        /\ \A i \in 1 .. Len(s) + Len(t) :
             \/ i \in 1 .. Len(s) /\ (s \o t)[i] = s[i]
             \/ i - Len(s) \in 1 .. Len(t) /\ (s \o t)[i] = t[i - Len(s)]
    BY <2>2, ConcatAt
  <2>4. Len(s) = n /\ s \o t = st
    BY <1>1
  <2> QED
    BY <2>1, <2>3, <2>4
<1>7. \A i \in 1 .. n : /\ Legal(W, s[i]) /\ s[i].stmt \in 1 .. i
                        /\ s[i].op = "dead" => s[i].stmt = i
                        /\ \A j \in 1 .. i : s[j].stmt <= s[i].stmt
  BY <1>1, <1>2 DEF StmtSeqs
<1>8. m \in MirBlocks /\ m.kind = block.kind /\ m.succ = block.succ /\ m.code = st /\ m.term = n + 1
  <2>1. block.succ \in Seq(Blocks)
    BY <1>2, SeqWider
  <2>2. n + 1 \in Nat
    BY <1>4
  <2> QED
    BY <1>2, <1>3, <1>6, <2>1, <2>2 DEF MirBlocks
<1>9. \A i \in 1 .. Len(st) : /\ Legal(W, st[i])
                              /\ i > n => st[i].stmt = n + 1 /\ st[i].op # "dead"
  <2> SUFFICES ASSUME NEW i \in 1 .. Len(st)
               PROVE  Legal(W, st[i]) /\ (i > n => st[i].stmt = n + 1 /\ st[i].op # "dead")
    OBVIOUS
  <2>1. CASE i \in 1 .. n /\ st[i] = s[i]
    BY <1>4, <1>7, <2>1
  <2>2. CASE i - n \in 1 .. Len(t) /\ st[i] = t[i - n]
    BY <1>5, <2>2
  <2> QED
    BY <1>6, <2>1, <2>2
<1>10. ASSUME NEW i \in 1 .. Len(st), NEW j \in 1 .. Len(st), i < j PROVE st[i].stmt <= st[j].stmt
  <2>1. CASE j <= n
    <3>1. j \in 1 .. n /\ i \in 1 .. n /\ i \in 1 .. j
      BY <1>4, <1>10, <2>1
    <3> QED
      BY <1>6, <1>7, <3>1
  <2>2. CASE j > n /\ i <= n
    <3>1. i \in 1 .. n
      BY <1>4, <2>2
    <3>2. st[i].stmt \in 1 .. i
      BY <1>6, <1>7, <3>1
    <3>3. st[j].stmt = n + 1
      BY <1>9, <2>2
    <3> QED
      BY <1>4, <2>2, <3>2, <3>3
  <2>3. CASE j > n /\ i > n
    <3>1. st[i].stmt = n + 1 /\ st[j].stmt = n + 1
      BY <1>9, <2>3
    <3> QED
      BY <1>4, <3>1
  <2> QED
    BY <1>4, <2>1, <2>2, <2>3
<1>11. ASSUME NEW j \in 1 .. Len(st), st[j].op = "dead"
       PROVE  j < n + 1 /\ \A i \in 1 .. j - 1 : st[i].stmt < st[j].stmt
  <2>1. j \in 1 .. n
    BY <1>4, <1>9, <1>11
  <2>2. st[j].stmt = j
    BY <1>6, <1>7, <1>11, <2>1
  <2>3. ASSUME NEW i \in 1 .. j - 1 PROVE st[i].stmt < j
    <3>1. i \in 1 .. n /\ i < j
      BY <1>4, <2>1
    <3>2. st[i].stmt \in 1 .. i
      BY <1>6, <1>7, <3>1
    <3> QED
      BY <3>1, <3>2
  <2> QED
    BY <1>4, <2>1, <2>2, <2>3
<1>12. ASSUME block.kind = "return", NEW j \in n + 1 .. Len(st) PROVE st[j].op \in {"copy", "move"}
  <2>1. PICK k : k = j - n
    OBVIOUS
  <2>2. k \in 1 .. Len(t) /\ j = n + k /\ ~(j \in 1 .. n) /\ j \in 1 .. n + Len(t)
    BY <1>4, <1>5, <1>6, <2>1
  <2>3. st[j] = t[k]
    BY <1>6, <2>1, <2>2
  <2>4. k \in 1 .. Len(es) /\ t[k].op = es[k].op
    BY <1>5, <2>2
  <2>5. es[k] \in ReadEntries(W)
    BY <1>2, <1>12, <2>4
  <2> QED
    BY <2>3, <2>4, <2>5 DEF ReadEntries
<1>13. n + 1 \in 1 .. Len(st) + 1
  BY <1>4, <1>5, <1>6
<1>14. InStatementOrder(m)
  BY <1>8, <1>10, <1>11, <1>12, <1>13 DEF InStatementOrder
<1> QED
  BY <1>8, <1>9, <1>14 DEF MirOf

LEMMA ReturnAtEndInv ==
  ASSUME NEW T, NEW W, NEW fb, LowerInv(T, W, fb), NEW g, g = ReturnAtEnd(fb)
  PROVE  /\ Built(T, W, g) /\ Newest(g) = Newest(fb)
         /\ fb.todo = <<>> /\ ~fb.diverged => Opened(g) = {} /\ Newest(g) >= 1
<1>1. Built(T, W, fb) /\ fb.cur \in All(fb) /\ Newest(fb) \in Nat
  BY BuiltType DEF LowerInv
<1>2. fb.todo = <<>> => Opened(fb) \subseteq {fb.cur}
  BY DEF LowerInv, Pending
<1>3. Newest(fb) >= 1
  BY <1>1 DEF All
<1>4. CASE ~fb.diverged /\ fb.blocks[fb.cur].kind = "unreachable"
  <2>1. PICK kind, none, c : kind = "return" /\ none = <<>> /\ c = fb.cur
    OBVIOUS
  <2>2. StmtList(W, none) /\ ReadList(W, none) /\ Jumps(fb, none) /\ kind \in {"flow", "return"} /\ c \in All(fb)
    BY <1>1, <2>1 DEF StmtList, ReadList, Jumps
  <2>3. g = SetTerminator(fb, c, kind, none, none)
    BY <1>4, <2>1 DEF ReturnAtEnd
  <2>4. /\ Built(T, W, g) /\ Kept(fb, g) /\ Newest(g) = Newest(fb) /\ Targetable(g) = Targetable(fb)
        /\ Opened(g) = Opened(fb) \ {c}
    BY <1>1, <2>2, <2>3, TermBuilt
  <2> QED
    BY <1>2, <1>3, <2>1, <2>4
<1>5. CASE fb.diverged
  BY <1>1, <1>5 DEF ReturnAtEnd
<1>6. CASE ~fb.diverged /\ fb.blocks[fb.cur].kind # "unreachable"
  <2>1. fb.cur \notin Opened(fb)
    BY <1>6 DEF Opened, IsOpen
  <2>2. g = fb
    BY <1>6 DEF ReturnAtEnd
  <2> QED
    BY <1>1, <1>2, <1>3, <2>1, <2>2
<1> QED
  BY <1>4, <1>5, <1>6

\* What lowering body gives, that fits in Blocks.
LoweredFrom(body, params, dropSelf, f) ==
  /\ params \subseteq Locals /\ f = LowerFn(params, dropSelf, body)
  /\ Blocks \subseteq Nat \ {0} /\ 1 .. f.size \subseteq Blocks

LEMMA FunctionOfFacts ==
  ASSUME NEW T, NEW W, NEW g, Built(T, W, g), Blocks \subseteq Nat \ {0}, All(g) \subseteq Blocks,
         NEW params, NEW dropSelf, NEW f, f = FunctionOf(g, params, dropSelf)
  PROVE  /\ f.entry = 1 /\ f.params = params /\ f.blocks \in [Blocks -> MirBlocks]
         /\ \A b \in Blocks : InStatementOrder(f.blocks[b])
         /\ \A b \in Blocks : \A i \in 1 .. Len(f.blocks[b].code) : Legal(W, f.blocks[b].code[i])
         /\ \A b \in All(g) : /\ f.blocks[b].kind = g.blocks[b].kind
                             /\ f.blocks[b].succ = g.blocks[b].succ
<1>1. PICK G : G = Targetable(g)
  OBVIOUS
<1>2. /\ G \subseteq Blocks /\ Newest(g) \in Nat
      /\ \A b \in All(g) : g.blocks[b] \in LoweredBlocks(W, G)
  BY <1>1, BuiltType DEF Targetable
<1>3. OpenBlock \in LoweredBlocks(W, G)
  <2>1. <<>> \in StmtSeqs(W)
    BY DEF StmtSeqs
  <2> QED
    BY <2>1 DEF LoweredBlocks, OpenBlock
<1> DEFINE Source(b) == IF b <= Newest(g) THEN g.blocks[b] ELSE OpenBlock
<1>4. ASSUME NEW b \in Blocks PROVE Source(b) \in LoweredBlocks(W, G)
  <2>1. b \in Nat \ {0}
    OBVIOUS
  <2>2. b <= Newest(g) => b \in All(g)
    BY <1>2, <2>1 DEF All
  <2> QED
    BY <1>2, <1>3, <2>2
<1>5. /\ f.entry = 1 /\ f.params = params
      /\ f.blocks = [b \in Blocks |-> MirBlock(Source(b))]
  BY DEF FunctionOf
<1>6. ASSUME NEW b \in All(g) PROVE Source(b) = g.blocks[b] /\ b \in Blocks
  BY <1>2 DEF All
<1> HIDE DEF Source
<1>7. ASSUME NEW b \in Blocks
      PROVE  /\ f.blocks[b] \in MirBlocks /\ InStatementOrder(f.blocks[b])
             /\ f.blocks[b].kind = Source(b).kind /\ f.blocks[b].succ = Source(b).succ
             /\ \A i \in 1 .. Len(f.blocks[b].code) : Legal(W, f.blocks[b].code[i])
  <2>1. PICK block, m : block = Source(b) /\ m = MirBlock(block)
    OBVIOUS
  <2>2. block \in LoweredBlocks(W, G) /\ f.blocks[b] = m
    BY <1>4, <1>5, <2>1
  <2>3. MirOf(W, block, m)
    BY <1>2, <2>1, <2>2, MirBlockFacts
  <2> QED
    BY <2>1, <2>2, <2>3 DEF MirOf
<1>8. f.blocks \in [Blocks -> MirBlocks]
  <2>1. DOMAIN f.blocks = Blocks /\ f.blocks = [b \in Blocks |-> f.blocks[b]]
    BY <1>5
  <2> QED
    BY <1>7, <2>1
<1> QED
  BY <1>5, <1>6, <1>7, <1>8

LEMMA LoweredSize ==
  ASSUME NEW T, Trees(T), NEW W, MovesWhole(T, W), NEW body \in Seq(T), NEW params, NEW dropSelf, NEW f,
         LoweredFrom(body, params, dropSelf, f), NEW g, g = ReturnAtEnd(Lowering(body)[MaxSteps])
  PROVE  /\ Built(T, W, g) /\ All(g) \subseteq Blocks /\ f = FunctionOf(g, params, dropSelf)
         /\ LowerInv(T, W, Lowering(body)[MaxSteps])
<1>1. PICK fb : fb = Lowering(body)[MaxSteps]
  OBVIOUS
<1>2. MaxSteps \in 0 .. MaxSteps
  BY TempsAssumption
<1>3. LowerInv(T, W, fb)
  BY <1>1, <1>2, LoweringInv
<1>4. g = ReturnAtEnd(fb)
  BY <1>1
<1>5. Built(T, W, g)
  BY <1>3, <1>4, ReturnAtEndInv
<1>6. f = FunctionOf(g, params, dropSelf)
  BY DEF LoweredFrom, LowerFn
<1>7. f.size = Newest(g)
  BY <1>6 DEF FunctionOf
<1>8. All(g) \subseteq Blocks
  BY <1>7 DEF LoweredFrom, All
<1> QED
  BY <1>1, <1>3, <1>5, <1>6, <1>8

\* Whatever is lowered is well-formed MIR: the entries of each block are in the
\* order of its statements, each StorageDead is one of its own, a return only
\* reads, and control only goes to blocks of the function.
THEOREM LoweringWellFormed ==
  ASSUME NEW T, Trees(T), NEW body \in Seq(T), NEW params, NEW dropSelf, NEW f,
         LoweredFrom(body, params, dropSelf, f)
  PROVE  WellFormed(f)
<1>1. PICK W : W = {}
  OBVIOUS
<1>2. MovesWhole(T, W)
  BY <1>1 DEF MovesWhole
<1>3. PICK g : g = ReturnAtEnd(Lowering(body)[MaxSteps])
  OBVIOUS
<1>4. Built(T, W, g) /\ All(g) \subseteq Blocks /\ f = FunctionOf(g, params, dropSelf)
  BY <1>2, <1>3, LoweredSize
<1>5. /\ f.entry = 1 /\ f.params = params /\ f.blocks \in [Blocks -> MirBlocks]
      /\ \A b \in Blocks : InStatementOrder(f.blocks[b])
      /\ \A b \in Blocks : \A i \in 1 .. Len(f.blocks[b].code) : Legal(W, f.blocks[b].code[i])
  BY <1>4, FunctionOfFacts DEF LoweredFrom
<1>6. 1 \in All(g)
  <2>1. g.cur \in All(g) /\ Newest(g) \in Nat
    BY <1>4, BuiltType
  <2> QED
    BY <2>1 DEF All
<1>7. f.entry \in Blocks /\ f.params \subseteq Locals
  BY <1>4, <1>5, <1>6 DEF LoweredFrom
<1> QED
  BY <1>5, <1>7 DEF WellFormed, Legal

LEMMA LoweringMovesWhole ==
  ASSUME NEW T, Trees(T), NEW W, MovesWhole(T, W), NEW body \in Seq(T), NEW params, NEW dropSelf, NEW f,
         LoweredFrom(body, params, dropSelf, f)
  PROVE  \A b \in Blocks : \A i \in 1 .. Len(f.blocks[b].code) : Legal(W, f.blocks[b].code[i])
<1>1. PICK g : g = ReturnAtEnd(Lowering(body)[MaxSteps])
  OBVIOUS
<1>2. Built(T, W, g) /\ All(g) \subseteq Blocks /\ f = FunctionOf(g, params, dropSelf)
  BY <1>1, LoweredSize
<1> QED
  BY <1>2, FunctionOfFacts DEF LoweredFrom

\* Blocks closed under control flow, each of which has got its terminator.
Terminated(f, R) ==
  /\ f.entry \in R
  /\ \A b \in R : /\ f.blocks[b].kind # "unreachable"
                 /\ \A k \in 1 .. Len(f.blocks[b].succ) : f.blocks[b].succ[k] \in R

LEMMA LoweringEnds ==
  ASSUME NEW T, Trees(T), NEW body \in Seq(T), NEW params, NEW dropSelf, NEW f,
         LoweredFrom(body, params, dropSelf, f), Complete(body)
  PROVE  \E R : R \subseteq Blocks /\ Terminated(f, R)
<1>1. PICK W : W = {}
  OBVIOUS
<1>2. MovesWhole(T, W)
  BY <1>1 DEF MovesWhole
<1>3. PICK fb, g : fb = Lowering(body)[MaxSteps] /\ g = ReturnAtEnd(fb)
  OBVIOUS
<1>4. /\ Built(T, W, g) /\ All(g) \subseteq Blocks /\ f = FunctionOf(g, params, dropSelf)
      /\ LowerInv(T, W, fb)
  BY <1>2, <1>3, LoweredSize
<1>5. Opened(g) = {} /\ Newest(g) >= 1
  BY <1>3, <1>4, ReturnAtEndInv DEF Complete
<1>6. PICK R : R = Targetable(g)
  OBVIOUS
<1>7. /\ f.entry = 1
      /\ \A b \in All(g) : f.blocks[b].kind = g.blocks[b].kind /\ f.blocks[b].succ = g.blocks[b].succ
  BY <1>4, FunctionOfFacts DEF LoweredFrom
<1>8. f.entry \in R
  <2>1. 1 \notin g.final /\ Newest(g) \in Nat
    BY <1>4, BuiltType
  <2> QED
    BY <1>5, <1>6, <1>7, <2>1 DEF Targetable, All
<1>9. ASSUME NEW b \in R
      PROVE  /\ f.blocks[b].kind # "unreachable"
             /\ \A k \in 1 .. Len(f.blocks[b].succ) : f.blocks[b].succ[k] \in R
  <2>1. b \in All(g) /\ b \notin g.final
    BY <1>6 DEF Targetable
  <2>2. g.blocks[b].kind # "unreachable"
    BY <1>5, <2>1 DEF Opened, IsOpen
  <2>3. g.blocks[b] \in LoweredBlocks(W, R)
    BY <1>4, <1>6, <2>1, BuiltType
  <2>4. g.blocks[b].succ \in Seq(R)
    BY <2>3 DEF LoweredBlocks
  <2>5. \A k \in 1 .. Len(g.blocks[b].succ) : g.blocks[b].succ[k] \in R
    BY <2>4
  <2> QED
    BY <1>7, <2>1, <2>2, <2>5
<1>10. R \subseteq Blocks
  BY <1>4, <1>6 DEF Targetable
<1> QED
  BY <1>8, <1>9, <1>10 DEF Terminated

-----------------------------------------------------------------------------
(* The lowered functions, analyzed and run. *)

\* g is what lowering a body of T gives, with none of it left out and no
\* statement behind one that leaves.
Compiled(T, g) ==
  \E body \in Seq(T), params \in SUBSET Locals, dropSelf \in Locals \cup {None} :
    LoweredFrom(body, params, dropSelf, g) /\ Complete(body)

\* What is analyzed: compiled functions, with drops of temporaries put anywhere.
Analyzed(T, f) == \E g : Compiled(T, g) /\ DropsAdded(f, g, Unnamed)
OfTrees(T) == \A f \in Functions : Analyzed(T, f)

LEMMA FlowEnds ==
  ASSUME NEW T, Trees(T), OfTrees(T), NEW f \in Functions
  PROVE  \E R \in SUBSET Blocks : Terminated(f, R)
<1>1. PICK g : Compiled(T, g) /\ SameFlow(f, g)
  BY DEF OfTrees, Analyzed, DropsAdded
<1>2. \E R : R \subseteq Blocks /\ Terminated(g, R)
  BY <1>1, LoweringEnds DEF Compiled
<1>3. PICK R : R \subseteq Blocks /\ Terminated(g, R)
  BY <1>2
<1>4. ASSUME NEW b \in R
      PROVE  /\ f.blocks[b].kind # "unreachable"
             /\ \A k \in 1 .. Len(f.blocks[b].succ) : f.blocks[b].succ[k] \in R
  <2>1. f.blocks[b].kind = g.blocks[b].kind /\ f.blocks[b].succ = g.blocks[b].succ
    BY <1>1, <1>3 DEF SameFlow
  <2> QED
    BY <1>3, <2>1 DEF Terminated
<1>5. f.entry \in R
  BY <1>1, <1>3 DEF Terminated, SameFlow
<1> QED
  BY <1>3, <1>4, <1>5 DEF Terminated

\* Control is in a block that has its terminator.
EndingInv == TypeInv /\ \E R \in SUBSET Blocks : Terminated(fn, R) /\ pc[1] \in R

LEMMA EndingInit ==
  ASSUME NEW T, Trees(T), OfTrees(T), Init
  PROVE  EndingInv
<1>1. TypeInv
  BY TypeInit
<1>2. fn \in Functions
  BY <1>1 DEF TypeInv
<1>3. PICK R \in SUBSET Blocks : Terminated(fn, R)
  BY <1>2, FlowEnds
<1>4. pc[1] = fn.entry
  BY DEF Init, ExecInit
<1> QED
  BY <1>1, <1>3, <1>4 DEF EndingInv, Terminated

LEMMA EndingStep ==
  ASSUME EndingInv, [Next]_vars
  PROVE  EndingInv'
<1>1. TypeInv'
  BY TypeStep DEF EndingInv
<1>2. fn' = fn
  BY DEF Next, Analysis, Execution, FlowNext, PopBlock, ConsumeCopy, ConsumeMove, WriteDestination, StorageLive,
         StorageDead, EnterSuccessor, EndBlock, Finish, Record, Start, ExecDrop, ExecCopy, ExecMove, ExecWrite,
         ExecLive, ExecDead, ExecBranch, ExecReturn, Step, vars, flowVars
<1>3. PICK R \in SUBSET Blocks : Terminated(fn, R) /\ pc[1] \in R
  BY DEF EndingInv
<1>4. pc'[1] \in R
  <2>1. CASE pc'[1] = pc[1]
    BY <1>3, <2>1
  <2>2. CASE Start
    BY <1>3, <2>2 DEF Start, Goto, Terminated
  <2>3. CASE ExecBranch
    <3>1. PICK s \in ToSet(Succ(pc[1])) : pc' = <<s, 1>>
      BY <2>3 DEF ExecBranch, Goto
    <3>2. fn \in Functions /\ pc[1] \in Blocks
      BY DEF EndingInv, TypeInv
    <3>3. Succ(pc[1]) \in Seq(Blocks)
      BY <3>2, BlockType
    <3>4. PICK k \in 1 .. Len(Succ(pc[1])) : s = Succ(pc[1])[k]
      BY <3>1, <3>3 DEF ToSet
    <3>5. s \in R
      BY <1>3, <3>4 DEF Terminated, Succ
    <3> QED
      BY <3>1, <3>5
  <2>4. pc'[1] = pc[1] \/ Start \/ ExecBranch
    BY DEF Next, Analysis, Execution, runVars, ExecDrop, ExecCopy, ExecMove, ExecWrite,
           ExecLive, ExecDead, ExecReturn, Step, Goto, vars
  <2> QED
    BY <2>1, <2>2, <2>3, <2>4
<1>5. Terminated(fn', R)
  BY <1>2, <1>3
<1> QED
  BY <1>1, <1>3, <1>4, <1>5 DEF EndingInv

\* No execution of a lowered function runs off a block that never got its
\* terminator: of a branch, loop, call or label nested in any way, and with
\* break, continue, return and aborts anywhere in it.
THEOREM NoFallThroughCorrect ==
  ASSUME NEW T, Trees(T), OfTrees(T)
  PROVE  Spec => []NoFallThrough
<1>1. EndingInv => NoFallThrough
  BY DEF EndingInv, Terminated, NoFallThrough
<1>2. Init => EndingInv
  BY EndingInit
<1>3. EndingInv /\ [Next]_vars => EndingInv'
  BY EndingStep
<1> QED
  BY <1>1, <1>2, <1>3, PTL DEF Spec

\* The locals that no tree of T moves or writes in part, lowering and prompt
\* drops move and write only whole: they take no value apart by themselves.
THEOREM LoweredMovesWhole ==
  ASSUME NEW T, Trees(T), NEW W, W \subseteq Locals, MovesWhole(T, W), OfTrees(T)
  PROVE  W \subseteq WholeLocals
<1> SUFFICES ASSUME NEW l \in W, NEW f \in Functions PROVE MovedWhole(f, l)
  BY DEF WholeLocals
<1>1. PICK g : Compiled(T, g) /\ DropsAdded(f, g, Unnamed)
  BY DEF OfTrees, Analyzed
<1>2. \A b \in Blocks : \A j \in 1 .. Len(g.blocks[b].code) : Legal(W, g.blocks[b].code[j])
  BY <1>1, LoweringMovesWhole DEF Compiled
<1>3. ASSUME NEW b \in Blocks, NEW i \in 1 .. Len(f.blocks[b].code),
             f.blocks[b].code[i].op \in {"move", "write"}, f.blocks[b].code[i].place.local = l
      PROVE  f.blocks[b].code[i].place.field = Whole
  <2>1. PICK e : e = f.blocks[b].code[i]
    OBVIOUS
  <2>2. \/ e.place \in {VarPlace(k) : k \in Unnamed}
        \/ \E j \in 1 .. Len(g.blocks[b].code) : e.op = g.blocks[b].code[j].op /\ e.place = g.blocks[b].code[j].place
    BY <1>1, <2>1 DEF DropsAdded
  <2>3. CASE e.place \in {VarPlace(k) : k \in Unnamed}
    BY <2>1, <2>3 DEF VarPlace
  <2>4. ASSUME NEW j \in 1 .. Len(g.blocks[b].code), e.op = g.blocks[b].code[j].op, e.place = g.blocks[b].code[j].place
        PROVE  e.place.field = Whole
    BY <1>2, <1>3, <2>1, <2>4 DEF Legal
  <2> QED
    BY <2>1, <2>2, <2>3, <2>4
<1> QED
  BY <1>3 DEF MovedWhole

\* The whole way from the tree: whatever is lowered from statements that use no
\* value in part, with any drops of temporaries put into it, once accepted, reads
\* no named local that is moved out or dropped, drops nothing twice, temporaries
\* included, keeps nothing it is known to own, and never runs off a block.
THEOREM CompiledSafe ==
  ASSUME NEW T, Trees(T), MovesWhole(T, Locals), OfTrees(T)
  PROVE  Spec => [](/\ OfNamed => NoUseAfterMove /\ NoUseAfterDrop
                    /\ DropsAreLive /\ OwnedIsReleased /\ NoFallThrough)
<1>1. Locals \subseteq WholeLocals
  BY LoweredMovesWhole
<1>2. MovesWholeLocals /\ MovesWholeNamed
  BY <1>1, WholeLocalsType DEF MovesWholeLocals, MovesWholeNamed
<1>3. Spec => [](OfNamed => NoUseAfterMove)
  BY <1>2, NoUseAfterMoveCorrect
<1>4. Spec => [](OfNamed => NoUseAfterDrop)
  BY <1>2, NoUseAfterDropCorrect
<1>5. Spec => []DropsAreLive
  BY <1>2, DropsAreLiveCorrect
<1>6. Spec => []OwnedIsReleased
  BY <1>2, OwnedIsReleasedCorrect
<1>7. Spec => []NoFallThrough
  BY NoFallThroughCorrect
<1> QED
  BY <1>3, <1>4, <1>5, <1>6, <1>7, PTL
=============================================================================
