------------------------------ MODULE ArcProofs ------------------------------
(***************************************************************************)
(* Arc[T] where the atomic subtraction answers with the old count: for any *)
(* number of threads and handles nobody is left with a freed cell, and Arc *)
(* implements shared ownership of its value.                               *)
(***************************************************************************)
EXTENDS ArcCell, FiniteSetTheorems, TLAPS

\* Where the count and the cells stand, for each thread that is freeing.
\* The count is the number of handles in use, so it is zero from the moment
\* one thread starts to free, and no other decrement can answer one again.
Counted == count = Cardinality(InUse)

FreeingPhase ==
  /\ \A t \in Threads :
       /\ freeing[t] # "nothing" => InUse = {}
       /\ freeing[t] = "value" => value = "live"
       /\ freeing[t] # "nothing" => counter = "live"
  /\ \A t, u \in Threads : freeing[t] # "nothing" /\ freeing[u] # "nothing" => t = u
  /\ InUse # {} => value = "live" /\ counter = "live"

ArcInv == TypeOK /\ Counted /\ FreeingPhase /\ UniqueMeansAlone

-----------------------------------------------------------------------------
\* The handles in use are some of finitely many, so their number is a number.
LEMMA InUseFinite == IsFiniteSet(InUse) /\ Cardinality(InUse) \in Nat
  <1>1. IsFiniteSet(Handles) BY ArcAssumption
  <1>2. IsFiniteSet(InUse) BY <1>1, FS_Subset, InUse \subseteq Handles DEF InUse
  <1> QED BY <1>2, FS_CardinalityType

\* A number of one means one handle.
LEMMA CountOne == ASSUME NEW h \in InUse, Cardinality(InUse) = 1 PROVE InUse = {h}
  BY InUseFinite, FS_Singleton

LEMMA CountNone == ASSUME Cardinality(InUse) = 0 PROVE InUse = {}
  BY InUseFinite, FS_EmptySet

-----------------------------------------------------------------------------
LEMMA ArcInitially == Init => ArcInv
  <1> SUFFICES ASSUME Init PROVE ArcInv OBVIOUS
  <1> USE ArcAssumption DEF Init
  <1>1. InUse = {Original} BY DEF InUse
  <1>2. Cardinality({Original}) = 1 BY FS_Singleton
  <1>3. TypeOK BY DEF TypeOK
  <1>4. Counted BY <1>1, <1>2 DEF Counted
  <1>5. FreeingPhase BY DEF FreeingPhase
  <1>6. UniqueMeansAlone BY DEF UniqueMeansAlone
  <1> QED BY <1>3, <1>4, <1>5, <1>6 DEF ArcInv

\* What each action does to the handles in use.
LEMMA CloneAdds ==
  ASSUME ArcInv, NEW t \in Threads, NEW h \in Handles, NEW new \in Handles, Clone(t, h, new)
  PROVE  InUse' = InUse \cup {new} /\ new \notin InUse /\ h \in InUse
  BY ArcAssumption DEF ArcInv, TypeOK, Clone, Owns, InUse

LEMMA SendKeeps ==
  ASSUME ArcInv, NEW t \in Threads, NEW u \in Threads, NEW h \in Handles, Send(t, u, h)
  PROVE  InUse' = InUse /\ h \in InUse
  BY ArcAssumption DEF ArcInv, TypeOK, Send, Owns, InUse

LEMMA DropRemoves ==
  ASSUME ArcInv, NEW t \in Threads, NEW h \in Handles, Drop(t, h)
  PROVE  InUse' = InUse \ {h} /\ h \in InUse
  BY ArcAssumption DEF ArcInv, TypeOK, Drop, Owns, InUse

-----------------------------------------------------------------------------
LEMMA CloneKeeps ==
  ASSUME ArcInv, NEW t \in Threads, NEW h \in Handles, NEW new \in Handles, Clone(t, h, new)
  PROVE  ArcInv'
  <1> USE ArcAssumption DEF ArcInv, TypeOK, Clone, Owns
  <1>1. InUse' = InUse \cup {new} /\ new \notin InUse /\ h \in InUse BY CloneAdds
  <1>2. Cardinality(InUse \cup {new}) = Cardinality(InUse) + 1
    BY <1>1, InUseFinite, FS_AddElement
  <1>3. Counted' BY <1>1, <1>2 DEF Counted
  <1>4. TypeOK' BY DEF Forget
  <1>5. FreeingPhase' BY <1>1 DEF FreeingPhase
  <1>6. UniqueMeansAlone'
    <2> SUFFICES ASSUME NEW u \in Threads, unique'[u] # NoHandle PROVE FALSE BY DEF UniqueMeansAlone
    <2>1. unique[u] # NoHandle /\ InUse = {unique[u]} /\ owner[unique[u]] = u
      BY DEF UniqueMeansAlone, Forget
    <2>2. unique[u] = h /\ u = t BY <1>1, <2>1
    <2> QED BY <2>2 DEF Forget
  <1> QED BY <1>3, <1>4, <1>5, <1>6

LEMMA SendStays ==
  ASSUME ArcInv, NEW t \in Threads, NEW u \in Threads, NEW h \in Handles, Send(t, u, h)
  PROVE  ArcInv'
  <1> USE ArcAssumption DEF ArcInv, TypeOK, Send, Owns
  <1>1. InUse' = InUse /\ h \in InUse BY SendKeeps
  <1>2. TypeOK' BY DEF Forget
  <1>3. Counted' BY <1>1 DEF Counted
  <1>4. FreeingPhase' BY <1>1 DEF FreeingPhase
  <1>5. UniqueMeansAlone'
    <2> SUFFICES ASSUME NEW v \in Threads, unique'[v] # NoHandle PROVE FALSE BY DEF UniqueMeansAlone
    <2>1. unique[v] # NoHandle /\ InUse = {unique[v]} /\ owner[unique[v]] = v
      BY DEF UniqueMeansAlone, Forget
    <2>2. unique[v] = h /\ v = t BY <1>1, <2>1
    <2> QED BY <2>2 DEF Forget
  <1> QED BY <1>2, <1>3, <1>4, <1>5

LEMMA IsUniqueKeeps ==
  ASSUME ArcInv, NEW t \in Threads, NEW h \in Handles, IsUnique(t, h)
  PROVE  ArcInv'
  <1> USE ArcAssumption DEF ArcInv, TypeOK, IsUnique, Owns
  <1>1. InUse' = InUse /\ h \in InUse BY DEF InUse
  <1>2. TypeOK' OBVIOUS
  <1>3. Counted' BY <1>1 DEF Counted
  <1>4. FreeingPhase' BY <1>1 DEF FreeingPhase
  <1>5. count = 1 => InUse = {h} BY <1>1, CountOne DEF Counted
  <1>6. UniqueMeansAlone'
    <2> SUFFICES ASSUME NEW v \in Threads, unique'[v] # NoHandle
                 PROVE  InUse = {unique'[v]} /\ owner[unique'[v]] = v
      BY <1>1 DEF UniqueMeansAlone
    <2>1. CASE v = t BY <2>1, <1>5
    <2>2. CASE v # t BY <2>2 DEF UniqueMeansAlone
    <2> QED BY <2>1, <2>2
  <1> QED BY <1>2, <1>3, <1>4, <1>6

LEMMA DropKeeps ==
  ASSUME ~Windows, ArcInv, NEW t \in Threads, NEW h \in Handles, Drop(t, h)
  PROVE  ArcInv'
  <1> USE ArcAssumption DEF ArcInv, TypeOK, Drop, Owns
  <1>1. InUse' = InUse \ {h} /\ h \in InUse BY DropRemoves
  <1>2. Cardinality(InUse \ {h}) = Cardinality(InUse) - 1 /\ Cardinality(InUse) \in Nat
    BY <1>1, InUseFinite, FS_RemoveElement
  <1>3. Cardinality(InUse) # 0 BY <1>1, CountNone
  <1>4. Counted' BY <1>1, <1>2 DEF Counted
  <1>5. TypeOK' BY <1>2, <1>3 DEF Counted, Forget
  <1>6. \A u \in Threads : freeing[u] = "nothing" BY <1>1 DEF FreeingPhase
  <1>7. freeing'[t] # "nothing" => InUse' = {}
    BY <1>1, CountOne DEF Counted, FetchedBySub
  <1>8. FreeingPhase' BY <1>1, <1>6, <1>7 DEF FreeingPhase
  <1>9. UniqueMeansAlone'
    <2> SUFFICES ASSUME NEW v \in Threads, unique'[v] # NoHandle PROVE FALSE BY DEF UniqueMeansAlone
    <2>1. unique[v] # NoHandle /\ InUse = {unique[v]} /\ owner[unique[v]] = v
      BY DEF UniqueMeansAlone, Forget
    <2>2. unique[v] = h /\ v = t BY <1>1, <2>1
    <2> QED BY <2>2 DEF Forget
  <1> QED BY <1>4, <1>5, <1>8, <1>9

LEMMA FreeingKeeps ==
  ASSUME ArcInv, NEW t \in Threads, FreeValue(t) \/ FreeCounter(t)
  PROVE  ArcInv'
  <1> USE ArcAssumption DEF ArcInv, TypeOK, FreeValue, FreeCounter
  <1>1. InUse' = InUse BY DEF InUse
  <1>2. TypeOK' OBVIOUS
  <1>3. Counted' BY <1>1 DEF Counted
  <1>4. FreeingPhase' BY <1>1 DEF FreeingPhase
  <1>5. UniqueMeansAlone' BY <1>1 DEF UniqueMeansAlone
  <1> QED BY <1>2, <1>3, <1>4, <1>5

LEMMA ArcStep == ASSUME ~Windows, ArcInv, [Next]_arcVars PROVE ArcInv'
  <1>1. CASE UNCHANGED arcVars
    BY <1>1 DEF arcVars, ArcInv, TypeOK, Counted, FreeingPhase, UniqueMeansAlone, InUse
  <1>2. CASE Next BY <1>2, CloneKeeps, SendStays, IsUniqueKeeps, DropKeeps, FreeingKeeps DEF Next
  <1> QED BY <1>1, <1>2

LEMMA ArcInvariant == ASSUME ~Windows PROVE Spec => []ArcInv
  <1>1. Init => ArcInv BY ArcInitially
  <1>2. ArcInv /\ [Next]_arcVars => ArcInv' BY ArcStep
  <1> QED BY <1>1, <1>2, PTL DEF Spec

-----------------------------------------------------------------------------
\* Drop for Arc, clone and is_unique, in any order and by any number of
\* threads: the cells of a handle in use are never freed, and each is freed
\* by one thread only.
THEOREM ArcNeverDangles == ASSUME ~Windows PROVE Spec => []NoUseAfterFree
  <1>1. ArcInv => NoUseAfterFree BY DEF ArcInv, FreeingPhase, NoUseAfterFree
  <1> QED BY <1>1, ArcInvariant, PTL

\* is_unique() is never a stale answer while its handle is left alone.
THEOREM ArcUniqueCorrect == ASSUME ~Windows PROVE Spec => []UniqueMeansAlone
  <1>1. ArcInv => UniqueMeansAlone BY DEF ArcInv
  <1> QED BY <1>1, ArcInvariant, PTL

-----------------------------------------------------------------------------
\* From the drop of the last handle on, one thread frees the value and then
\* the count, until both are gone: the safety half of LastOwnerFrees.
LastDropFrees ==
  InUse = {} => \/ \E t \in Threads : freeing[t] = "value"
                \/ value = "freed" /\ (counter = "freed" \/ \E t \in Threads : freeing[t] = "counter")

LEMMA LastDropInitially == Init => LastDropFrees
  BY ArcAssumption DEF Init, LastDropFrees, InUse

LEMMA LastDropStep == ASSUME ~Windows, ArcInv, LastDropFrees, [Next]_arcVars PROVE LastDropFrees'
  <1> USE ArcAssumption DEF LastDropFrees
  <1>1. CASE UNCHANGED arcVars BY <1>1 DEF arcVars, InUse
  <1>2. ASSUME NEW t \in Threads, NEW h \in Handles, NEW new \in Handles, Clone(t, h, new)
        PROVE  LastDropFrees'
    BY <1>2, CloneAdds
  <1>3. ASSUME NEW t \in Threads, NEW u \in Threads, NEW h \in Handles, Send(t, u, h)
        PROVE  LastDropFrees'
    BY <1>3, SendKeeps
  <1>4. ASSUME NEW t \in Threads, NEW h \in Handles, IsUnique(t, h) PROVE LastDropFrees'
    BY <1>4 DEF IsUnique, InUse
  <1>5. ASSUME NEW t \in Threads, NEW h \in Handles, Drop(t, h) PROVE LastDropFrees'
    <2> SUFFICES ASSUME InUse' = {} PROVE freeing'[t] = "value" OBVIOUS
    <2>1. InUse = {h} BY <1>5, DropRemoves
    <2>2. count = 1 BY <2>1, FS_Singleton DEF ArcInv, Counted
    <2> QED BY <1>5, <2>2 DEF Drop, FetchedBySub, ArcInv, TypeOK
  <1>6. ASSUME NEW t \in Threads, FreeValue(t) PROVE LastDropFrees'
    BY <1>6 DEF FreeValue, ArcInv, TypeOK
  <1>7. ASSUME NEW t \in Threads, FreeCounter(t) PROVE LastDropFrees'
    <2>1. InUse = {} /\ ~ \E u \in Threads : freeing[u] = "value"
      BY <1>7 DEF FreeCounter, ArcInv, FreeingPhase
    <2> QED BY <1>7, <2>1 DEF FreeCounter
  <1> QED BY <1>1, <1>2, <1>3, <1>4, <1>5, <1>6, <1>7 DEF Next

-----------------------------------------------------------------------------
LEMMA SharingInitially == Init => Shared!Init
  BY ArcAssumption DEF Init, Shared!Init, InUse

LEMMA SharingStep == ASSUME ~Windows, ArcInv, [Next]_arcVars PROVE [Shared!Next]_(Shared!vars)
  <1>1. CASE UNCHANGED arcVars BY <1>1 DEF arcVars, Shared!vars, InUse
  <1>2. ASSUME NEW t \in Threads, NEW h \in Handles, NEW new \in Handles, Clone(t, h, new)
        PROVE  Shared!Next
    BY <1>2, CloneAdds DEF Shared!Next, Shared!Share, Clone, InUse
  <1>3. ASSUME NEW t \in Threads, NEW u \in Threads, NEW h \in Handles, Send(t, u, h)
        PROVE  UNCHANGED Shared!vars
    BY <1>3, SendKeeps DEF Shared!vars, Send
  <1>4. ASSUME NEW t \in Threads, NEW h \in Handles, IsUnique(t, h) PROVE UNCHANGED Shared!vars
    BY <1>4 DEF Shared!vars, IsUnique, InUse
  <1>5. ASSUME NEW t \in Threads, NEW h \in Handles, Drop(t, h) PROVE Shared!Next
    BY <1>5, DropRemoves DEF Shared!Next, Shared!Release, Drop
  <1>6. ASSUME NEW t \in Threads, FreeValue(t) PROVE Shared!Next
    BY <1>6 DEF Shared!Next, Shared!Reclaim, FreeValue, ArcInv, FreeingPhase, InUse
  <1>7. ASSUME NEW t \in Threads, FreeCounter(t) PROVE UNCHANGED Shared!vars
    BY <1>7 DEF Shared!vars, FreeCounter, InUse
  <1> QED BY <1>1, <1>2, <1>3, <1>4, <1>5, <1>6, <1>7 DEF Next

\* Every step of Arc is a step of shared ownership, or leaves it as it is:
\* the value is reclaimed once, by the last owner, and never before.
THEOREM ArcRefinesSharing == ASSUME ~Windows PROVE Spec => Shared!Init /\ [][Shared!Next]_(Shared!vars)
  <1>1. Init => Shared!Init BY SharingInitially
  <1>2. ArcInv /\ [Next]_arcVars => [Shared!Next]_(Shared!vars) BY SharingStep
  <1> QED BY <1>1, <1>2, ArcInvariant, PTL DEF Spec
=============================================================================
