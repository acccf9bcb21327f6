------------------------------- MODULE ArcCell -------------------------------
(***************************************************************************)
(* Arc[T] of lib/std/src/sync.zn: a value and a count in two heap cells,   *)
(* shared by any number of Arc structs ("handles"), each owned by one      *)
(* thread. The count is changed by one atomic instruction at a time; what  *)
(* drop does after its decrement is not atomic with it.                    *)
(*                                                                         *)
(* A handle is a name that is in use while some thread owns it. Allocator  *)
(* failure panics in the code and is left out.                             *)
(***************************************************************************)
EXTENDS Integers, FiniteSets

CONSTANTS Threads,    \* threads that may own handles
          Handles,    \* names of Arc structs
          Creator,    \* the thread that calls Arc.new
          Original,   \* the handle it gets
          Nobody,     \* owner of a handle that is not in use
          NoHandle,   \* value of unique[t] when t holds no such answer
          Windows     \* TRUE where arc_fetch_sub is InterlockedDecrement64

ASSUME ArcAssumption ==
  /\ Creator \in Threads /\ Original \in Handles
  /\ Nobody \notin Threads /\ NoHandle \notin Handles
  /\ IsFiniteSet(Handles)
  /\ Windows \in BOOLEAN

VARIABLES owner,      \* which thread owns each handle
          count,      \* the shared count
          value,      \* the heap cell of the value
          counter,    \* the heap cell of the count
          freeing,    \* what a thread inside drop still has to free
          unique      \* the handle whose is_unique() last answered true, until it is used

arcVars == <<owner, count, value, counter, freeing, unique>>

InUse == {h \in Handles : owner[h] # Nobody}
Owns(t, h) == freeing[t] = "nothing" /\ owner[h] = t
Forget(t, h) == [unique EXCEPT ![t] = IF @ = h THEN NoHandle ELSE @]

TypeOK ==
  /\ owner \in [Handles -> Threads \cup {Nobody}]
  /\ count \in Nat
  /\ value \in {"live", "freed"}
  /\ counter \in {"live", "freed"}
  /\ freeing \in [Threads -> {"nothing", "value", "counter"}]
  /\ unique \in [Threads -> Handles \cup {NoHandle}]

\* Arc.new
Init ==
  /\ owner = [h \in Handles |-> IF h = Original THEN Creator ELSE Nobody]
  /\ count = 1
  /\ value = "live" /\ counter = "live"
  /\ freeing = [t \in Threads |-> "nothing"]
  /\ unique = [t \in Threads |-> NoHandle]

\* Mutant of Clone: the new struct is not counted.
CloneUncounted(t, h, new) ==
  /\ Owns(t, h) /\ owner[new] = Nobody
  /\ owner' = [owner EXCEPT ![new] = t]
  /\ unique' = Forget(t, h)
  /\ UNCHANGED <<count, value, counter, freeing>>

\* clone: bump the count, then fill in a new struct.
Clone(t, h, new) ==
  /\ Owns(t, h) /\ owner[new] = Nobody
  /\ count' = count + 1
  /\ owner' = [owner EXCEPT ![new] = t]
  /\ unique' = Forget(t, h)
  /\ UNCHANGED <<value, counter, freeing>>

\* A closure that captured the handle is moved to another thread.
Send(t, u, h) ==
  /\ Owns(t, h) /\ u # t
  /\ owner' = [owner EXCEPT ![h] = u]
  /\ unique' = Forget(t, h)
  /\ UNCHANGED <<count, value, counter, freeing>>

\* Mutant of IsUnique: off by one.
UniqueWhenFew(t, h) ==
  /\ Owns(t, h)
  /\ unique' = [unique EXCEPT ![t] = IF count <= 2 THEN h ELSE NoHandle]
  /\ UNCHANGED <<owner, count, value, counter, freeing>>

\* is_unique: use_count() reads the count with an atomic add of zero.
IsUnique(t, h) ==
  /\ Owns(t, h)
  /\ unique' = [unique EXCEPT ![t] = IF count = 1 THEN h ELSE NoHandle]
  /\ UNCHANGED <<owner, count, value, counter, freeing>>

\* Mutant of FetchedBySub: every platform answers with the new count.
FetchedAfter == count - 1

\* arc_fetch_sub: __atomic_fetch_sub_8 returns the count before the
\* subtraction, InterlockedDecrement64 the count after it.
FetchedBySub == IF Windows THEN count - 1 ELSE count

\* drop, up to its condition.
Drop(t, h) ==
  /\ Owns(t, h)
  /\ count' = count - 1
  /\ owner' = [owner EXCEPT ![h] = Nobody]
  /\ freeing' = [freeing EXCEPT ![t] = IF FetchedBySub = 1 THEN "value" ELSE "nothing"]
  /\ unique' = Forget(t, h)
  /\ UNCHANGED <<value, counter>>

\* drop, inside the condition: the value is moved out and its cell freed ...
FreeValue(t) ==
  /\ freeing[t] = "value"
  /\ value' = "freed"
  /\ freeing' = [freeing EXCEPT ![t] = "counter"]
  /\ UNCHANGED <<owner, count, counter, unique>>

\* ... and then the cell of the count.
FreeCounter(t) ==
  /\ freeing[t] = "counter"
  /\ counter' = "freed"
  /\ freeing' = [freeing EXCEPT ![t] = "nothing"]
  /\ UNCHANGED <<owner, count, value, unique>>

Next ==
  \E t \in Threads :
    \/ \E h, new \in Handles : Clone(t, h, new)
    \/ \E h \in Handles, u \in Threads : Send(t, u, h)
    \/ \E h \in Handles : IsUnique(t, h) \/ Drop(t, h)
    \/ FreeValue(t) \/ FreeCounter(t)

\* A thread inside drop runs on; nothing makes an owner drop its handle.
Fairness == \A t \in Threads : WF_arcVars(FreeValue(t)) /\ WF_arcVars(FreeCounter(t))

Spec == Init /\ [][Next]_arcVars /\ Fairness

-----------------------------------------------------------------------------
\* No owner is ever left with a freed cell, and no cell is freed twice: the
\* decrement of one thread and the deallocations of another may interleave
\* in any way (Drop for Arc).
NoUseAfterFree ==
  /\ InUse # {} => value = "live" /\ counter = "live"
  /\ \A t \in Threads :
       /\ freeing[t] = "value" => value = "live"
       /\ freeing[t] # "nothing" => counter = "live"
  /\ \A t, u \in Threads : freeing[t] # "nothing" /\ freeing[u] # "nothing" => t = u

\* is_unique() == true stays true until its caller clones, drops or gives away
\* that very handle, so get_mut() after it is exclusive.
UniqueMeansAlone == \A t \in Threads : unique[t] # NoHandle => InUse = {unique[t]} /\ owner[unique[t]] = t

\* Once the last owner is gone both cells are freed (Drop for Arc).
LastOwnerFrees == (InUse = {}) ~> (value = "freed" /\ counter = "freed")

\* Arc is shared ownership of its value, whoever drops last.
Shared == INSTANCE SharedOwnership
            WITH Owners <- Handles, First <- Original, owners <- InUse, alive <- (value = "live")
ImplementsSharing == Shared!Spec
=============================================================================
