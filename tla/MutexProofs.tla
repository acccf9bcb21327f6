----------------------------- MODULE MutexProofs -----------------------------
(***************************************************************************)
(* Mutex[T] on every platform, for any number of threads: guards exclude   *)
(* other threads, no increment is lost, and the mutex implements a guarded *)
(* cell.                                                                   *)
(***************************************************************************)
EXTENDS StdMutex, TLAPS

\* Only the owner of the mutex is inside "*g += 1", and the value has not
\* changed since it was loaded.
LoadedByOwner ==
  /\ data = adds
  /\ \A t \in Threads : loaded[t] # NotLoaded => owner = t /\ loaded[t] = data

\* No cell but the owner's counts guards, and the depth is their number.
OwnerGuards ==
  /\ owner = Nobody => depth = 0
  /\ owner # Nobody => depth = guards[owner] /\ depth > 0
  /\ \A t \in Threads : t # owner => guards[t] = 0

SingleGuard == relock # "nests" => \A t \in Threads : guards[t] <= 1

MutexInv == TypeOK /\ OwnerGuards /\ LoadedByOwner /\ SingleGuard

-----------------------------------------------------------------------------
LEMMA MutexInitially == Init => MutexInv
  BY MutexAssumption
  DEF Init, MutexInv, TypeOK, OwnerGuards, LoadedByOwner, SingleGuard, NotLoaded

LEMMA LockKeeps == ASSUME MutexInv, NEW t \in Threads, Lock(t) PROVE MutexInv'
  BY MutexAssumption
  DEF Lock, Calls, osMutex, MutexInv, TypeOK, OwnerGuards, LoadedByOwner, SingleGuard

\* A granted mutex: its new owner has one guard more, everybody else none.
LEMMA GrantKeeps ==
  ASSUME MutexInv, NEW t \in Threads, Granted(t), Acquire(t), guards[t] < MaxGuards,
         guards' = [guards EXCEPT ![t] = @ + 1], waiting' \subseteq Threads,
         UNCHANGED <<data, loaded, adds, running>>
  PROVE  MutexInv'
  <1> USE MutexAssumption DEF MutexInv, TypeOK, Granted, Acquire
  <1>1. depth = guards[t]
    <2>1. CASE owner = Nobody BY <2>1 DEF OwnerGuards
    <2>2. CASE owner = t BY <2>2 DEF OwnerGuards
    <2> QED BY <2>1, <2>2
  <1>2. TypeOK'
    <2>1. guards' \in [Threads -> 0 .. MaxGuards] OBVIOUS
    <2>2. depth' \in 0 .. MaxGuards BY <1>1
    <2> QED BY <2>1, <2>2
  <1>3. OwnerGuards' BY <1>1 DEF OwnerGuards
  <1>4. LoadedByOwner' BY DEF LoadedByOwner
  <1>5. SingleGuard' BY <1>1 DEF SingleGuard, OwnerGuards
  <1> QED BY <1>2, <1>3, <1>4, <1>5

\* A thread inside lock still has room for the guard it asked for.
RoomToWait == \A t \in waiting : guards[t] < MaxGuards

LEMMA LockReturnsKeeps == ASSUME MutexInv, RoomToWait, NEW t \in Threads, LockReturns(t) PROVE MutexInv'
  <1> USE DEF LockReturns
  <1>1. guards[t] < MaxGuards BY DEF RoomToWait
  <1>2. waiting' \subseteq Threads BY DEF MutexInv, TypeOK
  <1> QED BY <1>1, <1>2, GrantKeeps

LEMMA TryLockKeeps == ASSUME MutexInv, NEW t \in Threads, TryLock(t) PROVE MutexInv'
  <1> USE DEF TryLock
  <1>1. CASE Granted(t)
    <2>1. waiting' \subseteq Threads BY DEF MutexInv, TypeOK
    <2> QED BY <1>1, <2>1, GrantKeeps
  <1>2. CASE ~Granted(t)
    BY <1>2 DEF osMutex, MutexInv, TypeOK, OwnerGuards, LoadedByOwner, SingleGuard
  <1> QED BY <1>1, <1>2

LEMMA LockPanicsKeeps == ASSUME MutexInv, NEW t \in Threads, LockPanics(t) PROVE MutexInv'
  BY DEF LockPanics, osMutex, MutexInv, TypeOK, OwnerGuards, LoadedByOwner, SingleGuard

LEMMA LoadKeeps == ASSUME MutexInv, NEW t \in Threads, Load(t) PROVE MutexInv'
  <1> USE MutexAssumption DEF MutexInv, TypeOK, Load, Calls, osMutex, NotLoaded
  <1>1. owner = t BY DEF OwnerGuards
  <1>2. TypeOK' OBVIOUS
  <1>3. OwnerGuards' /\ SingleGuard' BY DEF OwnerGuards, SingleGuard
  <1>4. LoadedByOwner' BY <1>1 DEF LoadedByOwner
  <1> QED BY <1>2, <1>3, <1>4

LEMMA StoreKeeps == ASSUME MutexInv, NEW t \in Threads, Store(t) PROVE MutexInv'
  <1> USE MutexAssumption DEF MutexInv, TypeOK, Store, osMutex, NotLoaded
  <1>1. owner = t /\ loaded[t] = adds BY DEF LoadedByOwner
  <1>2. \A u \in Threads : u # t => loaded[u] = NotLoaded BY <1>1 DEF LoadedByOwner
  <1>3. TypeOK' BY <1>1
  <1>4. OwnerGuards' /\ SingleGuard' BY DEF OwnerGuards, SingleGuard
  <1>5. LoadedByOwner' BY <1>1, <1>2 DEF LoadedByOwner
  <1> QED BY <1>3, <1>4, <1>5

LEMMA DropGuardKeeps == ASSUME MutexInv, NEW t \in Threads, DropGuard(t) PROVE MutexInv'
  <1> USE MutexAssumption DEF MutexInv, TypeOK, DropGuard, Calls, Unlock
  <1>1. owner = t /\ depth = guards[t] /\ depth > 0 BY DEF OwnerGuards
  <1>2. TypeOK' BY <1>1
  <1>3. OwnerGuards' BY <1>1 DEF OwnerGuards
  <1>4. LoadedByOwner' BY <1>1 DEF LoadedByOwner
  <1>5. SingleGuard' BY <1>1 DEF SingleGuard
  <1> QED BY <1>2, <1>3, <1>4, <1>5

LEMMA RoomStep == ASSUME MutexInv, RoomToWait, [Next]_mutexVars PROVE RoomToWait'
  <1> USE MutexAssumption DEF MutexInv, TypeOK, RoomToWait
  <1>1. CASE UNCHANGED mutexVars BY <1>1 DEF mutexVars, osMutex
  <1>2. ASSUME NEW t \in Threads, Lock(t) PROVE RoomToWait' BY <1>2 DEF Lock
  <1>3. ASSUME NEW t \in Threads, LockReturns(t) PROVE RoomToWait' BY <1>3 DEF LockReturns
  <1>4. ASSUME NEW t \in Threads, LockPanics(t) PROVE RoomToWait' BY <1>4 DEF LockPanics
  <1>5. ASSUME NEW t \in Threads, TryLock(t) PROVE RoomToWait' BY <1>5 DEF TryLock, Calls, osMutex
  <1>6. ASSUME NEW t \in Threads, Load(t) \/ Store(t) PROVE RoomToWait' BY <1>6 DEF Load, Store
  <1>7. ASSUME NEW t \in Threads, DropGuard(t) PROVE RoomToWait' BY <1>7 DEF DropGuard, Calls
  <1> QED BY <1>1, <1>2, <1>3, <1>4, <1>5, <1>6, <1>7 DEF Next

LEMMA MutexStep == ASSUME MutexInv, RoomToWait, [Next]_mutexVars PROVE MutexInv'
  <1>1. CASE UNCHANGED mutexVars
    BY <1>1 DEF mutexVars, osMutex, MutexInv, TypeOK, OwnerGuards, LoadedByOwner, SingleGuard
  <1>2. CASE Next
    BY <1>2, LockKeeps, LockReturnsKeeps, TryLockKeeps, LockPanicsKeeps, LoadKeeps, StoreKeeps,
       DropGuardKeeps DEF Next
  <1> QED BY <1>1, <1>2

LEMMA MutexInvariant == Spec => [](MutexInv /\ RoomToWait)
  <1>1. Init => MutexInv /\ RoomToWait BY MutexInitially DEF Init, RoomToWait
  <1>2. (MutexInv /\ RoomToWait) /\ [Next]_mutexVars => (MutexInv /\ RoomToWait)' BY MutexStep, RoomStep
  <1> QED BY <1>1, <1>2, PTL DEF Spec

-----------------------------------------------------------------------------
\* The variables stay in their types: in particular the mutex is never
\* unlocked more often than it was locked.
THEOREM MutexTypeCorrect == Spec => []TypeOK
  <1>1. MutexInv => TypeOK BY DEF MutexInv
  <1> QED BY <1>1, MutexInvariant, PTL

\* lock, try_lock and the drop of guards, in any interleaving: two threads are
\* never inside one mutex.
THEOREM MutexExcludes == Spec => []MutualExclusion
  <1>1. MutexInv => MutualExclusion
    BY DEF MutexInv, TypeOK, OwnerGuards, LoadedByOwner, MutualExclusion, Holders
  <1> QED BY <1>1, MutexInvariant, PTL

\* "*g += 1" through guards never loses an increment.
THEOREM MutexLosesNothing == Spec => []NoLostUpdate
  <1>1. MutexInv => NoLostUpdate BY DEF MutexInv, LoadedByOwner, NoLostUpdate
  <1> QED BY <1>1, MutexInvariant, PTL

\* A mutex is locked exactly while guards exist that will unlock it.
THEOREM MutexLockedByGuards == Spec => []LockedByGuards
  <1>1. MutexInv => LockedByGuards
    BY MutexAssumption DEF MutexInv, TypeOK, OwnerGuards, LockedByGuards, Holders
  <1> QED BY <1>1, MutexInvariant, PTL

\* Where a mutex does not nest there is one guard at a time.
THEOREM MutexOneGuard == Spec => []OneGuardUnlessNested
  <1>1. MutexInv => OneGuardUnlessNested
    BY DEF MutexInv, TypeOK, OwnerGuards, SingleGuard, OneGuardUnlessNested, OneGuard, Holders
  <1> QED BY <1>1, MutexInvariant, PTL

-----------------------------------------------------------------------------
LEMMA CellStep == ASSUME MutexInv, [Next]_mutexVars PROVE [Cell!Next]_(Cell!vars)
  <1> USE MutexAssumption DEF MutexInv, TypeOK, Cell!vars, osMutex
  <1>1. CASE UNCHANGED mutexVars BY <1>1 DEF mutexVars
  <1>2. ASSUME NEW t \in Threads, Granted(t), Acquire(t), UNCHANGED data
        PROVE  Cell!Next \/ UNCHANGED Cell!vars
    BY <1>2 DEF Granted, Acquire, Cell!Next, Cell!Seize
  <1>3. ASSUME NEW t \in Threads, Lock(t) \/ LockPanics(t) \/ Load(t) PROVE UNCHANGED Cell!vars
    BY <1>3 DEF Lock, LockPanics, Load
  <1>4. ASSUME NEW t \in Threads, LockReturns(t) PROVE Cell!Next \/ UNCHANGED Cell!vars
    BY <1>2, <1>4 DEF LockReturns
  <1>5. ASSUME NEW t \in Threads, TryLock(t) PROVE Cell!Next \/ UNCHANGED Cell!vars
    BY <1>2, <1>5 DEF TryLock
  <1>6. ASSUME NEW t \in Threads, Store(t) PROVE Cell!Next
    BY <1>6 DEF Store, LoadedByOwner, Cell!Next, Cell!Update
  <1>7. ASSUME NEW t \in Threads, DropGuard(t) PROVE Cell!Next \/ UNCHANGED Cell!vars
    BY <1>7 DEF DropGuard, Unlock, OwnerGuards, Cell!Next, Cell!Yield
  <1> QED BY <1>1, <1>3, <1>4, <1>5, <1>6, <1>7 DEF Next

\* Every step of the mutex is a step of a cell with one writer and no readers,
\* or leaves it as it is.
THEOREM MutexRefinesCell == Spec => ImplementsGuardedCell
  <1>1. Init => Cell!Init BY DEF Init, Cell!Init
  <1>2. MutexInv /\ [Next]_mutexVars => [Cell!Next]_(Cell!vars) BY CellStep
  <1> QED BY <1>1, <1>2, MutexInvariant, PTL DEF Spec, ImplementsGuardedCell, Cell!Spec
=============================================================================
