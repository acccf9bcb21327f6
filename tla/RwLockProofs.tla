---------------------------- MODULE RwLockProofs -----------------------------
(***************************************************************************)
(* RwLock[T] for any number of threads: a writer is alone, readers never   *)
(* see half of an update, and the lock implements a guarded cell.          *)
(***************************************************************************)
EXTENDS StdRwLock, TLAPS

\* The lock of the operating system excludes, and the guards mirror it.
Excludes ==
  /\ LockedByGuards
  /\ writer # Nobody => \A t \in Threads : shares[t] = 0

\* The parts of the value agree except inside an update, whose writer has
\* loaded the old value; what a reader has loaded is the current one.
Consistent ==
  /\ second = writes
  /\ \A t \in Threads \ writeGuards :
       seen[t] # Nothing => readGuards[t] > 0 /\ seen[t] = first /\ first = second
  /\ \A t \in writeGuards :
       IF seen[t] = Nothing THEN first = second
       ELSE seen[t] = second /\ first = second + 1 /\ writes < MaxWrites
  /\ writeGuards = {} => first = second

\* A thread that waits has asked for a guard it has room for, and is not
\* inside "*g += 1".
Waits ==
  \A t \in Threads : waiting[t] # "nothing" => readGuards[t] < MaxGuards /\ seen[t] = Nothing

RwInv == TypeOK /\ Excludes /\ Consistent /\ Waits

-----------------------------------------------------------------------------
LEMMA RwInitially == Init => RwInv
  BY RwLockAssumption DEF Init, RwInv, TypeOK, Excludes, Consistent, Waits, LockedByGuards, Nothing

LEMMA CallKeeps == ASSUME RwInv, NEW t \in Threads, Call(t) PROVE RwInv'
  BY RwLockAssumption
  DEF Call, Calls, osLock, held, content, RwInv, TypeOK, Excludes, Consistent, Waits, LockedByGuards

\* A shared grant: no writer is inside, so the value is whole.
LEMMA SharedKeeps ==
  ASSUME RwInv, NEW t \in Threads, Shareable, AcquireShared(t), GetRead(t),
         readGuards[t] < MaxGuards, seen[t] = Nothing,
         waiting' \in {waiting, [waiting EXCEPT ![t] = "nothing"]}, UNCHANGED <<content, seen>>,
         waiting'[t] = "nothing"
  PROVE  RwInv'
  <1> USE RwLockAssumption DEF RwInv, TypeOK, Shareable, AcquireShared, GetRead, content
  <1>1. TypeOK' BY DEF Excludes, LockedByGuards
  <1>2. Excludes' BY DEF Excludes, LockedByGuards
  <1>3. Consistent' BY DEF Consistent
  <1>4. Waits' BY DEF Waits
  <1> QED BY <1>1, <1>2, <1>3, <1>4

\* An exclusive grant: nobody is inside.
LEMMA ExclusiveKeeps ==
  ASSUME RwInv, NEW t \in Threads, Free, AcquireExclusive(t), GetWrite(t), seen[t] = Nothing,
         waiting' \in {waiting, [waiting EXCEPT ![t] = "nothing"]}, UNCHANGED <<content, seen>>,
         waiting'[t] = "nothing"
  PROVE  RwInv'
  <1> USE RwLockAssumption DEF RwInv, TypeOK, Free, AcquireExclusive, GetWrite, content
  <1>1. writeGuards = {} /\ \A u \in Threads : readGuards[u] = 0 BY DEF Excludes, LockedByGuards
  <1>2. TypeOK' OBVIOUS
  <1>3. Excludes' BY <1>1 DEF Excludes, LockedByGuards
  <1>4. Consistent' BY <1>1 DEF Consistent
  <1>5. Waits' BY DEF Waits
  <1> QED BY <1>2, <1>3, <1>4, <1>5

LEMMA ReadReturnsKeeps == ASSUME RwInv, NEW t \in Threads, ReadReturns(t) PROVE RwInv'
  <1>1. readGuards[t] < MaxGuards /\ seen[t] = Nothing BY DEF ReadReturns, RwInv, Waits
  <1>2. waiting'[t] = "nothing" BY DEF ReadReturns, RwInv, TypeOK
  <1> QED BY <1>1, <1>2, SharedKeeps DEF ReadReturns

LEMMA WriteReturnsKeeps == ASSUME RwInv, NEW t \in Threads, WriteReturns(t) PROVE RwInv'
  <1>1. seen[t] = Nothing BY DEF WriteReturns, RwInv, Waits
  <1>2. waiting'[t] = "nothing" BY DEF WriteReturns, RwInv, TypeOK
  <1> QED BY <1>1, <1>2, ExclusiveKeeps DEF WriteReturns

LEMMA TryReadKeeps == ASSUME RwInv, NEW t \in Threads, TryRead(t) PROVE RwInv'
  <1>1. CASE Shareable BY <1>1, SharedKeeps DEF TryRead, Calls
  <1>2. CASE ~Shareable
    BY <1>2 DEF TryRead, osLock, held, content, RwInv, TypeOK, Excludes, Consistent, Waits, LockedByGuards
  <1> QED BY <1>1, <1>2

LEMMA TryWriteKeeps == ASSUME RwInv, NEW t \in Threads, TryWrite(t) PROVE RwInv'
  <1>1. CASE Free BY <1>1, ExclusiveKeeps DEF TryWrite, Calls
  <1>2. CASE ~Free
    BY <1>2 DEF TryWrite, osLock, held, content, RwInv, TypeOK, Excludes, Consistent, Waits, LockedByGuards
  <1> QED BY <1>1, <1>2

LEMMA LookKeeps == ASSUME RwInv, NEW t \in Threads, Look(t) PROVE RwInv'
  <1> USE RwLockAssumption DEF RwInv, TypeOK, Look, Calls, osLock, held, content, Nothing
  <1>1. writeGuards = {} BY DEF Excludes, LockedByGuards
  <1>2. TypeOK' OBVIOUS
  <1>3. Excludes' BY DEF Excludes, LockedByGuards
  <1>4. Consistent' BY <1>1 DEF Consistent
  <1>5. Waits' BY DEF Waits
  <1> QED BY <1>2, <1>3, <1>4, <1>5

LEMMA CompareKeeps == ASSUME RwInv, NEW t \in Threads, Compare(t) PROVE RwInv'
  <1> USE RwLockAssumption DEF RwInv, TypeOK, Compare, osLock, held, content, Nothing
  <1>1. TypeOK' OBVIOUS
  <1>2. Excludes' BY DEF Excludes, LockedByGuards
  <1>3. Consistent' BY DEF Consistent
  <1>4. Waits' BY DEF Waits
  <1> QED BY <1>1, <1>2, <1>3, <1>4

LEMMA UpdateKeeps == ASSUME RwInv, NEW t \in Threads, Begin(t) \/ Complete(t) PROVE RwInv'
  <1> USE RwLockAssumption DEF RwInv, TypeOK, Begin, Complete, Calls, osLock, held, Nothing
  <1>1. writeGuards = {t} /\ t # Nobody /\ \A u \in Threads : readGuards[u] = 0
    BY DEF Excludes, LockedByGuards
  <1>2. \A u \in Threads : u # t => seen[u] = Nothing BY <1>1 DEF Consistent
  <1>3. TypeOK' BY <1>1 DEF Consistent
  <1>4. Excludes' BY DEF Excludes, LockedByGuards
  <1>5. Consistent' BY <1>1, <1>2 DEF Consistent
  <1>6. Waits' BY DEF Waits
  <1> QED BY <1>3, <1>4, <1>5, <1>6

LEMMA DropReadKeeps == ASSUME RwInv, NEW t \in Threads, DropRead(t) PROVE RwInv'
  <1> USE RwLockAssumption DEF RwInv, TypeOK, DropRead, Calls, Unlock, content
  <1>1. writer = Nobody /\ writeGuards = {} /\ shares = readGuards BY DEF Excludes, LockedByGuards
  <1>2. shares' = readGuards' /\ writer' = writer BY <1>1
  <1>3. TypeOK' BY <1>2
  <1>4. Excludes' BY <1>1, <1>2 DEF Excludes, LockedByGuards
  <1>5. Consistent' BY <1>1 DEF Consistent
  <1>6. Waits' BY DEF Waits
  <1> QED BY <1>3, <1>4, <1>5, <1>6

LEMMA DropWriteKeeps == ASSUME RwInv, NEW t \in Threads, DropWrite(t) PROVE RwInv'
  <1> USE RwLockAssumption DEF RwInv, TypeOK, DropWrite, Calls, Unlock, content
  <1>1. writer = t /\ writeGuards = {t} BY DEF Excludes, LockedByGuards
  <1>2. writeGuards' = {} /\ writer' = Nobody /\ shares' = shares BY <1>1
  <1>3. TypeOK' BY <1>2
  <1>4. Excludes' BY <1>2 DEF Excludes, LockedByGuards
  <1>5. Consistent' BY <1>1, <1>2 DEF Consistent
  <1>6. Waits' BY DEF Waits
  <1> QED BY <1>3, <1>4, <1>5, <1>6

LEMMA RwStep == ASSUME RwInv, [Next]_rwVars PROVE RwInv'
  <1>1. CASE UNCHANGED rwVars
    BY <1>1 DEF rwVars, osLock, held, content, RwInv, TypeOK, Excludes, Consistent, Waits, LockedByGuards
  <1>2. CASE Next
    BY <1>2, CallKeeps, ReadReturnsKeeps, WriteReturnsKeeps, TryReadKeeps, TryWriteKeeps, LookKeeps,
       CompareKeeps, UpdateKeeps, DropReadKeeps, DropWriteKeeps DEF Next
  <1> QED BY <1>1, <1>2

LEMMA RwInvariant == Spec => []RwInv
  <1>1. Init => RwInv BY RwInitially
  <1>2. RwInv /\ [Next]_rwVars => RwInv' BY RwStep
  <1> QED BY <1>1, <1>2, PTL DEF Spec

-----------------------------------------------------------------------------
\* Whatever mix of read, try_read, write and try_write took the guards, a
\* writer is alone.
THEOREM RwWriterAlone == Spec => []WriterAlone
  <1>1. ASSUME RwInv, NEW t \in writeGuards PROVE writeGuards = {t} /\ Readers = {}
    <2>1. writer = t /\ writeGuards = {t} BY <1>1 DEF RwInv, Excludes, LockedByGuards
    <2>2. t # Nobody BY <1>1, RwLockAssumption DEF RwInv, TypeOK
    <2>3. \A u \in Threads : readGuards[u] = 0 BY <1>1, <2>1, <2>2 DEF RwInv, Excludes, LockedByGuards
    <2> QED BY <2>1, <2>3 DEF Readers
  <1>2. RwInv => WriterAlone BY <1>1 DEF WriterAlone
  <1> QED BY <1>2, RwInvariant, PTL

\* A reader never sees half of an update.
THEOREM RwNoTornRead == Spec => []NoTornRead
  <1>1. RwInv => NoTornRead BY DEF RwInv, Consistent, NoTornRead
  <1> QED BY <1>1, RwInvariant, PTL

\* No update through a write guard is lost.
THEOREM RwLosesNothing == Spec => []NoLostUpdate
  <1>1. RwInv => NoLostUpdate BY DEF RwInv, Consistent, NoLostUpdate
  <1> QED BY <1>1, RwInvariant, PTL

\* The guards and the lock of the operating system agree.
THEOREM RwLockedByGuards == Spec => []LockedByGuards
  <1>1. RwInv => LockedByGuards BY DEF RwInv, Excludes
  <1> QED BY <1>1, RwInvariant, PTL

-----------------------------------------------------------------------------
LEMMA ReadersAfter ==
  ASSUME RwInv, NEW t \in Threads, GetRead(t) PROVE Readers' = Readers \cup {t}
  BY DEF GetRead, RwInv, TypeOK, Readers

LEMMA CellStep == ASSUME RwInv, [Next]_rwVars PROVE [Cell!Next]_(Cell!vars)
  <1> USE RwLockAssumption DEF RwInv, TypeOK, Cell!vars, osLock, held, content, Readers
  <1>1. CASE UNCHANGED rwVars BY <1>1 DEF rwVars
  <1>2. ASSUME NEW t \in Threads, Shareable, AcquireShared(t), GetRead(t), UNCHANGED second
        PROVE  Cell!Next \/ UNCHANGED Cell!vars
    <2>1. Readers' = Readers \cup {t} BY <1>2, ReadersAfter
    <2>2. CASE t \in Readers BY <1>2, <2>1, <2>2 DEF AcquireShared
    <2>3. CASE t \notin Readers
      BY <1>2, <2>1, <2>3 DEF Shareable, AcquireShared, Cell!Next, Cell!Enter
    <2> QED BY <2>2, <2>3
  <1>3. ASSUME NEW t \in Threads, Free, AcquireExclusive(t), GetWrite(t), UNCHANGED second
        PROVE  Cell!Next
    <2>1. Readers = {} BY <1>3 DEF Free, Excludes, LockedByGuards
    <2>2. Readers' = {} BY <1>3, <2>1 DEF GetWrite
    <2> QED BY <1>3, <2>1, <2>2 DEF Free, AcquireExclusive, Cell!Next, Cell!Seize
  <1>4. ASSUME NEW t \in Threads, Call(t) \/ Look(t) \/ Compare(t) \/ Begin(t)
        PROVE  UNCHANGED Cell!vars
    BY <1>4 DEF Call, Look, Compare, Begin
  <1>5. ASSUME NEW t \in Threads, ReadReturns(t) \/ TryRead(t) PROVE Cell!Next \/ UNCHANGED Cell!vars
    BY <1>2, <1>5 DEF ReadReturns, TryRead
  <1>6. ASSUME NEW t \in Threads, WriteReturns(t) \/ TryWrite(t)
        PROVE  Cell!Next \/ UNCHANGED Cell!vars
    BY <1>3, <1>6 DEF WriteReturns, TryWrite
  <1>7. ASSUME NEW t \in Threads, Complete(t) PROVE Cell!Next
    <2>1. writer = t BY <1>7 DEF Complete, Excludes, LockedByGuards
    <2>2. second' = second + 1 /\ UNCHANGED <<Readers, writer>> BY <1>7 DEF Complete, Consistent
    <2> QED BY <2>1, <2>2 DEF Cell!Next, Cell!Update
  <1>8. ASSUME NEW t \in Threads, DropRead(t) PROVE Cell!Next \/ UNCHANGED Cell!vars
    <2>1. writer = Nobody /\ t \in Readers BY <1>8 DEF DropRead, Excludes, LockedByGuards
    <2>2. writer' = writer /\ second' = second BY <1>8, <2>1 DEF DropRead, Unlock
    <2>3. Readers' = Readers \/ Readers' = Readers \ {t} BY <1>8 DEF DropRead
    <2> QED BY <2>1, <2>2, <2>3 DEF Cell!Next, Cell!Leave
  <1>9. ASSUME NEW t \in Threads, DropWrite(t) PROVE Cell!Next
    <2>1. writer = t BY <1>9 DEF DropWrite, Excludes, LockedByGuards
    <2>2. writer' = Nobody /\ UNCHANGED <<Readers, second>> BY <1>9, <2>1 DEF DropWrite, Unlock
    <2> QED BY <2>1, <2>2 DEF Cell!Next, Cell!Yield
  <1> QED BY <1>1, <1>4, <1>5, <1>6, <1>7, <1>8, <1>9 DEF Next

\* Every step of the lock is a step of a guarded cell, or leaves it as it is.
THEOREM RwLockRefinesCell == Spec => ImplementsGuardedCell
  <1>1. Init => Cell!Init BY DEF Init, Cell!Init, Readers
  <1>2. RwInv /\ [Next]_rwVars => [Cell!Next]_(Cell!vars) BY CellStep
  <1> QED BY <1>1, <1>2, RwInvariant, PTL DEF Spec, ImplementsGuardedCell, Cell!Spec
=============================================================================
