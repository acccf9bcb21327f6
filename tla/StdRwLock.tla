------------------------------ MODULE StdRwLock ------------------------------
(***************************************************************************)
(* RwLock[T], RwReadGuard[T] and RwWriteGuard[T] of lib/std/src/sync.zn    *)
(* over the reader-writer lock of the operating system. The guarded value  *)
(* has two parts that a writer changes, and a reader reads, one at a time. *)
(* A thread that asks for what it cannot share with itself waits for ever  *)
(* (or panics, where the operating system reports the deadlock).           *)
(***************************************************************************)
EXTENDS Naturals

CONSTANTS Threads,
          Nobody,
          MaxGuards,   \* bound: read guards a thread takes on top of each other
          MaxWrites    \* bound: updates in a behaviour

ASSUME RwLockAssumption ==
  /\ Nobody \notin Threads
  /\ MaxGuards \in Nat /\ MaxWrites \in Nat

Nothing == MaxWrites + 1

VARIABLES writer, shares,   \* the lock of the operating system
          waiting,          \* what a thread inside read or write asks for
          readGuards,       \* how many RwReadGuards each thread holds
          writeGuards,      \* which threads hold an RwWriteGuard
          first, second,    \* the two parts of the guarded value
          seen,             \* the first part, as a thread has loaded it
          writes            \* updates completed

osLock == <<writer, shares>>
held == <<readGuards, writeGuards>>
content == <<first, second, writes>>
rwVars == <<osLock, waiting, held, content, seen>>

TypeOK ==
  /\ writer \in Threads \cup {Nobody}
  /\ shares \in [Threads -> 0 .. MaxGuards]
  /\ waiting \in [Threads -> {"nothing", "shared", "exclusive"}]
  /\ readGuards \in [Threads -> 0 .. MaxGuards]
  /\ writeGuards \subseteq Threads
  /\ {first, second, writes} \subseteq 0 .. MaxWrites
  /\ seen \in [Threads -> 0 .. Nothing]

\* RwLock.new
Init ==
  /\ writer = Nobody /\ shares = [t \in Threads |-> 0]
  /\ waiting = [t \in Threads |-> "nothing"]
  /\ readGuards = [t \in Threads |-> 0] /\ writeGuards = {}
  /\ first = 0 /\ second = 0 /\ writes = 0
  /\ seen = [t \in Threads |-> Nothing]

Calls(t) == waiting[t] = "nothing" /\ seen[t] = Nothing

\* pthread_rwlock_rdlock and tryrdlock, AcquireSRWLockShared ...
Shareable == writer = Nobody
AcquireShared(t) == shares' = [shares EXCEPT ![t] = @ + 1] /\ UNCHANGED writer
\* ... pthread_rwlock_wrlock and trywrlock, AcquireSRWLockExclusive
Free == writer = Nobody /\ \A t \in Threads : shares[t] = 0
AcquireExclusive(t) == writer' = t /\ UNCHANGED shares

\* pthread_rwlock_unlock gives back what its caller holds.
Unlock(t) ==
  IF writer = t THEN writer' = Nobody /\ UNCHANGED shares
  ELSE shares' = [shares EXCEPT ![t] = @ - 1] /\ UNCHANGED writer

GetRead(t) == readGuards' = [readGuards EXCEPT ![t] = @ + 1] /\ UNCHANGED writeGuards
GetWrite(t) == writeGuards' = writeGuards \cup {t} /\ UNCHANGED readGuards

\* read and write, up to the call that blocks.
Call(t) ==
  /\ Calls(t) /\ readGuards[t] < MaxGuards
  /\ \E what \in {"shared", "exclusive"} : waiting' = [waiting EXCEPT ![t] = what]
  /\ UNCHANGED <<osLock, held, content, seen>>

\* read and write, from the return of that call.
ReadReturns(t) ==
  /\ waiting[t] = "shared" /\ Shareable
  /\ AcquireShared(t) /\ GetRead(t)
  /\ waiting' = [waiting EXCEPT ![t] = "nothing"]
  /\ UNCHANGED <<content, seen>>

WriteReturns(t) ==
  /\ waiting[t] = "exclusive" /\ Free
  /\ AcquireExclusive(t) /\ GetWrite(t)
  /\ waiting' = [waiting EXCEPT ![t] = "nothing"]
  /\ UNCHANGED <<content, seen>>

\* try_read: None on EBUSY.
TryRead(t) ==
  /\ Calls(t) /\ readGuards[t] < MaxGuards
  /\ IF Shareable THEN AcquireShared(t) /\ GetRead(t) ELSE UNCHANGED <<osLock, held>>
  /\ UNCHANGED <<waiting, content, seen>>

\* Mutant of TryWrite: EBUSY is not looked at.
TryWriteBlind(t) ==
  /\ Calls(t)
  /\ IF Free THEN AcquireExclusive(t) ELSE UNCHANGED osLock
  /\ GetWrite(t)
  /\ UNCHANGED <<waiting, content, seen>>

\* try_write: None on EBUSY.
TryWrite(t) ==
  /\ Calls(t)
  /\ IF Free THEN AcquireExclusive(t) /\ GetWrite(t) ELSE UNCHANGED <<osLock, held>>
  /\ UNCHANGED <<waiting, content, seen>>

\* A reader looks at one part and then, Compare, at the other.
Look(t) ==
  /\ Calls(t) /\ readGuards[t] > 0
  /\ seen' = [seen EXCEPT ![t] = first]
  /\ UNCHANGED <<osLock, waiting, held, content>>

Compare(t) ==
  /\ seen[t] # Nothing /\ t \notin writeGuards
  /\ seen' = [seen EXCEPT ![t] = Nothing]
  /\ UNCHANGED <<osLock, waiting, held, content>>

\* A writer changes one part and then the other.
Begin(t) ==
  /\ Calls(t) /\ t \in writeGuards /\ writes < MaxWrites
  /\ seen' = [seen EXCEPT ![t] = first]
  /\ first' = first + 1
  /\ UNCHANGED <<osLock, waiting, held, second, writes>>

Complete(t) ==
  /\ seen[t] # Nothing /\ t \in writeGuards /\ writes < MaxWrites
  /\ second' = seen[t] + 1 /\ writes' = writes + 1
  /\ seen' = [seen EXCEPT ![t] = Nothing]
  /\ UNCHANGED <<osLock, waiting, held, first>>

\* Drop for RwReadGuard.
DropRead(t) ==
  /\ Calls(t) /\ readGuards[t] > 0
  /\ Unlock(t)
  /\ readGuards' = [readGuards EXCEPT ![t] = @ - 1]
  /\ UNCHANGED <<waiting, writeGuards, content, seen>>

\* Drop for RwWriteGuard.
DropWrite(t) ==
  /\ Calls(t) /\ t \in writeGuards
  /\ Unlock(t)
  /\ writeGuards' = writeGuards \ {t}
  /\ UNCHANGED <<waiting, readGuards, content, seen>>

Next ==
  \E t \in Threads :
    \/ Call(t) \/ ReadReturns(t) \/ WriteReturns(t) \/ TryRead(t) \/ TryWrite(t)
    \/ Look(t) \/ Compare(t) \/ Begin(t) \/ Complete(t)
    \/ DropRead(t) \/ DropWrite(t)

Spec == Init /\ [][Next]_rwVars

-----------------------------------------------------------------------------
Readers == {t \in Threads : readGuards[t] > 0}

\* A writer is alone: no second writer and no reader, whatever mix of blocking
\* and trying calls took the guards.
WriterAlone == \A t \in writeGuards : writeGuards = {t} /\ Readers = {}

\* What a reader has seen of the value stays true until it drops its guard: it
\* never sees half of an update.
NoTornRead == \A t \in Threads \ writeGuards : seen[t] # Nothing => seen[t] = first /\ first = second

\* No update is lost, and one that nobody is inside is complete.
NoLostUpdate == second = writes /\ (writeGuards = {} => first = second)

\* The lock of the operating system is held exactly as the guards say.
LockedByGuards == shares = readGuards /\ writeGuards = (IF writer = Nobody THEN {} ELSE {writer})

Cell == INSTANCE GuardedCell WITH readers <- Readers, writer <- writer, content <- second
\* The lock is what a guarded cell promises.
ImplementsGuardedCell == Cell!Spec
=============================================================================
