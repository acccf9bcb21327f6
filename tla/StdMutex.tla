------------------------------ MODULE StdMutex -------------------------------
(***************************************************************************)
(* Mutex[T] and MutexGuard[T] of lib/std/src/sync.zn over the mutex of the *)
(* operating system. The guarded value is a number that "*g += 1" loads    *)
(* through the guard and stores back in a later step.                      *)
(***************************************************************************)
EXTENDS Naturals

CONSTANTS Threads,
          Nobody,
          Platforms,   \* the kinds of mutex the code is compiled over
          MaxGuards,   \* bound: guards a thread takes on top of each other
          MaxAdds      \* bound: increments in a behaviour

ASSUME MutexAssumption ==
  /\ Nobody \notin Threads
  /\ Platforms \subseteq {"waits", "fails", "nests"}
  /\ MaxGuards \in Nat /\ MaxAdds \in Nat

NotLoaded == MaxAdds + 1

VARIABLES relock,         \* what locking a mutex one holds does: "waits" (PTHREAD_MUTEX_NORMAL),
                          \* "fails" (ERRORCHECK, FreeBSD's default) or "nests" (CRITICAL_SECTION)
          owner, depth,   \* the mutex of the operating system
          waiting,        \* the threads inside lock
          guards,         \* how many guards each thread holds
          data,           \* the guarded value
          loaded,         \* what a thread in "*g += 1" has loaded
          adds,           \* increments completed so far
          running         \* FALSE once @panic ended the program

osMutex == <<relock, owner, depth>>
mutexVars == <<osMutex, waiting, guards, data, loaded, adds, running>>

TypeOK ==
  /\ relock \in Platforms
  /\ owner \in Threads \cup {Nobody} /\ depth \in 0 .. MaxGuards
  /\ waiting \subseteq Threads
  /\ guards \in [Threads -> 0 .. MaxGuards]
  /\ data \in 0 .. MaxAdds /\ adds \in 0 .. MaxAdds
  /\ loaded \in [Threads -> 0 .. NotLoaded]
  /\ running \in BOOLEAN

\* Mutex.new
Init ==
  /\ relock \in Platforms
  /\ owner = Nobody /\ depth = 0
  /\ waiting = {} /\ running = TRUE
  /\ guards = [t \in Threads |-> 0]
  /\ data = 0 /\ adds = 0
  /\ loaded = [t \in Threads |-> NotLoaded]

\* A thread free to make its next call.
Calls(t) == running /\ t \notin waiting /\ loaded[t] = NotLoaded

Granted(t) == owner = Nobody \/ (owner = t /\ relock = "nests")

\* pthread_mutex_lock, EnterCriticalSection and their try forms, once they succeed.
Acquire(t) == owner' = t /\ depth' = depth + 1 /\ relock' = relock

\* pthread_mutex_unlock, LeaveCriticalSection
Unlock(t) ==
  /\ depth' = depth - 1
  /\ owner' = IF depth = 1 THEN Nobody ELSE owner
  /\ UNCHANGED relock

\* lock, up to the call that blocks, and from its return.
Lock(t) ==
  /\ Calls(t) /\ guards[t] < MaxGuards
  /\ waiting' = waiting \cup {t}
  /\ UNCHANGED <<osMutex, guards, data, loaded, adds, running>>

LockReturns(t) ==
  /\ running /\ t \in waiting /\ Granted(t)
  /\ Acquire(t)
  /\ waiting' = waiting \ {t}
  /\ guards' = [guards EXCEPT ![t] = @ + 1]
  /\ UNCHANGED <<data, loaded, adds, running>>

\* lock, rc != 0: @panic("mutex lock failed").
LockPanics(t) ==
  /\ running /\ t \in waiting /\ owner = t /\ relock = "fails"
  /\ running' = FALSE
  /\ UNCHANGED <<osMutex, waiting, guards, data, loaded, adds>>

\* Mutant of TryLock: the answer of the operating system is not looked at.
TryLockBlind(t) ==
  /\ Calls(t) /\ guards[t] < MaxGuards
  /\ IF Granted(t) THEN Acquire(t) ELSE UNCHANGED osMutex
  /\ guards' = [guards EXCEPT ![t] = @ + 1]
  /\ UNCHANGED <<waiting, data, loaded, adds, running>>

\* try_lock: a guard where the operating system grants the mutex, else None.
TryLock(t) ==
  /\ Calls(t) /\ guards[t] < MaxGuards
  /\ IF Granted(t) THEN Acquire(t) /\ guards' = [guards EXCEPT ![t] = @ + 1]
     ELSE UNCHANGED <<osMutex, guards>>
  /\ UNCHANGED <<waiting, data, loaded, adds, running>>

\* Through deref_ptr of a guard.
Load(t) ==
  /\ Calls(t) /\ guards[t] > 0 /\ adds < MaxAdds
  /\ loaded' = [loaded EXCEPT ![t] = data]
  /\ UNCHANGED <<osMutex, waiting, guards, data, adds, running>>

Store(t) ==
  /\ running /\ loaded[t] # NotLoaded /\ adds < MaxAdds
  /\ data' = loaded[t] + 1
  /\ adds' = adds + 1
  /\ loaded' = [loaded EXCEPT ![t] = NotLoaded]
  /\ UNCHANGED <<osMutex, waiting, guards, running>>

\* Mutant of DropGuard: the mutex stays locked.
DropGuardKeepsLock(t) ==
  /\ Calls(t) /\ guards[t] > 0
  /\ guards' = [guards EXCEPT ![t] = @ - 1]
  /\ UNCHANGED <<osMutex, waiting, data, loaded, adds, running>>

\* Drop for MutexGuard.
DropGuard(t) ==
  /\ Calls(t) /\ guards[t] > 0
  /\ Unlock(t)
  /\ guards' = [guards EXCEPT ![t] = @ - 1]
  /\ UNCHANGED <<waiting, data, loaded, adds, running>>

Next == \E t \in Threads : Lock(t) \/ LockReturns(t) \/ LockPanics(t) \/ TryLock(t)
                             \/ Load(t) \/ Store(t) \/ DropGuard(t)

Spec == Init /\ [][Next]_mutexVars

-----------------------------------------------------------------------------
Holders == {t \in Threads : guards[t] > 0}

\* Two threads never hold a guard of one mutex at once, and what a thread has
\* loaded through its guard is still the value when it stores (lock, try_lock,
\* Drop for MutexGuard).
MutualExclusion ==
  /\ \A t, u \in Holders : t = u
  /\ \A t \in Threads : loaded[t] # NotLoaded => loaded[t] = data

\* No increment is lost: the value is the number of increments.
NoLostUpdate == data = adds

\* A mutex is locked exactly while a guard will unlock it: it is never left
\* locked behind a dropped guard, nor free under a live one.
LockedByGuards ==
  /\ owner = Nobody => depth = 0 /\ Holders = {}
  /\ owner # Nobody => Holders = {owner} /\ guards[owner] = depth

\* One guard at a time, also within one thread: "Try to lock without blocking,
\* None when held."
OneGuard == \A t, u \in Holders : t = u /\ guards[t] = 1

\* Wherever a mutex does not nest, lock and try_lock give out one guard at a time.
OneGuardUnlessNested == relock # "nests" => OneGuard

\* The mutex is a lock around its value that only writers enter.
Cell == INSTANCE GuardedCell
          WITH readers <- {}, writer <- owner, content <- data
ImplementsGuardedCell == Cell!Spec
=============================================================================
