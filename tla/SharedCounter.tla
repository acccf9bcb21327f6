---------------------------- MODULE SharedCounter ----------------------------
(***************************************************************************)
(* std.sync and std.thread together, as a program uses them: the main      *)
(* thread creates Arc.new(Mutex.new(0)), clones the Arc for each worker,   *)
(* moves the clone into the closure it spawns, counts under the lock       *)
(* itself, joins every worker (or drops its handle) and drops its own Arc. *)
(* A worker locks, increments and drops the guard MaxRounds times; its Arc *)
(* is dropped as its closure returns. The value of the Arc is the Mutex,   *)
(* so whoever drops the last Arc destroys it.                              *)
(***************************************************************************)
EXTENDS Integers, FiniteSets

CONSTANTS Workers, Main, Nobody, NoHandle, Raw,
          Platforms,   \* kinds of mutex, see StdMutex
          MaxRounds    \* bound: increments per thread

ASSUME CounterAssumption ==
  /\ IsFiniteSet(Workers) /\ Main \notin Workers
  /\ Nobody \notin Workers \cup {Main} /\ NoHandle \notin Workers \cup {Main}
  /\ Platforms \subseteq {"waits", "fails", "nests"}
  /\ MaxRounds \in Nat /\ Raw # 0

Threads == Workers \cup {Main}
MaxAdds == MaxRounds * Cardinality(Threads)

VARIABLES owner, count, value, counter, freeing, unique,                        \* Arc
          relock, holder, depth, waiting, guards, data, loaded, adds, running,  \* Mutex
          stage, result, slot, cells, freed, reaped, late, handle, done, taken, \* Thread
          rounds,                                                               \* rounds each thread has completed
          counted,                                                              \* threads that have incremented in this round
          total                                                                 \* what Main reads at the end

\* The clone made for a worker is named after it, the original after Main.
A == INSTANCE ArcCell WITH Handles <- Threads, Creator <- Main, Original <- Main, Windows <- FALSE
M == INSTANCE StdMutex WITH owner <- holder, MaxGuards <- 1
T == INSTANCE StdThread WITH Values <- {0}

arcVars == <<owner, count, value, counter, freeing, unique>>
mutexVars == <<relock, holder, depth, waiting, guards, data, loaded, adds, running>>
threadVars == <<stage, result, slot, cells, freed, reaped, late, handle, done, taken>>
counterVars == <<rounds, counted, total>>
vars == <<arcVars, mutexVars, threadVars, counterVars>>

Init == A!Init /\ M!Init /\ T!Init /\ rounds = [t \in Threads |-> 0] /\ counted = {} /\ total = Raw

\* Code of the thread can run: Main always, a worker inside its closure; not
\* while it frees the cells of the Arc.
Active(t) == (t \in Workers => stage[t] = "running") /\ freeing[t] = "nothing" /\ running
Sharing(t) == Active(t) /\ owner[t] = t
HandlesDone == \A w \in Workers : T!Released(w)
\* Main is inside of no call of join.
Between == \A w \in Workers : handle[w] \notin T!JoinPoints

CloneFor(w) ==
  /\ Active(Main) /\ Between /\ stage[w] = "unborn"
  /\ A!Clone(Main, Main, w)
  /\ UNCHANGED <<mutexVars, threadVars, counterVars>>

SpawnWith(w) ==
  /\ Active(Main) /\ Between
  /\ A!Send(Main, w, w) /\ T!Spawn(w)
  /\ UNCHANGED <<mutexVars, counterVars>>

\* One increment: lock the mutex behind the Arc, "*g += 1", drop the guard.
Locks(t) ==
  /\ Sharing(t) /\ rounds[t] < MaxRounds /\ guards[t] = 0
  /\ M!Lock(t) \/ M!TryLock(t)
  /\ UNCHANGED <<arcVars, threadVars, counterVars>>

Locked(t) ==
  /\ Sharing(t) /\ M!LockReturns(t)
  /\ UNCHANGED <<arcVars, threadVars, counterVars>>

Loads(t) ==
  /\ Sharing(t) /\ t \notin counted /\ M!Load(t)
  /\ UNCHANGED <<arcVars, threadVars, counterVars>>

Stores(t) ==
  /\ Sharing(t) /\ M!Store(t)
  /\ counted' = counted \cup {t}
  /\ UNCHANGED <<arcVars, threadVars, rounds, total>>

Unlocks(t) ==
  /\ Sharing(t) /\ t \in counted /\ M!DropGuard(t)
  /\ rounds' = [rounds EXCEPT ![t] = @ + 1]
  /\ counted' = counted \ {t}
  /\ UNCHANGED <<arcVars, threadVars, total>>

\* Its rounds over, a thread drops its Arc: a worker before its closure
\* returns, Main after its last look at the value.
DropsArc(t) ==
  /\ Sharing(t) /\ rounds[t] = MaxRounds /\ guards[t] = 0
  /\ t = Main => total # Raw
  /\ A!Drop(t, t)
  /\ UNCHANGED <<mutexVars, threadVars, counterVars>>

Frees(t) ==
  /\ A!FreeValue(t) \/ A!FreeCounter(t)
  /\ UNCHANGED <<mutexVars, threadVars, counterVars>>

Ends(w) ==
  /\ owner[w] = Nobody /\ freeing[w] = "nothing" /\ T!Runs(w)
  /\ UNCHANGED <<arcVars, mutexVars, counterVars>>

Joins(w) ==
  /\ Active(Main) /\ rounds[Main] = MaxRounds /\ guards[Main] = 0
  /\ (Between /\ (T!Join(w) \/ T!DropHandle(w))) \/ T!Joining(w)
  /\ UNCHANGED <<arcVars, mutexVars, counterVars>>

\* Mutant of Reads: Main looks before it has joined.
ReadsEarly ==
  /\ Sharing(Main) /\ guards[Main] = 0 /\ total = Raw
  /\ \A w \in Workers : stage[w] # "unborn"
  /\ holder = Nobody
  /\ total' = data
  /\ UNCHANGED <<arcVars, mutexVars, threadVars, rounds, counted>>

\* *m.get_mut().lock(), with the guard dropped at once, behind Main's own rounds.
Reads ==
  /\ Sharing(Main) /\ HandlesDone /\ total = Raw
  /\ rounds[Main] = MaxRounds /\ guards[Main] = 0
  /\ holder = Nobody
  /\ total' = data
  /\ UNCHANGED <<arcVars, mutexVars, threadVars, rounds, counted>>

MainStep == \E w \in Workers : CloneFor(w) \/ SpawnWith(w) \/ Joins(w)
ThreadStep(t) ==
  \/ Locks(t) \/ Locked(t) \/ Loads(t) \/ Stores(t) \/ Unlocks(t)
  \/ DropsArc(t) \/ Frees(t)
  \/ t \in Workers /\ Ends(t)

Finished == total # Raw /\ \A t \in Threads : owner[t] = Nobody /\ freeing[t] = "nothing"
                        /\ \A w \in Workers : stage[w] = "gone"
Done == Finished /\ UNCHANGED vars

Next == MainStep \/ Reads \/ (\E t \in Threads : ThreadStep(t)) \/ Done

\* Every thread goes on; nothing is assumed of the order in which a contended
\* mutex is handed out.
Fairness ==
  /\ WF_vars(MainStep) /\ WF_vars(Reads)
  /\ \A t \in Threads : WF_vars(ThreadStep(t))

Spec == Init /\ [][Next]_vars /\ Fairness

-----------------------------------------------------------------------------
\* The mutex outlives every use of it: whoever waits for it, holds its guard or
\* is inside "*g += 1" finds it in a live Arc, though Main drops its Arc, and
\* maybe the JoinHandles, while workers run.
MutexOutlivesGuards ==
  \A t \in Threads : t \in waiting \/ guards[t] > 0 \/ loaded[t] # M!NotLoaded => value = "live"

\* Joining every worker makes all of its increments visible: the total is their sum.
TotalIsSum == total # Raw /\ (\A w \in Workers : handle[w] = "joined") => total = MaxAdds

\* join returns what the closure returned, after the thread has ended, from a
\* slot nobody touches once it is freed (JoinHandle.join).
JoinDelivers == T!JoinDelivers

\* What a handle owns is given back once: the slot is freed, and the native
\* thread joined or detached, by join or by the drop of the handle, wherever the
\* worker is by then, though every join ends with that drop, too
\* (JoinHandle.join, Drop for JoinHandle).
ReleasedOnce == T!ReleasedOnce

\* When every thread has ended nothing is left on the heap.
EverythingFreed ==
  Finished => value = "freed" /\ counter = "freed" /\ \A w \in Workers : cells[w] = {}

\* The program comes to its end.
Terminates == <>Finished
=============================================================================
