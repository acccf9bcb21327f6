---------------------------- MODULE CounterProofs ----------------------------
(***************************************************************************)
(* SharedCounter for any number of workers and rounds, on any platform:    *)
(* the Mutex inside the Arc outlives everyone who waits for it, holds its  *)
(* guard or is inside "*g += 1"; join delivers, and it and the drop of the *)
(* handle give back once what the handle owns.                             *)
(***************************************************************************)
EXTENDS SharedCounter, FiniteSetTheorems, TLAPS

\* What is proved of Arc alone holds of the Arc of this program.
ArcFacts == INSTANCE ArcProofs
              WITH Handles <- Threads, Creator <- Main, Original <- Main, Windows <- FALSE

LEMMA ThreadsFinite == IsFiniteSet(Threads)
  BY CounterAssumption, FS_AddElement DEF Threads

LEMMA ArcThreadsFinite == ArcFacts!IsFiniteSet(Threads)
  BY ThreadsFinite DEF IsFiniteSet, ArcFacts!IsFiniteSet

LEMMA ArcAssumptionHolds == ArcFacts!ArcAssumption
  BY CounterAssumption, ArcThreadsFinite DEF ArcFacts!ArcAssumption, Threads

-----------------------------------------------------------------------------
\* Every step of the program is one of the Arc, or leaves the Arc alone.
LEMMA ArcPart == ASSUME [Next]_vars PROVE [ArcFacts!Next]_(ArcFacts!arcVars)
  <1> USE DEF ArcFacts!arcVars, arcVars
  <1>1. CASE UNCHANGED vars BY <1>1 DEF vars
  <1>2. ASSUME NEW w \in Workers, CloneFor(w) PROVE ArcFacts!Next
    <2>1. Main \in Threads /\ w \in Threads BY DEF Threads
    <2>2. ArcFacts!Clone(Main, Main, w)
      BY <1>2 DEF CloneFor, A!Clone, A!Owns, A!Forget, ArcFacts!Clone, ArcFacts!Owns, ArcFacts!Forget
    <2> QED BY <2>1, <2>2 DEF ArcFacts!Next
  <1>3. ASSUME NEW w \in Workers, SpawnWith(w) PROVE ArcFacts!Next
    <2>1. Main \in Threads /\ w \in Threads BY DEF Threads
    <2>2. ArcFacts!Send(Main, w, w)
      BY <1>3 DEF SpawnWith, A!Send, A!Owns, A!Forget, ArcFacts!Send, ArcFacts!Owns, ArcFacts!Forget
    <2> QED BY <2>1, <2>2 DEF ArcFacts!Next
  <1>4. ASSUME NEW t \in Threads, DropsArc(t) PROVE ArcFacts!Next
    <2>1. ArcFacts!Drop(t, t)
      BY <1>4 DEF DropsArc, A!Drop, A!Owns, A!Forget, A!FetchedBySub,
                  ArcFacts!Drop, ArcFacts!Owns, ArcFacts!Forget, ArcFacts!FetchedBySub
    <2> QED BY <2>1 DEF ArcFacts!Next
  <1>5. ASSUME NEW t \in Threads, Frees(t) PROVE ArcFacts!Next
    <2>1. ArcFacts!FreeValue(t) \/ ArcFacts!FreeCounter(t)
      BY <1>5 DEF Frees, A!FreeValue, A!FreeCounter, ArcFacts!FreeValue, ArcFacts!FreeCounter
    <2> QED BY <2>1 DEF ArcFacts!Next
  <1>6. ASSUME NEW w \in Workers, Joins(w) \/ Ends(w) PROVE UNCHANGED arcVars
    BY <1>6 DEF Joins, Ends
  <1>7. ASSUME NEW t \in Threads, Locks(t) \/ Locked(t) \/ Loads(t) \/ Stores(t) \/ Unlocks(t)
        PROVE  UNCHANGED arcVars
    BY <1>7 DEF Locks, Locked, Loads, Stores, Unlocks
  <1>8. CASE Reads \/ Done BY <1>8 DEF Reads, Done, vars
  <1> QED BY <1>1, <1>2, <1>3, <1>4, <1>5, <1>6, <1>7, <1>8 DEF Next, MainStep, ThreadStep

LEMMA ArcStays == ASSUME ArcFacts!ArcInv, [Next]_vars PROVE ArcFacts!ArcInv'
  BY ArcPart, ArcAssumptionHolds, ArcFacts!ArcStep DEF ArcFacts!ArcStep, ArcFacts!ArcAssumption

LEMMA ArcStarts == ASSUME Init PROVE ArcFacts!ArcInv
  <1>1. ArcFacts!Init BY DEF Init, A!Init, ArcFacts!Init
  <1> QED BY <1>1, ArcAssumptionHolds, ArcFacts!ArcInitially DEF ArcFacts!ArcInitially, ArcFacts!ArcAssumption

-----------------------------------------------------------------------------
\* The handle of a worker and its two cells, at every point of join: past the
\* wait the thread has ended, the flag is set from its assignment on and never
\* else, so that the drop of self at the end of join finds it set and any other
\* drop does not; the slot is there until it is freed, once; and only a detached
\* thread may touch a slot that was freed.
PastWait == {"waited", "marked", "taken", "leaving", "joined"}
Marked == PastWait \ {"waited"}

ThreadInv ==
  /\ freed \in [Workers -> Nat] /\ reaped \in [Workers -> Nat]
  /\ late \in [Workers -> BOOLEAN] /\ done \in [Workers -> BOOLEAN]
  /\ cells \in [Workers -> SUBSET {"packet", "slot"}]
  /\ stage \in [Workers -> {"unborn", "running", "returned", "stored", "gone"}]
  /\ handle \in [Workers -> {"none", "held", "joining", "dropped"} \cup PastWait]
  /\ DOMAIN slot = Workers /\ DOMAIN result = Workers /\ DOMAIN taken = Workers
  /\ \A w \in Workers :
       /\ done[w] <=> handle[w] \in Marked
       /\ reaped[w] = IF handle[w] \in PastWait \cup {"dropped"} THEN 1 ELSE 0
       /\ freed[w] = IF handle[w] \in {"leaving", "joined", "dropped"} THEN 1 ELSE 0
       /\ "slot" \in cells[w] <=> handle[w] \in {"held", "joining", "waited", "marked", "taken"}
       /\ "packet" \in cells[w] <=> stage[w] \in {"running", "returned", "stored"}
       /\ stage[w] = "unborn" <=> handle[w] = "none"
       /\ stage[w] \in {"stored", "gone"} => slot[w] = result[w]
       /\ handle[w] \in PastWait => stage[w] = "gone"
       /\ handle[w] \in {"taken", "leaving", "joined"} => taken[w] = result[w]
       /\ late[w] => handle[w] = "dropped"
  /\ total # Raw => HandlesDone

LEMMA ThreadsStart == ASSUME Init PROVE ThreadInv
  BY DEF Init, T!Init, ThreadInv, T!Released, PastWait, Marked

\* One thread operation on worker w, wherever the program does it.
LEMMA ThreadOperation ==
  ASSUME ThreadInv, NEW w \in Workers, total' = total,
         \/ T!Spawn(w) \/ T!Runs(w) \/ T!Join(w) \/ T!Joining(w) \/ T!DropHandle(w)
  PROVE  ThreadInv'
  <1> USE DEF ThreadInv, T!Released, HandlesDone, PastWait, Marked, T!Moves, T!Reap, T!FreeSlot, T!DropOf
  <1>1. CASE T!Spawn(w) BY <1>1 DEF T!Spawn
  <1>2. ASSUME NEW v \in {0}, T!Returns(w, v) PROVE ThreadInv' BY <1>2 DEF T!Returns
  <1>3. CASE T!StoreResult(w) BY <1>3 DEF T!StoreResult
  <1>4. CASE T!Leave(w) BY <1>4 DEF T!Leave
  <1>5. CASE T!Join(w) BY <1>5 DEF T!Join
  <1>6. CASE T!WaitReturns(w) BY <1>6 DEF T!WaitReturns, T!Ended
  <1>7. CASE T!SetDone(w) BY <1>7 DEF T!SetDone
  <1>8. CASE T!TakeResult(w) BY <1>8 DEF T!TakeResult
  <1>9. CASE T!FreeTaken(w) BY <1>9 DEF T!FreeTaken
  <1>10. CASE T!DropSelf(w) BY <1>10 DEF T!DropSelf
  <1>11. CASE T!DropHandle(w) BY <1>11 DEF T!DropHandle
  <1> QED
    BY <1>1, <1>2, <1>3, <1>4, <1>5, <1>6, <1>7, <1>8, <1>9, <1>10, <1>11 DEF T!Runs, T!Joining

LEMMA ThreadsStay == ASSUME ThreadInv, [Next]_vars PROVE ThreadInv'
  <1>1. CASE UNCHANGED vars
    BY <1>1 DEF vars, threadVars, counterVars, ThreadInv, T!Released, HandlesDone
  <1>2. ASSUME NEW w \in Workers, SpawnWith(w) \/ Ends(w) \/ Joins(w) PROVE ThreadInv'
    BY <1>2, ThreadOperation DEF SpawnWith, Ends, Joins, counterVars
  <1>3. ASSUME NEW w \in Workers, CloneFor(w) PROVE ThreadInv'
    BY <1>3 DEF CloneFor, threadVars, counterVars, ThreadInv, T!Released, HandlesDone
  <1>4. ASSUME NEW t \in Threads,
               Locks(t) \/ Locked(t) \/ Loads(t) \/ Stores(t) \/ Unlocks(t) \/ DropsArc(t) \/ Frees(t)
        PROVE  ThreadInv'
    BY <1>4 DEF Locks, Locked, Loads, Stores, Unlocks, DropsArc, Frees,
                threadVars, counterVars, ThreadInv, T!Released, HandlesDone
  <1>5. CASE Reads BY <1>5 DEF Reads, threadVars, ThreadInv, T!Released, HandlesDone
  <1>6. CASE Done BY <1>1, <1>6 DEF Done
  <1> QED BY <1>1, <1>2, <1>3, <1>4, <1>5, <1>6 DEF Next, MainStep, ThreadStep

-----------------------------------------------------------------------------
\* Who uses the mutex owns its own Arc and has rounds left: it drops its Arc
\* after its last round only, and holds one guard at a time. counted are the
\* guards whose increment is made.
Uses(t) == t \in waiting \/ guards[t] > 0 \/ loaded[t] # M!NotLoaded

UseInv ==
  /\ guards \in [Threads -> 0 .. 1] /\ rounds \in [Threads -> 0 .. MaxRounds]
  /\ DOMAIN loaded = Threads /\ DOMAIN owner = Threads
  /\ waiting \subseteq Threads /\ counted \subseteq Threads
  /\ \A t \in Threads : /\ Uses(t) => owner[t] = t /\ rounds[t] < MaxRounds
                        /\ t \in waiting => guards[t] = 0
                        /\ t \in counted => guards[t] = 1
                        /\ loaded[t] # M!NotLoaded => guards[t] = 1 /\ t \notin counted

LEMMA UsesStart == ASSUME Init PROVE UseInv
  BY CounterAssumption DEF Init, M!Init, A!Init, UseInv, Uses, Threads

LEMMA UsesStay == ASSUME UseInv, [Next]_vars PROVE UseInv'
  <1> USE CounterAssumption DEF UseInv, Uses, Threads
  <1>1. CASE UNCHANGED vars BY <1>1 DEF vars, arcVars, mutexVars, counterVars
  <1>2. ASSUME NEW w \in Workers, CloneFor(w) PROVE UseInv'
    BY <1>2 DEF CloneFor, A!Clone, mutexVars, counterVars
  <1>3. ASSUME NEW w \in Workers, SpawnWith(w) PROVE UseInv'
    BY <1>3 DEF SpawnWith, A!Send, A!Owns, mutexVars, counterVars
  <1>4. ASSUME NEW w \in Workers, Ends(w) \/ Joins(w) PROVE UseInv'
    BY <1>4 DEF Ends, Joins, arcVars, mutexVars, counterVars
  <1>5. ASSUME NEW t \in Threads, Locks(t) PROVE UseInv'
    <2> USE <1>5 DEF Locks, Sharing, arcVars, counterVars
    <2>1. CASE M!Lock(t) BY <2>1 DEF M!Lock
    <2>2. CASE M!TryLock(t)
      <3>1. \/ guards' = [guards EXCEPT ![t] = 1]
            \/ guards' = guards
        BY <2>2 DEF M!TryLock
      <3>2. UNCHANGED <<waiting, loaded>> /\ t \notin waiting /\ t \notin counted BY <2>2 DEF M!TryLock, M!Calls
      <3> QED BY <3>1, <3>2
    <2> QED BY <2>1, <2>2
  <1>6. ASSUME NEW t \in Threads, Locked(t) PROVE UseInv'
    BY <1>6 DEF Locked, Sharing, M!LockReturns, arcVars, counterVars
  <1>7. ASSUME NEW t \in Threads, Loads(t) PROVE UseInv'
    BY <1>7 DEF Loads, Sharing, M!Load, arcVars, counterVars
  <1>8. ASSUME NEW t \in Threads, Stores(t) PROVE UseInv'
    BY <1>8 DEF Stores, M!Store, arcVars
  <1>9. ASSUME NEW t \in Threads, Unlocks(t) PROVE UseInv'
    BY <1>9 DEF Unlocks, M!DropGuard, M!Calls, arcVars
  <1>10. ASSUME NEW t \in Threads, DropsArc(t) PROVE UseInv'
    BY <1>10 DEF DropsArc, Sharing, A!Drop, mutexVars, counterVars
  <1>11. ASSUME NEW t \in Threads, Frees(t) PROVE UseInv'
    BY <1>11 DEF Frees, A!FreeValue, A!FreeCounter, mutexVars, counterVars
  <1>12. CASE Reads BY <1>12 DEF Reads, arcVars, mutexVars
  <1>13. CASE Done BY <1>1, <1>13 DEF Done
  <1> QED
    BY <1>1, <1>2, <1>3, <1>4, <1>5, <1>6, <1>7, <1>8, <1>9, <1>10, <1>11, <1>12, <1>13
    DEF Next, MainStep, ThreadStep

-----------------------------------------------------------------------------
\* What is proved of Mutex alone holds of the mutex of this program.
MutexFacts == INSTANCE MutexProofs WITH owner <- holder, MaxGuards <- 1

LEMMA MutexAssumptionHolds == MutexFacts!MutexAssumption
  <1>1. Cardinality(Threads) \in Nat BY ThreadsFinite, FS_CardinalityType
  <1>2. MaxAdds \in Nat BY <1>1, CounterAssumption DEF MaxAdds
  <1> QED BY <1>2, CounterAssumption DEF MutexFacts!MutexAssumption, Threads

LEMMA MutexPart == ASSUME [Next]_vars PROVE [MutexFacts!Next]_(MutexFacts!mutexVars)
  <1> USE DEF MutexFacts!mutexVars, MutexFacts!osMutex, mutexVars, M!osMutex, M!NotLoaded, MutexFacts!NotLoaded,
              M!Calls, MutexFacts!Calls, M!Granted, MutexFacts!Granted, M!Acquire, MutexFacts!Acquire
  <1>1. CASE UNCHANGED vars BY <1>1 DEF vars
  <1>2. ASSUME NEW w \in Workers, CloneFor(w) \/ SpawnWith(w) \/ Ends(w) \/ Joins(w) PROVE UNCHANGED mutexVars
    BY <1>2 DEF CloneFor, SpawnWith, Ends, Joins
  <1>3. ASSUME NEW t \in Threads, Locks(t) PROVE MutexFacts!Next
    <2>1. MutexFacts!Lock(t) \/ MutexFacts!TryLock(t)
      BY <1>3 DEF Locks, M!Lock, M!TryLock, MutexFacts!Lock, MutexFacts!TryLock
    <2> QED BY <2>1 DEF MutexFacts!Next
  <1>4. ASSUME NEW t \in Threads, Locked(t) PROVE MutexFacts!Next
    <2>1. MutexFacts!LockReturns(t) BY <1>4 DEF Locked, M!LockReturns, MutexFacts!LockReturns
    <2> QED BY <2>1 DEF MutexFacts!Next
  <1>5. ASSUME NEW t \in Threads, Loads(t) PROVE MutexFacts!Next
    <2>1. MutexFacts!Load(t) BY <1>5 DEF Loads, M!Load, MutexFacts!Load
    <2> QED BY <2>1 DEF MutexFacts!Next
  <1>6. ASSUME NEW t \in Threads, Stores(t) PROVE MutexFacts!Next
    <2>1. MutexFacts!Store(t) BY <1>6 DEF Stores, M!Store, MutexFacts!Store
    <2> QED BY <2>1 DEF MutexFacts!Next
  <1>7. ASSUME NEW t \in Threads, Unlocks(t) PROVE MutexFacts!Next
    <2>1. MutexFacts!DropGuard(t)
      BY <1>7 DEF Unlocks, M!DropGuard, M!Unlock, MutexFacts!DropGuard, MutexFacts!Unlock
    <2> QED BY <2>1 DEF MutexFacts!Next
  <1>8. ASSUME NEW t \in Threads, DropsArc(t) \/ Frees(t) PROVE UNCHANGED mutexVars
    BY <1>8 DEF DropsArc, Frees
  <1>9. CASE Reads \/ Done BY <1>9 DEF Reads, Done, vars
  <1> QED BY <1>1, <1>2, <1>3, <1>4, <1>5, <1>6, <1>7, <1>8, <1>9 DEF Next, MainStep, ThreadStep

MutexInv == MutexFacts!MutexInv /\ MutexFacts!RoomToWait

LEMMA MutexStarts == ASSUME Init PROVE MutexInv
  <1>1. MutexFacts!Init BY DEF Init, M!Init, MutexFacts!Init, M!NotLoaded, MutexFacts!NotLoaded
  <1>2. MutexFacts!MutexInv
    BY <1>1, MutexAssumptionHolds, MutexFacts!MutexInitially
    DEF MutexFacts!MutexInitially, MutexFacts!MutexAssumption
  <1> QED BY <1>1, <1>2 DEF MutexInv, MutexFacts!RoomToWait, MutexFacts!Init

LEMMA MutexStays == ASSUME MutexInv, [Next]_vars PROVE MutexInv'
  <1>1. MutexFacts!MutexInv'
    BY MutexPart, MutexAssumptionHolds, MutexFacts!MutexStep
    DEF MutexInv, MutexFacts!MutexStep, MutexFacts!MutexAssumption
  <1>2. MutexFacts!RoomToWait'
    BY MutexPart, MutexAssumptionHolds, MutexFacts!RoomStep
    DEF MutexInv, MutexFacts!RoomStep, MutexFacts!MutexAssumption
  <1> QED BY <1>1, <1>2 DEF MutexInv

-----------------------------------------------------------------------------
\* The rounds in which a thread has made its increment. Their number is that of
\* the increments made, and a thread that is past its rounds has made them all.
Made == {p \in Threads \X (1 .. MaxRounds) :
           p[2] <= rounds[p[1]] + (IF p[1] \in counted THEN 1 ELSE 0)}

RoundInv ==
  /\ adds = Cardinality(Made)
  /\ \A w \in Workers : stage[w] # "unborn" => owner[w] \in {w, Nobody}
  /\ \A w \in Workers : stage[w] # "unborn" /\ owner[w] = Nobody => rounds[w] = MaxRounds
  /\ \A w \in Workers : stage[w] \notin {"unborn", "running"} => owner[w] = Nobody
  /\ total # Raw /\ (\A w \in Workers : handle[w] = "joined") => total = MaxAdds

AllRounds == Threads \X (1 .. MaxRounds)

LEMMA AllRoundsFinite == IsFiniteSet(AllRounds) /\ Cardinality(AllRounds) = MaxAdds
  <1>1. IsFiniteSet(1 .. MaxRounds) /\ Cardinality(1 .. MaxRounds) = MaxRounds
    BY FS_Interval, CounterAssumption
  <1>2. IsFiniteSet(AllRounds) /\ Cardinality(AllRounds) = Cardinality(Threads) * MaxRounds
    BY <1>1, ThreadsFinite, FS_Product DEF AllRounds
  <1>3. Cardinality(Threads) \in Nat BY ThreadsFinite, FS_CardinalityType
  <1>4. MaxAdds = Cardinality(Threads) * MaxRounds BY <1>3, CounterAssumption DEF MaxAdds
  <1> QED BY <1>2, <1>4

LEMMA MadeFinite == IsFiniteSet(Made)
  <1>1. Made \subseteq AllRounds BY DEF Made, AllRounds
  <1> QED BY <1>1, AllRoundsFinite, FS_Subset

LEMMA RoundsStart == ASSUME Init PROVE RoundInv
  <1>1. Made = {} BY CounterAssumption DEF Init, Made
  <1>2. adds = Cardinality(Made) BY <1>1, FS_EmptySet DEF Init, M!Init
  <1> QED BY <1>2, CounterAssumption DEF Init, A!Init, T!Init, RoundInv, Threads

\* An increment is made in a round of its own.
LEMMA StoreMakesOne ==
  ASSUME UseInv, RoundInv, MutexInv, NEW t \in Threads, Stores(t)
  PROVE  adds' = Cardinality(Made')
  <1> DEFINE made == <<t, rounds[t] + 1>>
  <1>1. rounds[t] \in Nat /\ rounds[t] < MaxRounds /\ t \notin counted
    BY CounterAssumption DEF UseInv, Uses, Stores, M!Store
  <1>2. counted' = counted \cup {t} /\ rounds' = rounds BY DEF Stores
  <1>3. made \in Threads \X (1 .. MaxRounds) /\ made \notin Made
    BY <1>1, CounterAssumption DEF Made
  <1>4. Made' = Made \cup {made}
    <2>1. ASSUME NEW p \in Threads \X (1 .. MaxRounds)
          PROVE  p \in Made' <=> p \in Made \/ p = made
      <3>1. CASE p[1] # t BY <1>2, <3>1 DEF Made
      <3>2. CASE p[1] = t
        <4>1. p \in Made' <=> p[2] <= rounds[t] + 1 BY <1>2, <3>2 DEF Made
        <4>2. p \in Made <=> p[2] <= rounds[t] BY <1>1, <3>2 DEF Made
        <4>3. p = <<t, p[2]>> BY <3>2
        <4>4. p[2] \in Nat OBVIOUS
        <4> QED BY <1>1, <4>1, <4>2, <4>3, <4>4
      <3> QED BY <3>1, <3>2
    <2> QED BY <2>1, <1>3 DEF Made
  <1>5. Cardinality(Made') = Cardinality(Made) + 1
    BY <1>3, <1>4, MadeFinite, FS_AddElement
  <1> QED BY <1>5 DEF Stores, M!Store, RoundInv

\* A round that ends with its increment made keeps what was made.
LEMMA UnlockKeepsMade ==
  ASSUME UseInv, NEW t \in Threads, Unlocks(t)
  PROVE  Made' = Made
  <1>1. counted' = counted \ {t} /\ rounds' = [rounds EXCEPT ![t] = @ + 1] /\ t \in counted
    BY DEF Unlocks
  <1>2. rounds \in [Threads -> 0 .. MaxRounds] BY DEF UseInv
  <1> QED BY <1>1, <1>2, CounterAssumption DEF Made

LEMMA RoundsStay ==
  ASSUME UseInv, ThreadInv, MutexInv, RoundInv, [Next]_vars
  PROVE  RoundInv'
  <1> USE CounterAssumption DEF Threads
  <1>1. CASE UNCHANGED vars
    BY <1>1 DEF vars, arcVars, mutexVars, threadVars, counterVars, RoundInv, Made
  <1>2. ASSUME NEW w \in Workers, CloneFor(w) PROVE RoundInv'
    BY <1>2 DEF CloneFor, A!Clone, mutexVars, threadVars, counterVars, RoundInv, Made, UseInv
  <1>3. ASSUME NEW w \in Workers, SpawnWith(w) PROVE RoundInv'
    <2>1. total = Raw BY <1>3 DEF SpawnWith, T!Spawn, ThreadInv, HandlesDone, T!Released
    <2> QED BY <1>3, <2>1 DEF SpawnWith, A!Send, T!Spawn, mutexVars, counterVars, RoundInv, Made, UseInv, ThreadInv
  <1>4. ASSUME NEW w \in Workers, Ends(w) PROVE RoundInv'
    <2>1. UNCHANGED <<handle, arcVars, mutexVars, counterVars>> /\ owner[w] = Nobody
      BY <1>4 DEF Ends, T!Runs, T!Returns, T!StoreResult, T!Leave
    <2>2. \A v \in Workers : v # w => stage'[v] = stage[v]
      BY <1>4 DEF Ends, T!Runs, T!Returns, T!StoreResult, T!Leave, ThreadInv
    <2>3. stage[w] # "unborn"
      BY <1>4 DEF Ends, T!Runs, T!Returns, T!StoreResult, T!Leave
    <2> QED BY <2>1, <2>2, <2>3 DEF arcVars, mutexVars, counterVars, RoundInv, Made
  <1>5. ASSUME NEW w \in Workers, Joins(w) PROVE RoundInv'
    <2> USE DEF Joins, T!Join, T!Joining, T!WaitReturns, T!SetDone, T!TakeResult, T!FreeTaken, T!DropSelf,
                T!DropHandle, T!Moves
    <2>1. total = Raw
      BY <1>5 DEF ThreadInv, HandlesDone, T!Released
    <2>2. UNCHANGED <<stage, arcVars, mutexVars, counterVars>>
      BY <1>5
    <2> QED BY <2>1, <2>2 DEF arcVars, mutexVars, counterVars, RoundInv, Made
  <1>6. ASSUME NEW t \in Threads, Locks(t) \/ Locked(t) \/ Loads(t) PROVE RoundInv'
    <2>1. UNCHANGED <<adds, arcVars, threadVars, counterVars>>
      BY <1>6 DEF Locks, Locked, Loads, M!Lock, M!TryLock, M!LockReturns, M!Load, counterVars
    <2> QED BY <2>1 DEF arcVars, threadVars, counterVars, RoundInv, Made
  <1>7. ASSUME NEW t \in Threads, Stores(t) PROVE RoundInv'
    BY <1>7, StoreMakesOne DEF Stores, arcVars, threadVars, RoundInv
  <1>8. ASSUME NEW t \in Threads, Unlocks(t) PROVE RoundInv'
    <2>1. adds' = Cardinality(Made') BY <1>8, UnlockKeepsMade DEF Unlocks, M!DropGuard, RoundInv
    <2>2. owner[t] = t BY <1>8 DEF Unlocks, Sharing
    <2> QED BY <1>8, <2>1, <2>2 DEF Unlocks, arcVars, threadVars, RoundInv, UseInv
  <1>9. ASSUME NEW t \in Threads, DropsArc(t) PROVE RoundInv'
    BY <1>9 DEF DropsArc, Sharing, A!Drop, mutexVars, threadVars, counterVars, RoundInv, Made, UseInv
  <1>10. ASSUME NEW t \in Threads, Frees(t) PROVE RoundInv'
    BY <1>10 DEF Frees, A!FreeValue, A!FreeCounter, mutexVars, threadVars, counterVars, RoundInv, Made
  <1>11. CASE Reads
    <2>1. (\A w \in Workers : handle[w] = "joined") => data = MaxAdds
      <3> SUFFICES ASSUME \A w \in Workers : handle[w] = "joined" PROVE data = MaxAdds OBVIOUS
      <3>1. \A w \in Workers : rounds[w] = MaxRounds BY DEF ThreadInv, RoundInv
      <3>2. rounds[Main] = MaxRounds BY <1>11 DEF Reads
      <3>3. Made = AllRounds BY <3>1, <3>2 DEF Made, AllRounds
      <3>4. data = adds BY DEF MutexInv, MutexFacts!MutexInv, MutexFacts!LoadedByOwner
      <3> QED BY <3>3, <3>4, AllRoundsFinite DEF RoundInv
    <2> QED BY <1>11, <2>1 DEF Reads, arcVars, mutexVars, threadVars, RoundInv, Made
  <1>12. CASE Done BY <1>1, <1>12 DEF Done
  <1> QED
    BY <1>1, <1>2, <1>3, <1>4, <1>5, <1>6, <1>7, <1>8, <1>9, <1>10, <1>11, <1>12
    DEF Next, MainStep, ThreadStep

-----------------------------------------------------------------------------
FreeInv == ArcFacts!LastDropFrees

LEMMA FreeStarts == ASSUME Init PROVE FreeInv
  <1>1. ArcFacts!Init BY DEF Init, A!Init, ArcFacts!Init
  <1> QED BY <1>1, ArcAssumptionHolds, ArcFacts!LastDropInitially
          DEF FreeInv, ArcFacts!LastDropInitially, ArcFacts!ArcAssumption

LEMMA FreeStays == ASSUME ArcFacts!ArcInv, FreeInv, [Next]_vars PROVE FreeInv'
  BY ArcPart, ArcAssumptionHolds, ArcFacts!LastDropStep
  DEF FreeInv, ArcFacts!LastDropStep, ArcFacts!ArcAssumption

CounterInv == ArcFacts!ArcInv /\ FreeInv /\ MutexInv /\ ThreadInv /\ UseInv /\ RoundInv

LEMMA CounterInvariant == Spec => []CounterInv
  <1>1. Init => CounterInv BY ArcStarts, FreeStarts, MutexStarts, ThreadsStart, UsesStart, RoundsStart DEF CounterInv
  <1>2. CounterInv /\ [Next]_vars => CounterInv'
    BY ArcStays, FreeStays, MutexStays, ThreadsStay, UsesStay, RoundsStay DEF CounterInv
  <1> QED BY <1>1, <1>2, PTL DEF Spec

-----------------------------------------------------------------------------
\* However workers and Main interleave, and whether they are joined or their
\* handles dropped: who waits for the mutex, holds a guard or is inside an
\* increment owns an Arc, so the count is not zero and the mutex not destroyed.
THEOREM CounterMutexOutlives == Spec => []MutexOutlivesGuards
  <1>1. CounterInv => MutexOutlivesGuards
    <2> SUFFICES ASSUME CounterInv, NEW t \in Threads, Uses(t) PROVE value = "live"
      BY DEF MutexOutlivesGuards, Uses
    <2>1. owner[t] = t /\ t # Nobody BY CounterAssumption DEF CounterInv, UseInv, Threads
    <2>2. ArcFacts!InUse # {} BY <2>1 DEF ArcFacts!InUse
    <2> QED BY <2>2 DEF CounterInv, ArcFacts!ArcInv, ArcFacts!FreeingPhase
  <1> QED BY <1>1, CounterInvariant, PTL

\* The total Main reads after it has joined every worker is all of their
\* increments and its own: none is lost, and none is made after the join.
THEOREM CounterTotalIsSum == Spec => []TotalIsSum
  <1>1. CounterInv => TotalIsSum BY DEF CounterInv, RoundInv, TotalIsSum
  <1> QED BY <1>1, CounterInvariant, PTL

\* join hands out what the closure returned, for any number of workers.
THEOREM CounterJoinDelivers == Spec => []JoinDelivers
  <1>1. CounterInv => JoinDelivers BY DEF CounterInv, ThreadInv, PastWait, JoinDelivers, T!JoinDelivers
  <1> QED BY <1>1, CounterInvariant, PTL

\* join, the drop of self it ends with, and the drop of a handle that was not
\* joined free the slot and give back the native thread once between them, for
\* any number of workers and wherever these are: the flag set after the wait is
\* what the drop of self finds.
THEOREM CounterReleasedOnce == Spec => []ReleasedOnce
  <1>1. CounterInv => ReleasedOnce BY DEF CounterInv, ThreadInv, ReleasedOnce, T!ReleasedOnce
  <1> QED BY <1>1, CounterInvariant, PTL

\* At the end the cells of the Arc and those of every thread are freed.
THEOREM CounterEverythingFreed == Spec => []EverythingFreed
  <1>1. CounterInv => EverythingFreed
    <2> SUFFICES ASSUME CounterInv, Finished
                 PROVE  value = "freed" /\ counter = "freed" /\ \A w \in Workers : cells[w] = {}
      BY DEF EverythingFreed
    <2>1. ArcFacts!InUse = {} BY DEF Finished, ArcFacts!InUse
    <2>2. value = "freed" /\ counter = "freed"
      BY <2>1 DEF CounterInv, FreeInv, ArcFacts!LastDropFrees, Finished
    <2>3. ASSUME NEW w \in Workers PROVE cells[w] = {}
      <3>1. stage[w] = "gone" /\ handle[w] \in {"joined", "dropped"}
        BY DEF Finished, CounterInv, ThreadInv, HandlesDone, T!Released, Threads
      <3>2. "slot" \notin cells[w] /\ "packet" \notin cells[w] /\ cells[w] \subseteq {"packet", "slot"}
        BY <3>1 DEF CounterInv, ThreadInv
      <3> QED BY <3>2
    <2> QED BY <2>2, <2>3
  <1> QED BY <1>1, CounterInvariant, PTL
=============================================================================
