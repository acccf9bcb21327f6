------------------------------ MODULE StdThread ------------------------------
(***************************************************************************)
(* Thread.spawn, the trampoline and JoinHandle[T] of                       *)
(* lib/std/src/thread.zn. Two heap cells connect a thread with its         *)
(* creator: the packet that carries the closure, freed by the thread, and  *)
(* the slot for the result, written by the thread and freed by the handle. *)
(* A failing allocation or thread creation panics and is left out.         *)
(***************************************************************************)
EXTENDS Naturals

CONSTANTS Workers,     \* the threads spawned in a behaviour
          Values,      \* what their closures may return
          Raw          \* content of memory nobody has written, no value of Values

VARIABLES stage,     \* how far each thread is
          result,    \* what its closure returned
          slot,      \* content of its slot
          cells,     \* which of its heap cells exist
          freed,     \* how often its slot was freed
          reaped,    \* how often its native thread was joined or detached
          late,      \* whether a freed slot was written or read
          handle,    \* where its JoinHandle is: in its owner's hands, at a point of
                     \* join, and in the end joined, or dropped without a join
          done,      \* the flag of the JoinHandle
          taken      \* what join moved out of the slot

threadVars == <<stage, result, slot, cells, freed, reaped, late, handle, done, taken>>

\* The points of join: after the call, the wait, done = true, the move, the dealloc.
JoinPoints == {"joining", "waited", "marked", "taken", "leaving"}

TypeOK ==
  /\ stage \in [Workers -> {"unborn", "running", "returned", "stored", "gone"}]
  /\ result \in [Workers -> Values \cup {Raw}]
  /\ slot \in [Workers -> Values \cup {Raw}]
  /\ cells \in [Workers -> SUBSET {"packet", "slot"}]
  /\ freed \in [Workers -> 0 .. 2] /\ reaped \in [Workers -> 0 .. 2]
  /\ late \in [Workers -> BOOLEAN] /\ done \in [Workers -> BOOLEAN]
  /\ handle \in [Workers -> {"none", "held", "joined", "dropped"} \cup JoinPoints]
  /\ taken \in [Workers -> Values \cup {Raw}]

Init ==
  /\ stage = [w \in Workers |-> "unborn"]
  /\ result = [w \in Workers |-> Raw] /\ slot = [w \in Workers |-> Raw]
  /\ cells = [w \in Workers |-> {}]
  /\ freed = [w \in Workers |-> 0] /\ reaped = [w \in Workers |-> 0]
  /\ late = [w \in Workers |-> FALSE] /\ done = [w \in Workers |-> FALSE]
  /\ handle = [w \in Workers |-> "none"]
  /\ taken = [w \in Workers |-> Raw]

Moves(w, from, to) == handle[w] = from /\ handle' = [handle EXCEPT ![w] = to]

\* spawn: both cells are allocated, the thread starts, the handle is returned.
Spawn(w) ==
  /\ stage[w] = "unborn"
  /\ stage' = [stage EXCEPT ![w] = "running"]
  /\ cells' = [cells EXCEPT ![w] = {"packet", "slot"}]
  /\ handle' = [handle EXCEPT ![w] = "held"]
  /\ done' = [done EXCEPT ![w] = FALSE]
  /\ UNCHANGED <<result, slot, freed, reaped, late, taken>>

\* spawn_trampoline: the closure returns ...
Returns(w, v) ==
  /\ stage[w] = "running"
  /\ stage' = [stage EXCEPT ![w] = "returned"]
  /\ result' = [result EXCEPT ![w] = v]
  /\ UNCHANGED <<slot, cells, freed, reaped, late, handle, done, taken>>

\* ... its result is written to the slot ...
StoreResult(w) ==
  /\ stage[w] = "returned"
  /\ stage' = [stage EXCEPT ![w] = "stored"]
  /\ slot' = [slot EXCEPT ![w] = result[w]]
  /\ late' = [late EXCEPT ![w] = @ \/ "slot" \notin cells[w]]
  /\ UNCHANGED <<result, cells, freed, reaped, handle, done, taken>>

\* Mutant of Leave: the packet is not freed.
LeaveWithPacket(w) ==
  /\ stage[w] = "stored"
  /\ stage' = [stage EXCEPT ![w] = "gone"]
  /\ UNCHANGED <<result, slot, cells, freed, reaped, late, handle, done, taken>>

\* Mutant of Leave: the thread does not come to an end.
LeaveNever(w) == stage[w] = "stored" /\ UNCHANGED threadVars

\* ... the packet is freed and the thread ends.
Leave(w) ==
  /\ stage[w] = "stored"
  /\ stage' = [stage EXCEPT ![w] = "gone"]
  /\ cells' = [cells EXCEPT ![w] = @ \ {"packet"}]
  /\ UNCHANGED <<result, slot, freed, reaped, late, handle, done, taken>>

-----------------------------------------------------------------------------
(* JoinHandle.join, a step for each statement. *)

Join(w) ==
  /\ Moves(w, "held", "joining")
  /\ UNCHANGED <<stage, result, slot, cells, freed, reaped, late, done, taken>>

\* pthread_join, WaitForSingleObject return.
Ended(w) == stage[w] = "gone"
Reap(w) == reaped' = [reaped EXCEPT ![w] = @ + 1]

\* Mutant of WaitReturns: it does not wait.
WaitReturnsAtOnce(w) ==
  /\ Moves(w, "joining", "waited") /\ Reap(w)
  /\ UNCHANGED <<stage, result, slot, cells, freed, late, done, taken>>

WaitReturns(w) ==
  /\ Moves(w, "joining", "waited") /\ Ended(w) /\ Reap(w)
  /\ UNCHANGED <<stage, result, slot, cells, freed, late, done, taken>>

\* Mutant of SetDone: the flag is not set.
SetDoneForgotten(w) ==
  /\ Moves(w, "waited", "marked")
  /\ UNCHANGED <<stage, result, slot, cells, freed, reaped, late, done, taken>>

\* self.done = true
SetDone(w) ==
  /\ Moves(w, "waited", "marked")
  /\ done' = [done EXCEPT ![w] = TRUE]
  /\ UNCHANGED <<stage, result, slot, cells, freed, reaped, late, taken>>

\* const out = *self.slot
TakeResult(w) ==
  /\ Moves(w, "marked", "taken")
  /\ taken' = [taken EXCEPT ![w] = slot[w]]
  /\ late' = [late EXCEPT ![w] = @ \/ "slot" \notin cells[w]]
  /\ UNCHANGED <<stage, result, slot, cells, freed, reaped, done>>

FreeSlot(w) ==
  /\ cells' = [cells EXCEPT ![w] = @ \ {"slot"}]
  /\ freed' = [freed EXCEPT ![w] = @ + 1]

FreeTaken(w) ==
  /\ Moves(w, "taken", "leaving") /\ FreeSlot(w)
  /\ UNCHANGED <<stage, result, slot, reaped, late, done, taken>>

-----------------------------------------------------------------------------
\* Drop for JoinHandle: nothing when it is done; otherwise the thread is
\* detached and the slot freed, wherever the thread is.
DropOf(w) ==
  \/ done[w] /\ UNCHANGED <<cells, freed, reaped>>
  \/ ~done[w] /\ Reap(w) /\ FreeSlot(w)

\* join drops self, which it took by value, as it returns.
DropSelf(w) ==
  /\ Moves(w, "leaving", "joined") /\ DropOf(w)
  /\ UNCHANGED <<stage, result, slot, late, done, taken>>

\* The handle is dropped by its owner.
DropHandle(w) ==
  /\ Moves(w, "held", "dropped") /\ DropOf(w)
  /\ UNCHANGED <<stage, result, slot, late, done, taken>>

Joining(w) == WaitReturns(w) \/ SetDone(w) \/ TakeResult(w) \/ FreeTaken(w) \/ DropSelf(w)
Runs(w) == (\E v \in Values : Returns(w, v)) \/ StoreResult(w) \/ Leave(w)

Next == \E w \in Workers : Spawn(w) \/ Runs(w) \/ Join(w) \/ Joining(w) \/ DropHandle(w)

\* The operating system runs every thread, closures return, and join goes on.
Fairness == \A w \in Workers : WF_threadVars(Runs(w)) /\ WF_threadVars(Joining(w))

Spec == Init /\ [][Next]_threadVars /\ Fairness

-----------------------------------------------------------------------------
Released(w) == handle[w] \in {"joined", "dropped"}

\* join returns what the closure returned, after the thread has ended, from a
\* slot nobody touches once it is freed (JoinHandle.join).
JoinDelivers ==
  \A w \in Workers : handle[w] = "joined" => taken[w] = result[w] /\ stage[w] = "gone" /\ ~late[w]

\* What a handle owns is given back once: the slot is freed, and the native
\* thread joined or detached, by join or by the drop of the handle, though every
\* join ends with that drop, too.
ReleasedOnce == \A w \in Workers : freed[w] <= 1 /\ reaped[w] <= 1

\* Nobody touches the slot after it was freed, however the handle ends:
\* "Running thread handle, owns the result slot."
SlotNotUsedAfterFree == \A w \in Workers : ~late[w]
=============================================================================
