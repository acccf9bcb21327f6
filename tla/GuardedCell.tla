----------------------------- MODULE GuardedCell -----------------------------
(***************************************************************************)
(* What a lock around a value promises: any number of readers or one       *)
(* writer, and the value changes under the writer's hands only.            *)
(***************************************************************************)
EXTENDS Naturals
CONSTANTS Threads, Nobody
VARIABLES readers,   \* who may read the value
          writer,    \* who may change it, Nobody otherwise
          content    \* the value

vars == <<readers, writer, content>>

Init == readers = {} /\ writer = Nobody /\ content = 0

Enter(t) ==
  /\ writer = Nobody /\ t \notin readers
  /\ readers' = readers \cup {t}
  /\ UNCHANGED <<writer, content>>

Leave(t) ==
  /\ t \in readers
  /\ readers' = readers \ {t}
  /\ UNCHANGED <<writer, content>>

Seize(t) ==
  /\ writer = Nobody /\ readers = {}
  /\ writer' = t
  /\ UNCHANGED <<readers, content>>

Update(t) ==
  /\ writer = t
  /\ content' = content + 1
  /\ UNCHANGED <<readers, writer>>

Yield(t) ==
  /\ writer = t
  /\ writer' = Nobody
  /\ UNCHANGED <<readers, content>>

Next == \E t \in Threads : Enter(t) \/ Leave(t) \/ Seize(t) \/ Update(t) \/ Yield(t)

Spec == Init /\ [][Next]_vars
=============================================================================
