--------------------------- MODULE SharedOwnership ---------------------------
(***************************************************************************)
(* What sharing one heap value promises: it lives while it has an owner,   *)
(* any owner may make another, and once the last one is gone the value is  *)
(* reclaimed, once.                                                        *)
(***************************************************************************)
CONSTANTS Owners,   \* every name an owner can have
          First     \* the owner the value is created for
VARIABLES owners,   \* who shares the value now
          alive     \* whether the value still exists

vars == <<owners, alive>>

Init == owners = {First} /\ alive = TRUE

Share(new) ==
  /\ owners # {}
  /\ new \in Owners \ owners
  /\ owners' = owners \cup {new}
  /\ UNCHANGED alive

Release(o) ==
  /\ o \in owners
  /\ owners' = owners \ {o}
  /\ UNCHANGED alive

Reclaim ==
  /\ owners = {} /\ alive
  /\ alive' = FALSE
  /\ UNCHANGED owners

Next == (\E o \in Owners : Share(o) \/ Release(o)) \/ Reclaim

Spec == Init /\ [][Next]_vars /\ WF_vars(Reclaim)
=============================================================================
