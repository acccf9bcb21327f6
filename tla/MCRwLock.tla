------------------------------ MODULE MCRwLock -------------------------------
(* Three threads read and write through one lock. *)
EXTENDS StdRwLock
CONSTANTS t1, t2, t3
MCThreads == {t1, t2, t3}
=============================================================================
