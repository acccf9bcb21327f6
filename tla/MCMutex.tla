------------------------------- MODULE MCMutex -------------------------------
(* Three threads call one mutex, on each platform. *)
EXTENDS StdMutex
CONSTANTS t1, t2, t3
MCThreads == {t1, t2, t3}
MCPlatforms == {"waits", "fails", "nests"}
Nesting == {"nests"}
=============================================================================
