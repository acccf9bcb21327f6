-------------------------------- MODULE MCArc --------------------------------
(* Three threads share one Arc through at most four handles at a time. *)
EXTENDS ArcCell
CONSTANTS t1, t2, t3, h1, h2, h3, h4
MCThreads == {t1, t2, t3}
MCHandles == {h1, h2, h3, h4}
=============================================================================
