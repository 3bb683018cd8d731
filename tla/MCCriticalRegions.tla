-------------------------- MODULE MCCriticalRegions --------------------------
(***************************************************************************)
(* Three threads, memory for one object, at most one cut call per thread:  *)
(* every thread can wait for another one's region and for memory.          *)
(***************************************************************************)
EXTENDS CriticalRegions

CONSTANTS t1, t2, t3

Two == {t1, t2}
Three == {t1, t2, t3}

=============================================================================
