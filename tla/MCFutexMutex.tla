----------------------------- MODULE MCFutexMutex -----------------------------
(* FutexMutex on small instances. *)
EXTENDS FutexMutex

CONSTANTS t1, t2, t3

ThreeThreads == {t1, t2, t3}
OneTimed == {t1}
==============================================================================
