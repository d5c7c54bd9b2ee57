------------------------------- MODULE MCRwlock -------------------------------
(* Rwlock on small instances. *)
EXTENDS Rwlock

CONSTANTS t1, t2, t3

ThreeThreads == {t1, t2, t3}
==============================================================================
