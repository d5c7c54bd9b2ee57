------------------------------ MODULE MCCondVar ------------------------------
(* CondVar on small instances. *)
EXTENDS CondVar

CONSTANTS t1, t2, t3

ThreeThreads == {t1, t2, t3}
==============================================================================
