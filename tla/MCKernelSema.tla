----------------------------- MODULE MCKernelSema -----------------------------
(* KernelSema on small instances. *)
EXTENDS KernelSema

CONSTANTS t1, t2, t3

ThreeThreads == {t1, t2, t3}
OneThread == {t1}
MixedPriority == [t \in Threads |-> IF t = t1 THEN 256 ELSE 700]
CancelSome == {-1, 0}

(* Less, more, and so many that the sum may wrap around. *)
SignalSome == {-1, 1, 3}
==============================================================================
