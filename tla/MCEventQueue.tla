----------------------------- MODULE MCEventQueue -----------------------------
(* EventQueue on small instances. *)
EXTENDS EventQueue

CONSTANTS w1, w2, c1

TwoWaiters == {w1, w2}
OneCaller == {c1}
AllKinds == [k \in Keys |-> k]
==============================================================================
