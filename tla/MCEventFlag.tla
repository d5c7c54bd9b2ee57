------------------------------ MODULE MCEventFlag ------------------------------
(* EventFlag on small instances. *)
EXTENDS EventFlag

CONSTANTS t1, t2, t3, a, b

ThreeThreads == {t1, t2, t3}
TwoBits == {a, b}

(* One wait of each kind of timeout, and of each way to wait and to clear. *)
SomeWaits ==
  {[bits |-> {a, b}, mode |-> "and", clear |-> "bits", timeout |-> "none"],
   [bits |-> {a, b}, mode |-> "or",  clear |-> "all",  timeout |-> "some"],
   [bits |-> {a},    mode |-> "and", clear |-> "none", timeout |-> "poll"]}
SomeMasks == {{}, {a}, {b}}
==============================================================================
