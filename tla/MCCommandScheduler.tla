-------------------------- MODULE MCCommandScheduler --------------------------
(* CommandScheduler on small instances. *)
EXTENDS CommandScheduler
==============================================================================
