---------------------------- MODULE AbstractMutex ----------------------------
(***************************************************************************)
(* What a guest mutex promises: at most one thread holds it, only the      *)
(* holder re-enters it or gives it back, and it is free again only after   *)
(* as many unlocks as locks.  FutexMutex is shown to implement this        *)
(* specification.                                                          *)
(***************************************************************************)
EXTENDS Naturals

CONSTANTS Threads,     \* the guest threads
          NoThread,    \* "nobody holds the mutex"
          Recursive,   \* TRUE for a mutex of type 2 (recursive)
          MaxCount     \* the largest recursion depth (UINT32_MAX in the code)

VARIABLES holder, depth
vars == <<holder, depth>>

TypeOK ==
  /\ holder \in Threads \cup {NoThread}
  /\ depth \in 0..MaxCount

Init ==
  /\ holder = NoThread
  /\ depth = 0

Acquire(t) ==
  /\ holder = NoThread
  /\ holder' = t
  /\ depth' = 1

Reenter(t) ==
  /\ Recursive
  /\ holder = t
  /\ depth < MaxCount
  /\ depth' = depth + 1
  /\ UNCHANGED holder

Leave(t) ==
  /\ holder = t
  /\ depth > 1
  /\ depth' = depth - 1
  /\ UNCHANGED holder

Release(t) ==
  /\ holder = t
  /\ depth = 1
  /\ holder' = NoThread
  /\ depth' = 0

Next == \E t \in Threads : Acquire(t) \/ Reenter(t) \/ Leave(t) \/ Release(t)

Spec == Init /\ [][Next]_vars
==============================================================================
