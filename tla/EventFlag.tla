------------------------------- MODULE EventFlag -------------------------------
(***************************************************************************)
(* One guest event flag, src/src/kernel/eventFlag.cpp.                     *)
(*                                                                         *)
(* What a call does between taking m_mutex and releasing it, or sleeping,  *)
(* is one step.  Set, Clear, Cancel and the destructor release the mutex   *)
(* for 10 us at a time, in two loops: "spin" until no cancellation is in   *)
(* progress, and "drain" until m_waiting_threads is 0.  Calls of others    *)
(* come in between.                                                        *)
(*                                                                         *)
(* The guest is assumed to start no call on a flag it has begun to delete, *)
(* and to delete it while nothing but waits and cancellations are in       *)
(* progress: a Set that spins would go on with freed memory.               *)
(***************************************************************************)
EXTENDS Integers, FiniteSets

CONSTANTS Threads,
          Bits,
          WaitCalls,   \* arguments of the waits: the bits, how, what to clear, timeout
          Masks        \* arguments of set, clear and cancel

WaitArguments ==
  [bits : (SUBSET Bits) \ {{}}, mode : {"and", "or"}, clear : {"none", "all", "bits"},
   timeout : {"none", "some", "poll"}]

ASSUME EventFlagAssumption ==
  /\ IsFiniteSet(Threads)
  /\ WaitCalls \subseteq WaitArguments
  /\ Masks \subseteq SUBSET Bits

VARIABLES
  single,    \* m_single_thread
  bits,      \* m_bits
  status,    \* m_status
  waiting,   \* m_waiting_threads
  deleting,  \* has KernelDeleteEventFlag been called
  freed,     \* has the destructor returned
  pc,        \* "idle", "asleep", "awake", "spin" or "drain"
  call,      \* the call in progress
  late,      \* has the deadline of the wait passed
  doomed,    \* history: "canceled" or "deleted" for a thread whom a cancellation
             \* or the deletion found waiting, until its wait returns
  result     \* what the wait that ended last returned

vars == <<single, bits, status, waiting, deleting, freed, pc, call, late, doomed, result>>

NoCall == [op |-> "none"]
Changes == [op : {"set", "clear", "cancel"}, bits : Masks]
Deletion == [op |-> "delete"]

Init ==
  /\ single \in BOOLEAN
  /\ bits \in Masks
  /\ status = "set"
  /\ waiting = 0
  /\ deleting = FALSE /\ freed = FALSE
  /\ pc = [t \in Threads |-> "idle"]
  /\ call = [t \in Threads |-> NoCall]
  /\ late = [t \in Threads |-> FALSE]
  /\ doomed = [t \in Threads |-> "no"]
  /\ result = "none"

------------------------------------------------------------------------------
(* The wait *)

Inside == {t \in Threads : pc[t] \in {"asleep", "awake"}}

Met(c) ==
  IF c.mode = "and" THEN c.bits \subseteq bits ELSE c.bits \cap bits # {}

Left(c) ==
  CASE c.clear = "all"  -> {}
    [] c.clear = "bits" -> bits \ c.bits
    [] c.clear = "none" -> bits

(* t's wait returns r. *)
Returns(t, r) ==
  /\ pc' = [pc EXCEPT ![t] = "idle"]
  /\ call' = [call EXCEPT ![t] = NoCall]
  /\ late' = [late EXCEPT ![t] = FALSE]
  /\ doomed' = [doomed EXCEPT ![t] = "no"]
  /\ result' = r

Expired(t, c) == c.timeout = "poll" \/ late[t]

(* The loop from its head: the bits are there, or it is too late, or it    *)
(* sleeps.  others is m_waiting_threads without t.                         *)
Pass(t, c, others) ==
  \/ /\ Met(c)
     /\ bits' = Left(c)
     /\ waiting' = others
     /\ Returns(t, "ok")
  \/ /\ ~Met(c) /\ Expired(t, c)
     /\ waiting' = others
     /\ Returns(t, "timed_out")
     /\ UNCHANGED bits
  \/ /\ ~Met(c) /\ ~Expired(t, c)
     /\ waiting' = others + 1
     /\ pc' = [pc EXCEPT ![t] = "asleep"]
     /\ call' = [call EXCEPT ![t] = c]
     /\ UNCHANGED <<bits, late, doomed, result>>

Refused == single /\ waiting > 0

Enter(t, c) ==
  /\ ~deleting
  /\ pc[t] = "idle"
  /\ IF Refused
       THEN Returns(t, "already_waiting") /\ UNCHANGED <<bits, waiting>>
       ELSE Pass(t, c, waiting)
  /\ UNCHANGED <<single, status, deleting, freed>>

(* A notification, the end of WaitFor, or the 10 ms of CondVar::Wait. *)
SleepEnds(t) ==
  /\ pc[t] = "asleep"
  /\ pc' = [pc EXCEPT ![t] = "awake"]
  /\ UNCHANGED <<single, bits, status, waiting, deleting, freed, call, late, doomed, result>>

DeadlinePasses(t) ==
  /\ pc[t] \in {"asleep", "awake"}
  /\ call[t].timeout = "some" /\ ~late[t]
  /\ late' = [late EXCEPT ![t] = TRUE]
  /\ UNCHANGED <<single, bits, status, waiting, deleting, freed, pc, call, doomed, result>>

(* Fault: the count is not taken back after the sleep. *)
StillCounted == waiting

(* m_waiting_threads once a sleep has ended. *)
Uncounted == waiting - 1

(* The thread has the mutex back and looks at m_status. *)
Resume(t) ==
  /\ pc[t] = "awake"
  /\ IF status = "set"
       THEN Pass(t, call[t], Uncounted)
       ELSE /\ waiting' = Uncounted
            /\ Returns(t, status)
            /\ UNCHANGED bits
  /\ UNCHANGED <<single, status, deleting, freed>>

------------------------------------------------------------------------------
(* Set, Clear, Cancel, and the destructor *)

(* m_cond_var.SignalAll *)
SignalAll == [t \in Threads |-> IF pc[t] = "asleep" THEN "awake" ELSE pc[t]]

(* Fault: one sleeper is woken. *)
OneOf ==
  IF \E t \in Threads : pc[t] = "asleep"
    THEN [pc EXCEPT ![CHOOSE t \in Threads : pc[t] = "asleep"] = "awake"]
    ELSE pc

(* Set wakes everybody who waits, whatever for. *)
SetWakes == SignalAll

(* t may begin call c, or is spinning in it. *)
Begins(t, c) ==
  \/ pc[t] = "spin" /\ call[t] = c
  \/ pc[t] = "idle" /\ ~deleting

Finished(t, woken) ==
  /\ pc' = [woken EXCEPT ![t] = "idle"]
  /\ call' = [call EXCEPT ![t] = NoCall]

(* A cancellation is in progress: spin. *)
Spin(t, c) ==
  /\ pc[t] = "idle" /\ ~deleting
  /\ status # "set"
  /\ pc' = [pc EXCEPT ![t] = "spin"]
  /\ call' = [call EXCEPT ![t] = c]
  /\ deleting' = (c = Deletion)
  /\ c = Deletion => \A s \in Threads : pc[s] # "spin"
  /\ UNCHANGED <<single, bits, status, waiting, freed, late, doomed, result>>

Set(t, m) ==
  /\ Begins(t, [op |-> "set", bits |-> m])
  /\ status = "set"
  /\ bits' = bits \cup m
  /\ Finished(t, SetWakes)
  /\ UNCHANGED <<single, status, waiting, deleting, freed, late, doomed, result>>

Clear(t, m) ==
  /\ Begins(t, [op |-> "clear", bits |-> m])
  /\ status = "set"
  /\ bits' = bits \cap m
  /\ Finished(t, pc)
  /\ UNCHANGED <<single, status, waiting, deleting, freed, late, doomed, result>>

(* Fault: Cancel and the destructor do not wait for the waiters to leave. *)
NoDrain == TRUE

Drained == waiting = 0

(* The waits in progress are to return r; drain. *)
Strike(t, c, r) ==
  /\ doomed' = [s \in Threads |-> IF s \in Inside THEN r ELSE doomed[s]]
  /\ IF Drained
       THEN Finished(t, SignalAll)
       ELSE /\ pc' = [SignalAll EXCEPT ![t] = "drain"]
            /\ call' = [call EXCEPT ![t] = c]

Cancel(t, m) ==
  LET c == [op |-> "cancel", bits |-> m] IN
  /\ Begins(t, c)
  /\ status = "set"
  /\ bits' = m
  /\ status' = IF Drained THEN "set" ELSE "canceled"
  /\ Strike(t, c, "canceled")
  /\ UNCHANGED <<single, waiting, deleting, freed, late, result>>

CancelEnds(t) ==
  /\ pc[t] = "drain" /\ call[t].op = "cancel"
  /\ Drained
  /\ status' = "set"
  /\ Finished(t, pc)
  /\ UNCHANGED <<single, bits, waiting, deleting, freed, late, doomed, result>>

(* KernelDeleteEventFlag: the destructor. *)
Delete(t) ==
  /\ Begins(t, Deletion)
  /\ \A s \in Threads \ {t} : pc[s] # "spin"
  /\ status = "set"
  /\ deleting' = TRUE
  /\ status' = "deleted"
  /\ Strike(t, Deletion, "deleted")
  /\ freed' = Drained
  /\ UNCHANGED <<single, bits, waiting, late, result>>

DeleteEnds(t) ==
  /\ pc[t] = "drain" /\ call[t] = Deletion
  /\ Drained
  /\ freed' = TRUE
  /\ Finished(t, pc)
  /\ UNCHANGED <<single, bits, status, waiting, deleting, late, doomed, result>>

------------------------------------------------------------------------------
Change(t) ==
  \E m \in Masks : Set(t, m) \/ Clear(t, m) \/ Cancel(t, m)

Next ==
  \E t \in Threads :
    \/ \E c \in WaitCalls : Enter(t, c)
    \/ SleepEnds(t) \/ DeadlinePasses(t) \/ Resume(t)
    \/ \E c \in Changes \cup {Deletion} : Spin(t, c)
    \/ Change(t) \/ CancelEnds(t)
    \/ Delete(t) \/ DeleteEnds(t)

Spec == Init /\ [][Next]_vars

(* Threads inside a call run when they can, and CondVar::Wait polls every  *)
(* 10 ms (the callback Initialize of pthread.cpp installs).                *)
Fairness ==
  \A t \in Threads :
    /\ WF_vars(SleepEnds(t)) /\ WF_vars(Resume(t))
    /\ WF_vars(pc[t] = "spin" /\ (Change(t) \/ Delete(t)))
    /\ WF_vars(CancelEnds(t)) /\ WF_vars(DeleteEnds(t))

FairSpec == Spec /\ Fairness

------------------------------------------------------------------------------
(* Properties *)

TypeOK ==
  /\ single \in BOOLEAN /\ bits \subseteq Bits
  /\ status \in {"set", "canceled", "deleted"}
  /\ waiting = Cardinality(Inside)
  /\ deleting \in BOOLEAN /\ freed \in BOOLEAN
  /\ pc \in [Threads -> {"idle", "asleep", "awake", "spin", "drain"}]
  /\ call \in [Threads -> WaitCalls \cup Changes \cup {Deletion, NoCall}]
  /\ late \in [Threads -> BOOLEAN]
  /\ doomed \in [Threads -> {"no", "canceled", "deleted"}]
  /\ result \in {"none", "ok", "already_waiting", "timed_out", "canceled", "deleted"}

(* A single-thread flag never has two threads in a wait, though each one   *)
(* leaves the count and joins it again whenever its sleep ends.            *)
SingleWaiter == single => Cardinality(Inside) <= 1

(* Who was waiting when a cancellation or the deletion struck returns just *)
(* that: not OK for the bits a cancellation sets, not a timeout, and it    *)
(* does not sleep on.                                                      *)
StruckReturn ==
  [][\A t \in Threads :
        doomed[t] # "no" => /\ pc'[t] = "idle" => result' = doomed[t]
                            /\ pc'[t] # "asleep"]_vars

(* Nobody sleeps whose bits are in the flag. *)
NoStrandedSleeper == \A t \in Threads : pc[t] = "asleep" => ~Met(call[t])

(* When the memory goes nobody is in a call. *)
NobodyInFreed == freed => \A t \in Threads : pc[t] = "idle"

(* Unless waits keep being entered for ever, whoever spins or drains gets  *)
(* through: a cancellation ends even if a thread began to wait during it,  *)
(* whom nothing wakes but the 10 ms poll.                                  *)
SettlesDown == <>[][\A t \in Threads : pc[t] = "idle" => pc'[t] # "asleep"]_vars
AllGetThrough ==
  SettlesDown =>
    \A t \in Threads : pc[t] \in {"spin", "drain"} ~> pc[t] = "idle"
==============================================================================
