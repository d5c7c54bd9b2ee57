------------------------------- MODULE CondVar -------------------------------
(***************************************************************************)
(* The guest condition variable of src/src/kernel/pthread.cpp: the queue   *)
(* cond->waiters under the host mutex cond->m, and one host condition      *)
(* variable and sequence number per thread (cond_cv, cond_sequence), so    *)
(* that a signal releases the thread it chose and no other.                *)
(*                                                                         *)
(* A wait holds cond->m from joining the queue, over the release of the    *)
(* guest mutex, to its first sleep; these are three steps here, because    *)
(* the guest mutex is seen free in between.  The guest mutex itself is     *)
(* AbstractMutex, which FutexMutex implements.  The host condition         *)
(* variable is external: notify_one releases its one sleeper, and a        *)
(* sleeper may return by itself (its time, PthreadWakeForSignal, or        *)
(* spuriously).  A wait nested in a guest signal handler is not modelled.  *)
(* A signal that finds no waiter changes nothing and has no action.        *)
(***************************************************************************)
EXTENDS Naturals, Sequences, SequencesExt, FiniteSets

CONSTANTS Threads,
          NoThread,    \* nobody holds the mutex
          Recursive,   \* is the guest mutex recursive
          MaxCount     \* bound on its recursion depth

ASSUME CondAssumption ==
  /\ NoThread \notin Threads
  /\ Recursive \in BOOLEAN
  /\ MaxCount \in Nat \ {0}

VARIABLES
  holder, depth,   \* the guest mutex: owner and count
  m,               \* cond->m: the thread that holds it across steps
  waiters,         \* cond->waiters
  ready,           \* cond_sequence differs from the thread_sequence of the wait
  pc,              \* where each thread is, see PCs
  recurse,         \* the recursion depth to restore
  timed,           \* "no", "zero" (usec 0) or "deadline"
  expired,         \* has the deadline passed
  result           \* of the wait

vars == <<holder, depth, m, waiters, ready, pc, recurse, timed, expired, result>>

PCs == {"guest",    \* not in a wait
        "joined",   \* in waiters, guest mutex still held
        "loop",     \* at the test of the loop, holding cond->m
        "asleep",   \* in cond_cv.wait
        "awake",    \* wants cond->m again
        "relock"}   \* wants the guest mutex again

Mutex == INSTANCE AbstractMutex

Init ==
  /\ Mutex!Init
  /\ m = NoThread
  /\ waiters = <<>>
  /\ ready = [t \in Threads |-> FALSE]
  /\ pc = [t \in Threads |-> "guest"]
  /\ recurse = [t \in Threads |-> 0]
  /\ timed = [t \in Threads |-> "no"]
  /\ expired = [t \in Threads |-> FALSE]
  /\ result = [t \in Threads |-> "Ok"]

------------------------------------------------------------------------------
(* The guest's own use of the mutex. *)
Locks(t) ==
  /\ pc[t] = "guest"
  /\ Mutex!Acquire(t) \/ Mutex!Reenter(t)
  /\ UNCHANGED <<m, waiters, ready, pc, recurse, timed, expired, result>>

Unlocks(t) ==
  /\ pc[t] = "guest"
  /\ Mutex!Leave(t) \/ Mutex!Release(t)
  /\ UNCHANGED <<m, waiters, ready, pc, recurse, timed, expired, result>>

(* The wait: the caller must own the mutex; take cond->m, join the queue. *)
JoinWaiters(t, tm) ==
  /\ pc[t] = "guest"
  /\ holder = t
  /\ m = NoThread
  /\ m' = t
  /\ waiters' = Append(waiters, t)
  /\ pc' = [pc EXCEPT ![t] = "joined"]
  /\ timed' = [timed EXCEPT ![t] = tm]
  /\ UNCHANGED <<holder, depth, ready, recurse, expired, result>>

(* NativeMutexUnlock with recurse: all levels are given up at once. *)
UnlockAll(t) ==
  /\ pc[t] = "joined"
  /\ holder = t
  /\ recurse' = [recurse EXCEPT ![t] = depth]
  /\ holder' = NoThread
  /\ depth' = 0
  /\ pc' = [pc EXCEPT ![t] = "loop"]
  /\ UNCHANGED <<m, waiters, ready, timed, expired, result>>

DeadlinePasses(t) ==
  /\ pc[t] \in {"loop", "asleep", "awake"}
  /\ timed[t] = "deadline"
  /\ ~expired[t]
  /\ expired' = [expired EXCEPT ![t] = TRUE]
  /\ UNCHANGED <<holder, depth, m, waiters, ready, pc, recurse, timed, result>>

SleepEnds(t) ==
  /\ pc[t] = "asleep"
  /\ pc' = [pc EXCEPT ![t] = "awake"]
  /\ UNCHANGED <<holder, depth, m, waiters, ready, recurse, timed, expired, result>>

(* Back to the loop from the sleep.  A thread that is not ready then may   *)
(* give cond->m up again to dispatch a guest signal and want it back: that *)
(* is a longer stay at "awake".                                            *)
TakeHostMutex(t) ==
  /\ pc[t] = "awake"
  /\ m = NoThread
  /\ m' = t
  /\ pc' = [pc EXCEPT ![t] = "loop"]
  /\ UNCHANGED <<holder, depth, waiters, ready, recurse, timed, expired, result>>

TooLate(t) == timed[t] = "zero" \/ expired[t]

(* Neither chosen nor late: sleep, which gives cond->m up. *)
Sleep(t) ==
  /\ pc[t] = "loop"
  /\ ~ready[t] /\ ~TooLate(t)
  /\ m' = NoThread
  /\ pc' = [pc EXCEPT ![t] = "asleep"]
  /\ UNCHANGED <<holder, depth, waiters, ready, recurse, timed, expired, result>>

(* Fault: the entry stays in the queue. *)
EntryStays(t) == UNCHANGED waiters

(* CondRemoveWaiter: t is in the queue once, or not any more. *)
RemoveWaiter(t) ==
  \/ t \notin Range(waiters) /\ UNCHANGED waiters
  \/ \E i \in DOMAIN waiters : waiters[i] = t /\ waiters' = RemoveAt(waiters, i)

(* Fault: lateness is looked at first. *)
LateOutcome(t) == IF TooLate(t) THEN "TimedOut" ELSE "Ok"

(* A wait of zero microseconds is late whatever happened; any other looks  *)
(* at the sequence number first.                                           *)
Outcome(t) == IF ready[t] /\ timed[t] # "zero" THEN "Ok" ELSE "TimedOut"

(* The loop ends: leave the queue, give cond->m up. *)
LeaveLoop(t) ==
  /\ pc[t] = "loop"
  /\ ready[t] \/ TooLate(t)
  /\ result' = [result EXCEPT ![t] = Outcome(t)]
  /\ RemoveWaiter(t)
  /\ m' = NoThread
  /\ pc' = [pc EXCEPT ![t] = "relock"]
  /\ UNCHANGED <<holder, depth, ready, recurse, timed, expired>>

(* The call returns result[t]; its locals are gone. *)
Return(t) ==
  /\ pc' = [pc EXCEPT ![t] = "guest"]
  /\ ready' = [ready EXCEPT ![t] = FALSE]
  /\ recurse' = [recurse EXCEPT ![t] = 0]
  /\ timed' = [timed EXCEPT ![t] = "no"]
  /\ expired' = [expired EXCEPT ![t] = FALSE]
  /\ result' = [result EXCEPT ![t] = "Ok"]
  /\ UNCHANGED <<m, waiters>>

(* NativeMutexLockRecurse: the lock, then the depth, then the return. *)
Relock(t) ==
  /\ pc[t] = "relock"
  /\ holder = NoThread
  /\ holder' = t
  /\ depth' = IF recurse[t] > 1 THEN recurse[t] ELSE 1
  /\ Return(t)

------------------------------------------------------------------------------
(* Signals: chosen threads leave the queue, their sequence number changes, *)
(* and their own condition variable is notified, all under cond->m.        *)

(* Fault: only the first chosen thread is notified. *)
NotifyFirst(S) ==
  pc' = [t \in Threads |-> IF t \in S /\ t = Head(waiters) /\ pc[t] = "asleep"
                             THEN "awake" ELSE pc[t]]

Notify(S) ==
  pc' = [t \in Threads |-> IF t \in S /\ pc[t] = "asleep" THEN "awake" ELSE pc[t]]

HostMutexFree == m = NoThread

(* The threads S are chosen and rest stays queued. *)
Choose(S, rest) ==
  /\ HostMutexFree
  /\ waiters' = rest
  /\ ready' = [t \in Threads |-> ready[t] \/ t \in S]
  /\ Notify(S)
  /\ UNCHANGED <<holder, depth, m, recurse, timed, expired, result>>

Signal == waiters # <<>> /\ Choose({Head(waiters)}, Tail(waiters))
SignalTo == \E i \in DOMAIN waiters : Choose({waiters[i]}, RemoveAt(waiters, i))
Broadcast == waiters # <<>> /\ Choose(Range(waiters), <<>>)

(* Any thread that runs guest code may signal, with or without the mutex. *)
AnySignal ==
  /\ \E t \in Threads : pc[t] = "guest"
  /\ Signal \/ SignalTo \/ Broadcast

------------------------------------------------------------------------------
CondWait(t) ==
  \/ UnlockAll(t) \/ Sleep(t) \/ TakeHostMutex(t) \/ LeaveLoop(t)
  \/ Relock(t)

Next ==
  \/ \E t \in Threads :
       \/ Locks(t) \/ Unlocks(t)
       \/ \E tm \in {"no", "zero", "deadline"} : JoinWaiters(t, tm)
       \/ CondWait(t) \/ DeadlinePasses(t) \/ SleepEnds(t)
  \/ AnySignal

Spec == Init /\ [][Next]_vars

(* Threads in a wait run when they can, and get the host mutex cond->m if  *)
(* it is free again and again; a holder outside a wait eventually unlocks; *)
(* deadlines pass and end the sleep of a timed wait.  An untimed sleeper   *)
(* need not wake unless it is notified.                                    *)
Fairness ==
  \A t \in Threads :
    /\ WF_vars(CondWait(t))
    /\ SF_vars(TakeHostMutex(t))
    /\ WF_vars(Unlocks(t))
    /\ WF_vars(DeadlinePasses(t))
    /\ WF_vars(expired[t] /\ SleepEnds(t))

FairSpec == Spec /\ Fairness

------------------------------------------------------------------------------
(* Properties *)

InWait == {t \in Threads : pc[t] \in {"joined", "loop", "asleep", "awake"}}

(* Types; no thread is queued twice. *)
TypeOK ==
  /\ Mutex!TypeOK
  /\ m \in Threads \cup {NoThread}
  /\ waiters \in Seq(Threads)
  /\ IsInjective(waiters)
  /\ ready \in [Threads -> BOOLEAN]
  /\ pc \in [Threads -> PCs]
  /\ recurse \in [Threads -> 0..MaxCount]
  /\ timed \in [Threads -> {"no", "zero", "deadline"}]
  /\ expired \in [Threads -> BOOLEAN]
  /\ result \in [Threads -> {"Ok", "TimedOut"}]

(* The queue holds exactly the threads in a wait that no signal has chosen *)
(* yet: a signal sent once the waiter has let the mutex go finds it, and   *)
(* no signal is spent on a thread that has left.                           *)
WaitersExact ==
  Range(waiters) = {t \in InWait : ~ready[t]}

(* When the guest stops asking for the mutex, waiting and signalling,      *)
(* every thread that was chosen or is late is back in the guest.           *)
GuestActs ==
  AnySignal \/ \E t \in Threads :
                 Locks(t) \/ \E tm \in {"no", "zero", "deadline"} : JoinWaiters(t, tm)
NobodyKeptIn ==
  <>[][~GuestActs]_vars
    => <>[](\A t \in Threads : pc[t] = "guest" \/ (timed[t] = "no" /\ ~ready[t]))

(* What the waiting threads are to the guest: the one that has just joined *)
(* and still holds the mutex is not waiting yet.                           *)
Waiting == IF \E t \in Threads : pc[t] = "joined" THEN Front(waiters) ELSE waiters

Returning == {t \in Threads : pc[t] = "relock" \/ (t \in InWait /\ ready[t])}

(* result is set when the loop is left; from the choice on it is known. *)
Known == [t \in Threads |-> IF t \in InWait /\ ready[t] THEN "Ok" ELSE result[t]]

Abstract ==
  INSTANCE AbstractCond WITH queue <- Waiting, back <- Returning, saved <- recurse,
                             outcome <- Known

(* The code implements the abstract condition variable: giving up the      *)
(* mutex and starting to wait is one step for the guest, although the code *)
(* takes several, because cond->m is held over all of them; a deadline     *)
(* that passes after a signal chose the thread does not turn its OK into   *)
(* ETIMEDOUT; and the mutex is back as deeply as it was held.              *)
ImplementsAbstractCond == Abstract!Spec
==============================================================================
