------------------------------ MODULE KernelSema ------------------------------
(***************************************************************************)
(* The guest counting semaphore of src/src/kernel/semaphore.cpp            *)
(* (KernelSemaPrivate).  Every operation runs under m_mutex and is one     *)
(* action; Wait is cut where it sleeps on m_cond_var, the one condition    *)
(* variable all waiters of the semaphore share.                            *)
(*                                                                         *)
(* The host condition variable is external: Signal releases one of the     *)
(* threads asleep on it, any of them, SignalAll all of them, and a sleeper *)
(* may return by itself: Common::CondVar::Wait is a 10 ms timed wait since *)
(* the signal-dispatch hook is installed, WaitFor ends with its time.      *)
(*                                                                         *)
(* The counts are ints.  Signal takes any of them and tests the sum alone: *)
(* a negative argument lowers m_count, and a sum no int can hold wraps     *)
(* around, as the addition the compilers emit does, before it is tested.   *)
(***************************************************************************)
EXTENDS Integers, Sequences, SequencesExt, FiniteSets

CONSTANTS Threads,
          Priority,       \* guest priority of each thread, smaller first
          InitCount,      \* m_init_count
          MaxCount,       \* m_max_count
          IntMax,         \* the largest int, 2^31 - 1 in the build
          SignalCounts,   \* arguments of Signal that are tried
          CancelCounts,   \* arguments of Cancel that are tried
          TimedCallers,   \* the threads that may wait with a timeout
          Deleter         \* the threads that may delete the semaphore

ASSUME KernelSemaAssumption ==
  /\ IsFiniteSet(Threads)
  /\ Priority \in [Threads -> Int]
  /\ IntMax \in Nat
  /\ MaxCount \in 1..IntMax
  /\ InitCount \in 0..MaxCount
  /\ SignalCounts \subseteq (-IntMax - 1)..IntMax
  /\ CancelCounts \subseteq Int
  /\ TimedCallers \cup Deleter \subseteq Threads

VARIABLES
  fifo,      \* m_fifo_order, fixed when the semaphore is made
  count,     \* m_count
  status,    \* m_status, and "Freed" once the destructor is done
  waiters,   \* m_waiting_threads
  need,      \* WaitingThread::need_count of a thread in the queue
  ready,     \* WaitingThread::ready
  result,    \* WaitingThread::result, then what the thread's call returned
  pc,        \* "idle", "asleep" on m_cond_var, "awake" or "deleting"
  timed,     \* does the wait in progress have a deadline
  expired,   \* has it passed
  arrivals,  \* history: the threads in the queue in order of arrival
  ledger,    \* history: the count as the guest can reckon it from the calls
             \* that returned
  lowered    \* history: since the last Cancel, has a Signal had a negative
             \* argument or a sum that wrapped around

vars == <<fifo, count, status, waiters, need, ready, result, pc, timed, expired,
          arrivals, ledger, lowered>>

Ints == (-IntMax - 1)..IntMax

Results == {"Ok", "TimedOut", "Canceled", "Deleted", "InvalCount"}
NoNeed == 0

Asleep == {t \in Threads : pc[t] = "asleep"}
Unready == {t \in Range(waiters) : ~ready[t]}

(* Waiters already given their tokens but not yet back in the guest. *)
Granted == {t \in Range(waiters) : ready[t] /\ result[t] = "Ok"}

(* The tokens a set of waiters asks for, and how many they are. *)
Tokens(S) == {token \in Threads \X (1..MaxCount) :
                token[1] \in S /\ token[2] <= need[token[1]]}
Total(S) == Cardinality(Tokens(S))

Init ==
  /\ fifo \in BOOLEAN
  /\ count = InitCount
  /\ status = "Set"
  /\ waiters = <<>>
  /\ need = [t \in Threads |-> NoNeed]
  /\ ready = [t \in Threads |-> FALSE]
  /\ result = [t \in Threads |-> "Ok"]
  /\ pc = [t \in Threads |-> "idle"]
  /\ timed = [t \in Threads |-> FALSE]
  /\ expired = [t \in Threads |-> FALSE]
  /\ arrivals = <<>>
  /\ ledger = InitCount
  /\ lowered = FALSE

------------------------------------------------------------------------------
(* A call that returns at once. *)
Reply(t, r) == result' = [result EXCEPT ![t] = r]

Queue == <<waiters, need, ready, pc, timed, expired, arrivals>>

(* The threads a notification of m_cond_var may release. *)
SignalOne == IF Asleep = {} THEN {{}} ELSE {{s} : s \in Asleep}
SignalAll == {Asleep}

WakeUp(S) == [t \in Threads |-> IF t \in S THEN "awake" ELSE pc[t]]

(* Fault: every queue is first in, first out. *)
AddWaiterLast(t) == waiters' = Append(waiters, t)

(* AddWaiter: at the end, or behind the waiters of smaller or equal        *)
(* priority number.                                                        *)
AddWaiter(t) == \E at \in 1..(Len(waiters) + 1) :
  /\ IF fifo THEN at = Len(waiters) + 1
     ELSE /\ \A i \in 1..(at - 1) : Priority[waiters[i]] <= Priority[t]
          /\ at <= Len(waiters) => Priority[waiters[at]] > Priority[t]
  /\ waiters' = InsertAt(waiters, at, t)

Without(queue, t) ==
  IF t \in Range(queue) THEN RemoveAt(queue, CHOOSE i \in DOMAIN queue : queue[i] = t)
  ELSE queue

RemoveWaiter(t) ==
  /\ waiters' = Without(waiters, t)
  /\ arrivals' = Without(arrivals, t)
  /\ need' = [need EXCEPT ![t] = NoNeed]
  /\ ready' = [ready EXCEPT ![t] = FALSE]
  /\ timed' = [timed EXCEPT ![t] = FALSE]
  /\ expired' = [expired EXCEPT ![t] = FALSE]

(* Fault: the scan stops at the first waiter that does not fit. *)
WakeUntilMisfit(S, c) ==
  /\ S \subseteq Unready
  /\ \A i \in DOMAIN waiters : waiters[i] \in Unready =>
       (waiters[i] \in S <=> Total({waiters[j] : j \in 1..i} \cap Unready) <= c)

(* WakeWaiters with a count of c grants the set S: in queue order, every   *)
(* waiter whose need fits what is left; one that does not is passed over.  *)
WakeWaiters(S, c) ==
  /\ S \subseteq Unready
  /\ S # {} => Total(S) <= c
  /\ \A i \in DOMAIN waiters : waiters[i] \in Unready =>
       (waiters[i] \in S
          <=> Total({waiters[j] : j \in 1..(i - 1)} \cap S) + need[waiters[i]] <= c)

(* Fault: those already granted are answered again. *)
ReleaseEverybody(r) ==
  /\ ready' = [t \in Threads |-> ready[t] \/ t \in Unready]
  /\ result' = [t \in Threads |-> IF t \in Range(waiters) THEN r ELSE result[t]]

(* Every waiter not ready yet is released with r. *)
ReleaseUnready(r) ==
  /\ ready' = [t \in Threads |-> ready[t] \/ t \in Unready]
  /\ result' = [t \in Threads |-> IF t \in Unready THEN r ELSE result[t]]

------------------------------------------------------------------------------
(* Poll, and the part of Wait that does not wait. *)
TakeNow(t, n) ==
  /\ pc[t] = "idle"
  /\ status = "Set"
  /\ count >= n
  /\ count' = count - n
  /\ ledger' = ledger - n
  /\ Reply(t, "Ok")
  /\ UNCHANGED <<fifo, status, Queue, lowered>>

(* Poll, or Wait with a zero timeout, when the count is too small. *)
PollFail(t, n) ==
  /\ pc[t] = "idle"
  /\ status = "Set"
  /\ count < n
  /\ Reply(t, "TimedOut")
  /\ UNCHANGED <<fifo, count, status, Queue, ledger, lowered>>

(* Any call while the destructor waits for the queue to empty. *)
CallOnDeleted(t) ==
  /\ pc[t] = "idle"
  /\ status = "Deleted"
  /\ Reply(t, "Deleted")
  /\ UNCHANGED <<fifo, count, status, Queue, ledger, lowered>>

(* Wait joins the queue and sleeps. *)
WaitBlock(t, n, tm) ==
  /\ pc[t] = "idle"
  /\ status = "Set"
  /\ count < n
  /\ tm => t \in TimedCallers
  /\ AddWaiter(t)
  /\ arrivals' = Append(arrivals, t)
  /\ need' = [need EXCEPT ![t] = n]
  /\ ready' = [ready EXCEPT ![t] = FALSE]
  /\ Reply(t, "TimedOut")
  /\ timed' = [timed EXCEPT ![t] = tm]
  /\ pc' = [pc EXCEPT ![t] = "asleep"]
  /\ UNCHANGED <<fifo, count, status, expired, ledger, lowered>>

(* The deadline of a timed wait passes. *)
DeadlinePasses(t) ==
  /\ timed[t] /\ ~expired[t]
  /\ expired' = [expired EXCEPT ![t] = TRUE]
  /\ UNCHANGED <<fifo, count, status, waiters, need, ready, result, pc, timed,
                 arrivals, ledger, lowered>>

(* The sleep ends by itself: the 10 ms of CondVar::Wait, after which guest *)
(* signals are dispatched without the mutex, or the time of WaitFor.       *)
SleepEnds(t) ==
  /\ pc[t] = "asleep"
  /\ pc' = [pc EXCEPT ![t] = "awake"]
  /\ UNCHANGED <<fifo, count, status, waiters, need, ready, result, timed, expired,
                 arrivals, ledger, lowered>>

(* An awake waiter has the mutex again: readiness counts before lateness.  *)
WaitReturn(t) ==
  /\ pc[t] = "awake"
  /\ ready[t]
  /\ RemoveWaiter(t)
  /\ ledger' = IF result[t] = "Ok" THEN ledger - need[t] ELSE ledger
  /\ pc' = [pc EXCEPT ![t] = "idle"]
  /\ UNCHANGED <<fifo, count, status, result, lowered>>

(* Fault: lateness counts before readiness. *)
WaitTimeoutFirst(t) ==
  /\ pc[t] = "awake"
  /\ expired[t]
  /\ RemoveWaiter(t)
  /\ Reply(t, "TimedOut")
  /\ pc' = [pc EXCEPT ![t] = "idle"]
  /\ UNCHANGED <<fifo, count, status, ledger, lowered>>

WaitTimeout(t) ==
  /\ pc[t] = "awake"
  /\ ~ready[t]
  /\ expired[t]
  /\ RemoveWaiter(t)
  /\ Reply(t, "TimedOut")
  /\ pc' = [pc EXCEPT ![t] = "idle"]
  /\ UNCHANGED <<fifo, count, status, ledger, lowered>>

WaitAgain(t) ==
  /\ pc[t] = "awake"
  /\ ~ready[t]
  /\ ~expired[t]
  /\ pc' = [pc EXCEPT ![t] = "asleep"]
  /\ UNCHANGED <<fifo, count, status, waiters, need, ready, result, timed, expired,
                 arrivals, ledger, lowered>>

(* The int sum that Signal makes of m_count and its argument. *)
Wrap(x) == IF x > IntMax THEN x - 2 * (IntMax + 1)
           ELSE IF x < -IntMax - 1 THEN x + 2 * (IntMax + 1) ELSE x
Sum(n) == Wrap(count + n)

(* Fault: the maximum holds for what is added, not for the sum. *)
FitsAlone(n) == n <= MaxCount

Fits(n) == Sum(n) <= MaxCount

(* Signal: one notification if it granted one waiter, all if several.  The *)
(* guest reckons with the sum as the int holds it.                         *)
Signal(t, n) == \E S \in SUBSET Unready :
  /\ pc[t] = "idle"
  /\ status = "Set"
  /\ Fits(n)
  /\ WakeWaiters(S, Sum(n))
  /\ count' = Sum(n) - Total(S)
  /\ ledger' = ledger - count + Sum(n)
  /\ lowered' = (lowered \/ n < 0 \/ Sum(n) # count + n)
  /\ ready' = [s \in Threads |-> ready[s] \/ s \in S]
  /\ result' = [s \in Threads |-> IF s \in S \cup {t} THEN "Ok" ELSE result[s]]
  /\ \E W \in (IF S = {} THEN {{}}
               ELSE IF Cardinality(S) = 1 THEN SignalOne ELSE SignalAll) :
       pc' = WakeUp(W)
  /\ UNCHANGED <<fifo, status, waiters, need, timed, expired, arrivals>>

(* Signal beyond the maximum. *)
SignalRefused(t, n) ==
  /\ pc[t] = "idle"
  /\ status = "Set"
  /\ ~Fits(n)
  /\ Reply(t, "InvalCount")
  /\ UNCHANGED <<fifo, count, status, Queue, ledger, lowered>>

(* A need outside 1..MaxCount, or Cancel to more than MaxCount: refused    *)
(* before the status is looked at.                                         *)
RefuseCount(t) ==
  /\ pc[t] = "idle"
  /\ status # "Freed"
  /\ Reply(t, "InvalCount")
  /\ UNCHANGED <<fifo, count, status, Queue, ledger, lowered>>

(* Cancel: the count is set (a negative argument restores the initial      *)
(* one) and every waiter not granted yet is turned away.  The guest's      *)
(* ledger restarts from the new count and the grants still on their way.   *)
Cancel(t, n) ==
  /\ pc[t] = "idle"
  /\ status = "Set"
  /\ n <= MaxCount
  /\ count' = IF n < 0 THEN InitCount ELSE n
  /\ ledger' = ledger - count + count'
  /\ lowered' = FALSE
  /\ ready' = [s \in Threads |-> ready[s] \/ s \in Unready]
  /\ result' = [s \in Threads |-> CASE s \in Unready -> "Canceled"
                                    [] s = t -> "Ok"
                                    [] OTHER -> result[s]]
  /\ \E W \in SignalAll : pc' = WakeUp(W)
  /\ UNCHANGED <<fifo, status, waiters, need, timed, expired, arrivals>>

(* Fault: the destructor leaves the waiters unanswered. *)
DeleteStartSilently(t) ==
  /\ pc[t] = "idle"
  /\ t \in Deleter
  /\ status = "Set"
  /\ status' = "Deleted"
  /\ \E W \in SignalAll : pc' = [WakeUp(W) EXCEPT ![t] = "deleting"]
  /\ UNCHANGED <<fifo, count, waiters, need, ready, result, timed, expired, arrivals,
                 ledger, lowered>>

(* The destructor turns everybody away ... *)
DeleteStart(t) ==
  /\ pc[t] = "idle"
  /\ t \in Deleter
  /\ status = "Set"
  /\ status' = "Deleted"
  /\ ReleaseUnready("Deleted")
  /\ \E W \in SignalAll : pc' = [WakeUp(W) EXCEPT ![t] = "deleting"]
  /\ UNCHANGED <<fifo, count, waiters, need, timed, expired, arrivals, ledger, lowered>>

(* ... and polls until the queue is empty before the memory goes. *)
DeleteFinish(t) ==
  /\ pc[t] = "deleting"
  /\ waiters = <<>>
  /\ status' = "Freed"
  /\ pc' = [pc EXCEPT ![t] = "idle"]
  /\ UNCHANGED <<fifo, count, waiters, need, ready, result, timed, expired,
                 arrivals, ledger, lowered>>

------------------------------------------------------------------------------
Needs == 1..MaxCount

Wait(t) ==
  \/ \E n \in Needs, tm \in BOOLEAN : WaitBlock(t, n, tm)
  \/ WaitReturn(t) \/ WaitTimeout(t) \/ WaitAgain(t)

Next ==
  \E t \in Threads :
    \/ \E n \in Needs : TakeNow(t, n) \/ PollFail(t, n)
    \/ CallOnDeleted(t)
    \/ Wait(t) \/ DeadlinePasses(t) \/ SleepEnds(t)
    \/ \E n \in SignalCounts : Signal(t, n) \/ SignalRefused(t, n)
    \/ \E n \in CancelCounts : Cancel(t, n)
    \/ RefuseCount(t)
    \/ DeleteStart(t) \/ DeleteFinish(t)

Spec == Init /\ [][Next]_vars

(* Waiters and the deleter keep running, sleeps end, time passes; nothing  *)
(* is assumed about who is signalled.                                      *)
Fairness ==
  \A t \in Threads :
    /\ WF_vars(WaitReturn(t) \/ WaitTimeout(t) \/ WaitAgain(t))
    /\ WF_vars(SleepEnds(t))
    /\ WF_vars(DeadlinePasses(t))
    /\ WF_vars(DeleteFinish(t))

FairSpec == Spec /\ Fairness

------------------------------------------------------------------------------
(* Properties *)

(* Types; nobody is queued twice; and whatever int Signal is called with,  *)
(* m_count stays an int up to its maximum, and is below 0 only when a      *)
(* Signal since the last Cancel had a negative argument or a sum that no   *)
(* int can hold.                                                           *)
TypeOK ==
  /\ count \in Ints /\ count <= MaxCount
  /\ lowered \in BOOLEAN /\ (~lowered => count >= 0)
  /\ fifo \in BOOLEAN
  /\ status \in {"Set", "Deleted", "Freed"}
  /\ waiters \in Seq(Threads)
  /\ IsInjective(waiters)
  /\ need \in [Threads -> 0..MaxCount]
  /\ ready \in [Threads -> BOOLEAN]
  /\ result \in [Threads -> Results]
  /\ pc \in [Threads -> {"idle", "asleep", "awake", "deleting"}]
  /\ timed \in [Threads -> BOOLEAN]
  /\ expired \in [Threads -> BOOLEAN]
  /\ arrivals \in Seq(Threads) /\ IsInjective(arrivals)
  /\ Range(arrivals) = Range(waiters)
  /\ ledger \in Int

(* No waiter is left waiting for a count that is there: whatever barging,  *)
(* timeouts and cancellations happened, a waiter not granted yet needs     *)
(* more than m_count holds.                                                *)
NoGrantableWaiter ==
  status = "Set" => \A t \in Unready : need[t] > count

(* Tokens are neither lost nor made: m_count and the grants still on their *)
(* way add up to what the guest can reckon from its own calls, so a grant  *)
(* is never dropped by a deadline and never given twice.                   *)
TokensConserved ==
  count + Total(Granted) = ledger

(* s was entitled to be served before t. *)
Position(s) == CHOOSE i \in DOMAIN arrivals : arrivals[i] = s
Before(s, t) ==
  \/ Position(s) < Position(t) /\ (fifo \/ Priority[s] <= Priority[t])
  \/ ~fifo /\ Priority[s] < Priority[t]

(* A waiter is overtaken only by one that asked for less: by order of      *)
(* arrival in a FIFO semaphore, by priority and then arrival otherwise.    *)
NoOvertaking ==
  [][\A s, t \in Unready :
       s # t /\ Before(s, t) /\ t \in Granted' /\ s \in Unready'
         => need[s] > need[t]]_vars

(* A waiter that was granted, cancelled or turned away comes back, and the *)
(* destructor, which polls for the queue to empty, comes to its end.       *)
EveryoneLeaves ==
  /\ \A t \in Threads : ready[t] ~> ~ready[t]
  /\ status = "Deleted" ~> status = "Freed"

(* What the threads know of their calls: a waiter not ready yet has no     *)
(* answer, although its result says TimedOut in advance.                   *)
Answered == [t \in Threads |-> IF t \in Unready THEN "Pending" ELSE result[t]]

Abstract ==
  INSTANCE AbstractSema WITH tokens <- count, asked <- need, answer <- Answered

(* The code implements the abstract semaphore: queue, notifications and    *)
(* poll are invisible, tokens change hands in the step of the Signal that  *)
(* brings them, Cancel and the destructor answer whoever has no answer,    *)
(* and no answer given - a grant, above all - is changed by a deadline, a  *)
(* Cancel or the destructor that comes before the waiter returns with it.  *)
ImplementsAbstractSema == Abstract!Spec

(* The waiter that Signal grants is told so by Signal itself. *)
GrantedIsAwake == \A t \in Granted : pc[t] # "asleep"
==============================================================================
