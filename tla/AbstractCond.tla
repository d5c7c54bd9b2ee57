---------------------------- MODULE AbstractCond ----------------------------
(***************************************************************************)
(* What a guest condition variable promises, together with the one mutex   *)
(* its waiters use: a wait gives the mutex up entirely and joins the queue *)
(* in one step, a signal takes the head of the queue, a thread taken off   *)
(* the queue by a signal returns OK and by its deadline ETIMEDOUT, and     *)
(* either way only with the mutex held as deeply as before.  CondVar is    *)
(* shown to implement this specification.                                  *)
(***************************************************************************)
EXTENDS Naturals, Sequences, SequencesExt

CONSTANTS Threads,
          NoThread,    \* "nobody holds the mutex"
          Recursive,   \* is the mutex recursive
          MaxCount     \* bound on its recursion depth

VARIABLES
  holder, depth,   \* the mutex
  queue,           \* the waiting threads, first come first
  back,            \* those that have left the queue and want the mutex
  saved,           \* how deeply each held the mutex when it began to wait
  outcome          \* how each left the queue

vars == <<holder, depth, queue, back, saved, outcome>>

Mutex == INSTANCE AbstractMutex

Out(t) == t \notin Range(queue) \cup back

Init ==
  /\ Mutex!Init
  /\ queue = <<>>
  /\ back = {}
  /\ saved = [t \in Threads |-> 0]
  /\ outcome = [t \in Threads |-> "Ok"]

UseMutex(t) ==
  /\ Out(t)
  /\ Mutex!Acquire(t) \/ Mutex!Reenter(t) \/ Mutex!Leave(t) \/ Mutex!Release(t)
  /\ UNCHANGED <<queue, back, saved, outcome>>

Wait(t) ==
  /\ Out(t)
  /\ holder = t
  /\ holder' = NoThread
  /\ depth' = 0
  /\ saved' = [saved EXCEPT ![t] = depth]
  /\ queue' = Append(queue, t)
  /\ UNCHANGED <<back, outcome>>

(* The threads S leave the queue with outcome r, rest stays. *)
Take(S, rest, r) ==
  /\ queue' = rest
  /\ back' = back \cup S
  /\ outcome' = [t \in Threads |-> IF t \in S THEN r ELSE outcome[t]]
  /\ UNCHANGED <<holder, depth, saved>>

TakeOne(r) == \E i \in DOMAIN queue : Take({queue[i]}, RemoveAt(queue, i), r)

Signal == queue # <<>> /\ Take({Head(queue)}, Tail(queue), "Ok")
SignalTo == TakeOne("Ok")
Broadcast == queue # <<>> /\ Take(Range(queue), <<>>, "Ok")
GiveUp == TakeOne("TimedOut")

(* The wait returns outcome[t]. *)
Resume(t) ==
  /\ t \in back
  /\ holder = NoThread
  /\ holder' = t
  /\ depth' = saved[t]
  /\ back' = back \ {t}
  /\ saved' = [saved EXCEPT ![t] = 0]
  /\ outcome' = [outcome EXCEPT ![t] = "Ok"]
  /\ UNCHANGED queue

Next ==
  \/ \E t \in Threads : UseMutex(t) \/ Wait(t) \/ Resume(t)
  \/ Signal \/ SignalTo \/ Broadcast \/ GiveUp

Spec == Init /\ [][Next]_vars
==============================================================================
