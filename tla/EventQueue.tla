------------------------------ MODULE EventQueue ------------------------------
(***************************************************************************)
(* One guest event queue of src/src/kernel/eventQueue.cpp, from its        *)
(* creation to the destructor.                                             *)
(*                                                                         *)
(* A call first pins the queue: under the lock of the handle table it      *)
(* copies a shared_ptr (KernelPinEqueue).  Then it works on the queue      *)
(* under m_mutex.  The two are separate steps, and a delete, which takes   *)
(* the handle away first and closes the queue later, may come between.     *)
(* A call on a handle that is gone returns EBADF and has no action.        *)
(*                                                                         *)
(* The events of a queue differ in what a trigger and a delivery do:       *)
(*   "level"  AddUserEvent: a trigger sets it, nothing resets it           *)
(*   "edge"   AddUserEventEdge: a trigger sets it, a delivery resets it    *)
(*   "queued" AMPR, video-out and graphics events: triggers add up; those  *)
(*            of the video-out port have a delete callback                 *)
(*   "timer"  AddHRTimerEvent: triggered by time, delivered once           *)
(* The data carried by an event is left out.  The host condition variable  *)
(* is external; a sleeper may return by itself.                            *)
(***************************************************************************)
EXTENDS Integers, Sequences, SequencesExt, FiniteSets

CONSTANTS Waiters, Callers,  \* threads that wait, threads that make the other calls
          Keys,          \* the (ident, filter) pairs in use
          Kind,          \* what each of them is
          Nums,          \* capacities of the guest's event arrays
          MaxQueued,     \* bound: triggers a "queued" event holds
          MaxPresent     \* bound: events the guest keeps in the queue

Threads == Waiters \cup Callers

Kinds == {"level", "edge", "queued", "timer"}

ASSUME EventQueueAssumption ==
  /\ Kind \in [Keys -> Kinds]
  /\ Nums \subseteq Nat \ {0}
  /\ MaxQueued \in Nat \ {0}
  /\ MaxPresent \in Nat \ {0}

VARIABLES
  registered,  \* is the handle in g_equeues
  closed,      \* m_closed
  freed,       \* has the destructor run
  events,      \* m_events: the keys, in the order they were added
  n,           \* triggers of an event not delivered yet (triggered, pending_events)
  due,         \* deadline_ns of a timer: "none", "running" or "expired"
  pc,          \* "idle", "pinned", "asleep", "awake" or "closing"
  call,        \* the call in progress
  late,        \* has the deadline of the wait passed
  owed,        \* history: triggers accepted and not yet delivered or discarded
  attached,    \* history: "queued" events added, minus their delete callbacks
  leftover     \* history: since the last trigger, a call filled its array and
               \* left events behind

vars == <<registered, closed, freed, events, n, due, pc, call, late, owed,
          attached, leftover>>

NoCall == [op |-> "none"]

CallsOf(t) ==
  (IF t \in Callers
     THEN [op : {"add", "remove"}, key : Keys]
            \cup [op : {"trigger"}, key : {k \in Keys : Kind[k] # "timer"}]
     ELSE {})
    \cup (IF t \in Waiters
            THEN [op : {"wait"}, num : Nums, timeout : {"none", "some", "zero"}]
            ELSE {})

Init ==
  /\ registered = TRUE
  /\ closed = FALSE
  /\ freed = FALSE
  /\ events = <<>>
  /\ n = [k \in Keys |-> 0]
  /\ due = [k \in Keys |-> "none"]
  /\ pc = [t \in Threads |-> "idle"]
  /\ call = [t \in Threads |-> NoCall]
  /\ late = [t \in Threads |-> FALSE]
  /\ owed = [k \in Keys |-> 0]
  /\ attached = [k \in Keys |-> 0]
  /\ leftover = FALSE

------------------------------------------------------------------------------
Present == Range(events)
Sleepers == {t \in Threads : pc[t] = "asleep"}

(* The list s without the keys K. *)
Without(s, K) ==
  LET kept[i \in 0..Len(s)] ==
        IF i = 0 THEN <<>>
        ELSE IF s[i] \in K THEN kept[i - 1] ELSE Append(kept[i - 1], s[i])
  IN  kept[Len(s)]

(* m_cond_var.Signal and SignalAll: the threads that may be released. *)
SignalOne == IF Sleepers = {} THEN {{}} ELSE {{s} : s \in Sleepers}
SignalAll == {Sleepers}

(* t's call is over, and the threads W are released. *)
Done(t, W) ==
  /\ pc' = [s \in Threads |-> IF s = t THEN "idle"
                              ELSE IF s \in W THEN "awake" ELSE pc[s]]
  /\ call' = [call EXCEPT ![t] = NoCall]
  /\ late' = [late EXCEPT ![t] = FALSE]

Doing(t, op) == pc[t] = "pinned" /\ call[t].op = op

(* KernelPinEqueue at the start of a call. *)
Pin(t, c) ==
  /\ registered
  /\ pc[t] = "idle"
  /\ pc' = [pc EXCEPT ![t] = "pinned"]
  /\ call' = [call EXCEPT ![t] = c]
  /\ UNCHANGED <<registered, closed, freed, events, n, due, late, owed, attached, leftover>>

(* A call that finds the queue closed, or no such event. *)
Refused(t) ==
  /\ pc[t] = "pinned"
  /\ call[t].op # "wait"
  /\ closed \/ (call[t].op # "add" /\ call[t].key \notin Present)
  /\ Done(t, {})
  /\ UNCHANGED <<registered, closed, freed, events, n, due, owed, attached, leftover>>

(* Fault: an event is added to a queue that was closed meanwhile. *)
OpenUnchecked == TRUE

Open == ~closed

(* Fault: nobody looks whether the event is there already. *)
AddedTwice(k) == Append(events, k)

(* The list after KernelAddEvent of k. *)
Added(k) == IF k \in Present THEN events ELSE Append(events, k)

(* AddEvent: a new event goes last; adding it again only moves a deadline. *)
AddEvent(t) ==
  /\ Doing(t, "add")
  /\ Open
  /\ LET k == call[t].key IN
     /\ due' = [due EXCEPT ![k] = IF Kind[k] = "timer" THEN "running" ELSE "none"]
     /\ events' = Added(k)
     /\ Len(events') <= MaxPresent
     /\ attached' = [attached EXCEPT ![k] = IF Kind[k] = "queued"
                                              THEN @ + Len(events') - Len(events) ELSE @]
  /\ \E W \in SignalOne : Done(t, W)
  /\ UNCHANGED <<registered, closed, freed, n, owed, leftover>>

(* How many triggers are there after one more. *)
Triggered(k) == IF Kind[k] = "queued" THEN n[k] + 1 ELSE 1

(* Fault: a trigger does not notify the waiters. *)
TellsNobody == {{}}

TriggerTells == SignalOne

TriggerEvent(t) ==
  /\ Doing(t, "trigger")
  /\ Open
  /\ LET k == call[t].key IN
     /\ k \in Present
     /\ Kind[k] = "queued" => n[k] < MaxQueued
     /\ n' = [n EXCEPT ![k] = Triggered(k)]
     /\ owed' = [owed EXCEPT ![k] = IF Kind[k] = "queued" THEN @ + 1 ELSE 1]
  /\ \E W \in TriggerTells : Done(t, W)
  /\ leftover' = FALSE
  /\ UNCHANGED <<registered, closed, freed, events, due, attached>>

(* The events K go, with whatever was not delivered. *)
Forget(K) ==
  /\ n' = [k \in Keys |-> IF k \in K THEN 0 ELSE n[k]]
  /\ owed' = [k \in Keys |-> IF k \in K THEN 0 ELSE owed[k]]
  /\ due' = [k \in Keys |-> IF k \in K THEN "none" ELSE due[k]]

(* attached once the delete callbacks of the events K have run. *)
CalledBack(K) ==
  [k \in Keys |-> IF k \in K /\ Kind[k] = "queued" THEN attached[k] - 1 ELSE attached[k]]

(* DeleteEvent: the delete callback, then the event. *)
DeleteEvent(t) ==
  /\ Doing(t, "remove")
  /\ Open
  /\ LET k == call[t].key IN
     /\ k \in Present
     /\ events' = Without(events, {k})
     /\ attached' = CalledBack({k})
     /\ Forget({k})
  /\ Done(t, {})
  /\ UNCHANGED <<registered, closed, freed, leftover>>

------------------------------------------------------------------------------
(* GetTriggeredEventsLocked *)

TimerExpires(k) ==
  /\ due[k] = "running"
  /\ due' = [due EXCEPT ![k] = "expired"]
  /\ UNCHANGED <<registered, closed, freed, events, n, pc, call, late, owed, attached, leftover>>

(* What an event has to offer once expired timers are triggered. *)
Offer(k) == IF due[k] = "expired" THEN 1 ELSE n[k]

Smaller(a, b) == IF a < b THEN a ELSE b

(* How many times event k is delivered into an array with room for r; a    *)
(* level event, which nothing resets, fills all the room there is.         *)
Given(k, r) == IF Offer(k) > 0 /\ Kind[k] = "level" THEN r ELSE Smaller(Offer(k), r)

(* The loop over the queue into an array of num events: room[i] is what    *)
(* the first i of them leave of it.                                        *)
Loop(room, num) ==
  /\ room[0] = num
  /\ \A i \in DOMAIN events : room[i] = room[i - 1] - Given(events[i], room[i - 1])

Place(k) == CHOOSE i \in DOMAIN events : events[i] = k
Delivered(room, k) == room[Place(k) - 1] - room[Place(k)]

(* Fault: a delivery resets the event with all that is pending. *)
RemainsNothing(k, d) == IF Kind[k] = "level" \/ d = 0 THEN Offer(k) ELSE 0

(* What is left of event k when d of it were delivered. *)
Remains(k, d) == IF Kind[k] = "level" THEN Offer(k) ELSE Offer(k) - d

Deliver(room) ==
  LET gone == {k \in Present : Kind[k] = "timer" /\ Delivered(room, k) > 0} IN
  /\ events' = Without(events, gone)
  /\ n' = [k \in Keys |-> IF k \in Present THEN Remains(k, Delivered(room, k)) ELSE 0]
  /\ owed' = [k \in Keys |->
                CASE k \in gone \/ k \notin Present -> 0
                  [] k \in Present \ gone /\ Kind[k] = "level" -> owed[k]
                  [] k \in Present \ gone /\ Kind[k] = "timer" -> Offer(k)
                  [] OTHER -> owed[k] - Delivered(room, k)]
  /\ due' = [k \in Keys |-> IF k \in gone THEN "none" ELSE due[k]]
  /\ leftover' = (room[Len(events)] = 0 /\ \E k \in Present : n'[k] > 0)

Waiting(t) == Doing(t, "wait") \/ pc[t] = "awake"

(* A pass of the wait over a closed queue: EBADF. *)
WaitClosed(t) ==
  /\ Waiting(t)
  /\ closed
  /\ Done(t, {})
  /\ UNCHANGED <<registered, closed, freed, events, n, due, owed, attached, leftover>>

WaitDeliver(t) ==
  /\ Waiting(t)
  /\ ~closed
  /\ \E k \in Present : Offer(k) > 0
  /\ \E room \in [0..Len(events) -> 0..call[t].num] :
       Loop(room, call[t].num) /\ Deliver(room)
  /\ Done(t, {})
  /\ UNCHANGED <<registered, closed, freed, attached>>

NothingThere == \A k \in Present : Offer(k) = 0
TooLate(t) == call[t].timeout = "zero" \/ late[t]

WaitTimeout(t) ==
  /\ Waiting(t)
  /\ ~closed /\ NothingThere
  /\ TooLate(t)
  /\ Done(t, {})
  /\ UNCHANGED <<registered, closed, freed, events, n, due, owed, attached, leftover>>

WaitSleep(t) ==
  /\ Waiting(t)
  /\ ~closed /\ NothingThere
  /\ ~TooLate(t)
  /\ pc' = [pc EXCEPT ![t] = "asleep"]
  /\ UNCHANGED <<registered, closed, freed, events, n, due, call, late, owed, attached, leftover>>

(* The sleep ends by itself: WaitFor, the 10 ms of Wait, or spuriously. *)
SleepEnds(t) ==
  /\ pc[t] = "asleep"
  /\ pc' = [pc EXCEPT ![t] = "awake"]
  /\ UNCHANGED <<registered, closed, freed, events, n, due, call, late, owed, attached, leftover>>

DeadlinePasses(t) ==
  /\ pc[t] \in {"asleep", "awake"}
  /\ call[t].timeout = "some"
  /\ ~late[t]
  /\ late' = [late EXCEPT ![t] = TRUE]
  /\ UNCHANGED <<registered, closed, freed, events, n, due, pc, call, owed, attached, leftover>>

------------------------------------------------------------------------------
(* Deletion *)

(* KernelDeleteEqueue takes the handle away ... *)
Unregister(t) ==
  /\ registered
  /\ pc[t] = "idle"
  /\ registered' = FALSE
  /\ pc' = [pc EXCEPT ![t] = "closing"]
  /\ UNCHANGED <<closed, freed, events, n, due, call, late, owed, attached, leftover>>

(* Close: the delete callbacks run and the events go, once. *)
CloseEvents ==
  IF closed
    THEN UNCHANGED <<closed, events, attached, n, owed, due>>
    ELSE /\ closed' = TRUE
         /\ events' = <<>>
         /\ attached' = CalledBack(Present)
         /\ Forget(Keys)

(* Fault: a close tells one of the sleepers. *)
CloseTells == SignalOne

(* Whom Close releases. *)
CloseReleases == SignalAll

(* ... and closes the queue, whatever is going on in it. *)
Close(t) ==
  /\ pc[t] = "closing"
  /\ CloseEvents
  /\ \E W \in CloseReleases : Done(t, W)
  /\ UNCHANGED <<registered, freed, leftover>>

(* The last reference is gone: the destructor closes the queue again. *)
Destroy ==
  /\ ~registered /\ ~freed
  /\ \A t \in Threads : pc[t] = "idle"
  /\ freed' = TRUE
  /\ CloseEvents
  /\ UNCHANGED <<registered, pc, call, late, leftover>>

------------------------------------------------------------------------------
WaitPass(t) == WaitClosed(t) \/ WaitDeliver(t) \/ WaitTimeout(t) \/ WaitSleep(t)

Next ==
  \/ \E t \in Threads :
       \/ \E c \in CallsOf(t) : Pin(t, c)
       \/ Refused(t) \/ AddEvent(t) \/ TriggerEvent(t) \/ DeleteEvent(t)
       \/ WaitPass(t) \/ SleepEnds(t) \/ DeadlinePasses(t)
       \/ Unregister(t) \/ Close(t)
  \/ \E k \in Keys : TimerExpires(k)
  \/ Destroy

Spec == Init /\ [][Next]_vars

(* Threads run when they can.  Nothing wakes an untimed sleeper but a      *)
(* notification, and nobody need start a call or delete the queue.         *)
Proceed(t) ==
  Refused(t) \/ AddEvent(t) \/ TriggerEvent(t) \/ DeleteEvent(t) \/ WaitPass(t) \/ Close(t)

Fairness == (\A t \in Threads : WF_vars(Proceed(t))) /\ WF_vars(Destroy)

FairSpec == Spec /\ Fairness

------------------------------------------------------------------------------
(* Properties *)

TypeOK ==
  /\ registered \in BOOLEAN /\ closed \in BOOLEAN /\ freed \in BOOLEAN
  /\ events \in Seq(Keys) /\ IsInjective(events)
  /\ n \in [Keys -> 0..MaxQueued]
  /\ due \in [Keys -> {"none", "running", "expired"}]
  /\ pc \in [Threads -> {"idle", "pinned", "asleep", "awake", "closing"}]
  /\ \A t \in Threads : call[t] \in CallsOf(t) \cup {NoCall}
  /\ late \in [Threads -> BOOLEAN]
  /\ owed \in [Keys -> Int] /\ attached \in [Keys -> Int]
  /\ leftover \in BOOLEAN

(* Each trigger a call accepted is delivered once or goes with its event:  *)
(* none is lost to a full array or to a trigger already pending, none is   *)
(* delivered twice.                                                        *)
TriggersAccounted ==
  \A k \in Keys : Kind[k] \in {"edge", "queued"} => n[k] = owed[k]

(* The delete callback of an event runs exactly once, whoever removes it:  *)
(* DeleteEvent, Close or the destructor, in any order with calls that had  *)
(* pinned the queue.  A closed queue stays empty.                          *)
CallbackOnce ==
  /\ \A k \in Keys : attached[k] = (IF k \in Present /\ Kind[k] = "queued" THEN 1 ELSE 0)
  /\ closed => events = <<>>

(* While an event has a trigger to deliver and a thread sleeps, some other *)
(* thread is on its way to fetch it - unless, since the last trigger, one  *)
(* filled its array and left events behind: that notifies nobody.          *)
NoStrandedSleeper ==
  Sleepers # {} /\ (\E k \in Present : Kind[k] # "timer" /\ n[k] > 0) /\ ~leftover
    => \E t \in Threads : Waiting(t)

(* A delete ends every call in the queue, the untimed waits included, and  *)
(* the queue is destroyed.                                                 *)
DeleteEmpties == ~registered ~> freed
==============================================================================
