--------------------------- MODULE CommandScheduler ---------------------------
(***************************************************************************)
(* The command scheduler of the host GPU (commandScheduler.cpp) with its   *)
(* timeline semaphore (masterSemaphore.cpp) and its pool of command        *)
(* buffers.  Three actors: the owner (the GPU thread, then the main thread *)
(* that shuts the renderer down), the priority thread, and the device,     *)
(* which finishes the submitted command buffers in order and raises the    *)
(* counter of the timeline semaphore to the tick of each.                  *)
(*                                                                         *)
(* A call of the owner is the sequence of its steps that other actors can  *)
(* interleave with, kept in todo.  The device, std::condition_variable and *)
(* std::jthread are external.                                              *)
(***************************************************************************)
EXTENDS Naturals, Sequences, SequencesExt

CONSTANTS GrowStep,   \* CommandPool::GrowStep
          MaxTick,    \* bound: the ticks the owner submits before shutdown
          MaxOps      \* bound: the operations that are deferred

ASSUME CommandSchedulerAssumption ==
  /\ GrowStep \in Nat \ {0}
  /\ MaxTick \in Nat
  /\ MaxOps \in Nat

VARIABLES
  current,    \* MasterSemaphore::m_current_tick
  known,      \* MasterSemaphore::m_gpu_tick
  counter,    \* the value of the timeline semaphore
  inflight,   \* submitted and unfinished: records of a tick and a buffer
  recording,  \* the pooled buffer of m_command, NoBuffer while it is invalid
  ticks,      \* CommandPool::m_ticks
  hint,       \* CommandPool::m_hint
  ops,        \* history: the tick at which each operation was deferred
  pending,    \* m_pending_operations
  priority,   \* m_priority_operations
  opState,    \* m_operation_state
  stop,       \* the stop token of m_priority_thread
  call,       \* the owner's last call
  todo,       \* the steps of it still to be done
  arg,        \* the tick it waits for
  job,        \* the operation PopPendingOperations has taken
  asleep,     \* is the owner blocked on m_operation_available
  ppc,        \* where the priority thread is
  pjob,       \* its operation; NoOp unless m_priority_active
  ran         \* history: the operations that have run, in order

submission == <<current, counter, inflight, recording, ticks, hint>>
queues == <<ops, pending, priority, opState>>
owner == <<call, todo, arg, job, asleep>>
runner == <<ppc, pjob, stop>>
vars == <<submission, known, queues, owner, runner, ran>>

NoBuffer == 0
NoOp == 0

Init ==
  /\ current = 1 /\ known = 0 /\ counter = 0
  /\ inflight = {}
  /\ recording = NoBuffer
  /\ ticks = <<>> /\ hint = 1
  /\ ops = <<>> /\ pending = <<>> /\ priority = <<>>
  /\ opState = "Open"
  /\ stop = FALSE
  /\ call = "none" /\ todo = <<>> /\ arg = 0 /\ job = NoOp /\ asleep = FALSE
  /\ ppc = "check" /\ pjob = NoOp
  /\ ran = <<>>

Idle == todo = <<>>
At(step) == ~Idle /\ Head(todo) = step /\ ~asleep
Done == todo' = Tail(todo)
Then(steps) == todo' = steps \o Tail(todo)

(* m_operation_mutex: every section under it is one action, except that    *)
(* the priority thread keeps it between finding nothing to do and being    *)
(* asleep; only request_stop and the notifications do without it.          *)
MutexFree == ppc # "blocking"

------------------------------------------------------------------------------
(* The device and the master semaphore *)

(* The device finishes the next submission. *)
GpuFinish ==
  \E next \in inflight :
    /\ \A s \in inflight : next.tick <= s.tick
    /\ counter' = next.tick
    /\ inflight' = inflight \ {next}
    /\ UNCHANGED <<current, recording, ticks, hint, known, queues, owner, runner, ran>>

(* Fault: what is submitted counts as finished. *)
SubmittedTick == current - 1

(* Refresh: m_gpu_tick is raised to the counter, never lowered. *)
Refreshed == IF known < counter THEN counter ELSE known

IsFree(tick) == known >= tick

(* MasterSemaphore::Wait returned: no refresh when the tick was known free.*)
MasterWaited(tick) ==
  /\ IsFree(tick) \/ counter >= tick
  /\ known' = IF IsFree(tick) THEN known ELSE Refreshed

------------------------------------------------------------------------------
(* CommandPool::Commit and the owner's submissions *)

(* Fault: the buffer counts as free once its tick has been submitted. *)
SubmittedBuffers(S, tick) == {i \in S : ticks[i] < current}

(* The buffers among S whose last use is over when the device is at tick. *)
FreeBuffers(S, tick) == {i \in S : tick >= ticks[i]}

(* Three searches (from the hint with the known tick, from it after a      *)
(* refresh, then below it), each for the first free buffer, and growth     *)
(* when all of them fail.                                                  *)
Commit ==
  LET size == Len(ticks)
      stale == FreeBuffers(hint..size, known)
      fresh == FreeBuffers(hint..size, Refreshed)
      below == FreeBuffers(1..(hint - 1), Refreshed)
      usable == CASE stale # {} -> stale
                  [] stale = {} /\ fresh # {} -> fresh
                  [] stale = {} /\ fresh = {} /\ below # {} -> below
                  [] OTHER -> {size + 1}
      pool == IF usable = {size + 1} THEN ticks \o [i \in 1..GrowStep |-> 0] ELSE ticks
  IN  \E found \in usable :
        /\ \A i \in usable : found <= i
        /\ recording' = found
        /\ ticks' = [pool EXCEPT ![found] = current]
        /\ hint' = (found % Len(pool)) + 1
        /\ known' = IF stale # {} THEN known ELSE Refreshed

(* BeginNext. *)
BeginNext ==
  /\ At("begin")
  /\ recording = NoBuffer
  /\ Commit
  /\ Done
  /\ UNCHANGED <<current, counter, inflight, queues, call, arg, job, asleep, runner, ran>>

(* Submit: the buffer goes to the queue with the tick NextTick gives it. *)
Submit ==
  /\ At("submit")
  /\ recording # NoBuffer
  /\ inflight' = inflight \cup {[tick |-> current, buffer |-> recording]}
  /\ current' = current + 1
  /\ recording' = NoBuffer
  /\ Done
  /\ UNCHANGED <<counter, ticks, hint, known, queues, call, arg, job, asleep, runner, ran>>

WaitTick ==
  /\ At("wait")
  /\ MasterWaited(arg)
  /\ Done
  /\ UNCHANGED <<submission, queues, call, arg, job, asleep, runner, ran>>

------------------------------------------------------------------------------
(* PopPendingOperations, WaitPriorityOperations, DrainPriorityOperations *)

PopRefresh ==
  /\ At("refresh")
  /\ known' = Refreshed
  /\ Done
  /\ UNCHANGED <<submission, queues, call, arg, job, asleep, runner, ran>>

(* The front operation is taken only when its tick is known to be over. *)
MayPop == pending # <<>> /\ IsFree(ops[Head(pending)])

Pop ==
  /\ At("pop")
  /\ MutexFree
  /\ IF MayPop
       THEN /\ job' = Head(pending)
            /\ pending' = Tail(pending)
            /\ todo' = <<"waitJob", "run">> \o todo
       ELSE Done /\ UNCHANGED <<job, pending>>
  /\ UNCHANGED <<submission, known, ops, priority, opState, call, arg, asleep, runner, ran>>

(* Fault: the operation the priority thread is busy with is forgotten. *)
NoneQueuedUpTo(tick) == priority = <<>> \/ ops[Head(priority)] > tick

(* No priority operation deferred at tick or before is queued or active. *)
PriorityDoneUpTo(tick) ==
  /\ pjob = NoOp \/ ops[pjob] > tick
  /\ priority = <<>> \/ ops[Head(priority)] > tick

PriorityDrained == priority = <<>> /\ pjob = NoOp

(* A wait of the owner on m_operation_available for condition. *)
AwaitPriority(condition) ==
  /\ MutexFree
  /\ IF condition THEN Done /\ UNCHANGED asleep
                  ELSE asleep' = TRUE /\ UNCHANGED todo
  /\ UNCHANGED <<submission, known, queues, call, arg, job, runner, ran>>

WaitPriorityOperations ==
  \/ At("waitJob") /\ AwaitPriority(PriorityDoneUpTo(ops[job]))
  \/ At("waitPriority") /\ AwaitPriority(PriorityDoneUpTo(arg))

DrainPriorityOperations == At("drain") /\ AwaitPriority(PriorityDrained)

SpuriousWakeup ==
  \/ asleep /\ asleep' = FALSE /\ UNCHANGED <<call, todo, arg, job, runner>>
     /\ UNCHANGED <<submission, known, queues, ran>>
  \/ ppc = "asleep" /\ ppc' = "check" /\ UNCHANGED <<pjob, stop, owner>>
     /\ UNCHANGED <<submission, known, queues, ran>>

(* RunOperation on the owner.  A callback may defer an operation itself    *)
(* (the fault buffer's parser frees buffers): while Open it is queued at   *)
(* the current tick, while Draining it runs at once.                       *)
Run ==
  /\ At("run")
  /\ Done
  /\ job' = NoOp
  /\ \/ ran' = Append(ran, job) /\ UNCHANGED <<ops, pending>>
     \/ /\ Len(ops) < MaxOps
        /\ MutexFree
        /\ ops' = Append(ops, current)
        /\ IF opState = "Open"
             THEN pending' = Append(pending, Len(ops')) /\ ran' = Append(ran, job)
             ELSE ran' = Append(Append(ran, Len(ops')), job) /\ UNCHANGED pending
  /\ UNCHANGED <<submission, known, priority, opState, call, arg, asleep, runner>>

------------------------------------------------------------------------------
(* Deferring *)

MayDefer ==
  /\ Idle
  /\ recording # NoBuffer
  /\ opState = "Open"
  /\ Len(ops) < MaxOps
  /\ MutexFree
  /\ ops' = Append(ops, current)
  /\ UNCHANGED <<submission, known, opState, arg, job, asleep, runner, ran>>

DeferOperation ==
  /\ MayDefer
  /\ pending' = Append(pending, Len(ops'))
  /\ UNCHANGED <<priority, call, todo>>

(* The notification follows the release of the mutex. *)
DeferPriorityOperation ==
  /\ MayDefer
  /\ priority' = Append(priority, Len(ops'))
  /\ call' = "defer"
  /\ todo' = <<"notify">>
  /\ UNCHANGED pending

(* notify_one and notify_all by the owner: the priority thread is the only *)
(* other thread that can be asleep on m_operation_available.               *)
Notify ==
  /\ At("notify")
  /\ ppc' = IF ppc = "asleep" THEN "check" ELSE ppc
  /\ Done
  /\ UNCHANGED <<submission, known, queues, call, arg, job, asleep, pjob, stop, ran>>

------------------------------------------------------------------------------
(* The calls of the owner, between two of which it records commands *)

Start(name, steps, tick) ==
  /\ Idle
  /\ opState = "Open"
  /\ call' = name
  /\ todo' = steps
  /\ arg' = tick
  /\ UNCHANGED <<submission, known, queues, job, asleep, runner, ran>>

Begin == recording = NoBuffer /\ Start("begin", <<"begin">>, 0)

Flush == Start("flush", <<"submit", "begin">>, 0)

FlushAndWait == Start("flushAndWait", <<"submit", "wait", "begin">>, current)

FinishSteps == <<"submit", "wait", "begin", "refresh", "pop">>

Finish == Start("finish", FinishSteps, current)

Wait(tick) ==
  IF tick = current
    THEN Start("waitCurrent", <<"submit", "wait", "begin">>, tick)
    ELSE Start("waitTick", <<"wait">>, tick)

PopPendingOperations == Start("pop", <<"refresh", "pop">>, 0)

(* Fault: the priority operations of the tick are not waited for. *)
FinishOnly == Start("unmap", FinishSteps, current)

(* Finish, then WaitPriorityOperations for the tick that was current: what *)
(* UnmapMemory and DownloadBufferMemory do before they touch guest memory. *)
FinishAndWaitPriority ==
  Start("unmap", Append(FinishSteps, "waitPriority"), current)

(* RenderContext::ShutdownGpu: Finish, then DrainPriorityOperations. *)
ShutdownGpu == Start("shutdownGpu", Append(FinishSteps, "drain"), current)

Request ==
  \/ Begin
  \/ DeferOperation \/ DeferPriorityOperation
  \/ recording # NoBuffer /\ PopPendingOperations
  \/ recording # NoBuffer /\ \E tick \in 1..(current - 1) : Wait(tick)
  \/ /\ recording # NoBuffer
     /\ current <= MaxTick
     /\ \/ Flush \/ FlushAndWait \/ Finish \/ Wait(current)
        \/ FinishAndWaitPriority \/ ShutdownGpu

------------------------------------------------------------------------------
(* Shutdown *)

Shutdown ==
  /\ Idle
  /\ opState = "Open"
  /\ MutexFree
  /\ opState' = "Draining"
  /\ call' = "shutdown"
  /\ todo' = (IF recording # NoBuffer THEN <<"submit">> ELSE <<>>)
              \o <<"wait", "refresh", "pop", "drain",
                   "requestStop", "notify", "join", "close">>
  /\ arg' = IF recording # NoBuffer THEN current ELSE current - 1
  /\ UNCHANGED <<submission, known, ops, pending, priority, job, asleep, runner, ran>>

(* request_stop takes no lock; the notification after it is notify_all.    *)
RequestStop ==
  /\ At("requestStop")
  /\ stop' = TRUE
  /\ Done
  /\ UNCHANGED <<submission, known, queues, call, arg, job, asleep, ppc, pjob, ran>>

Join ==
  /\ At("join")
  /\ ppc = "gone"
  /\ Done
  /\ UNCHANGED <<submission, known, queues, call, arg, job, asleep, runner, ran>>

Close ==
  /\ At("close")
  /\ opState' = "Closed"
  /\ Done
  /\ UNCHANGED <<submission, known, ops, pending, priority, call, arg, job, asleep,
                 runner, ran>>

------------------------------------------------------------------------------
(* PriorityOperationsThread *)

(* The head of the loop and the predicate of the wait, under the mutex. *)
PriorityCheck ==
  /\ ppc = "check"
  /\ IF stop
       THEN ppc' = "gone" /\ UNCHANGED <<priority, pjob>>
       ELSE IF priority # <<>>
              THEN /\ pjob' = Head(priority)
                   /\ priority' = Tail(priority)
                   /\ ppc' = "device"
              ELSE ppc' = "blocking" /\ UNCHANGED <<priority, pjob>>
  /\ UNCHANGED <<submission, known, ops, pending, opState, owner, stop, ran>>

PriorityBlock ==
  /\ ppc = "blocking"
  /\ ppc' = "asleep"
  /\ UNCHANGED <<submission, known, queues, owner, pjob, stop, ran>>

PriorityWaitDevice ==
  /\ ppc = "device"
  /\ MasterWaited(ops[pjob])
  /\ ppc' = "run"
  /\ UNCHANGED <<submission, queues, owner, pjob, stop, ran>>

PriorityRun ==
  /\ ppc = "run"
  /\ ran' = IF stop THEN ran ELSE Append(ran, pjob)
  /\ ppc' = "clear"
  /\ UNCHANGED <<submission, known, queues, owner, pjob, stop>>

PriorityClear ==
  /\ ppc = "clear"
  /\ pjob' = NoOp
  /\ ppc' = "notify"
  /\ UNCHANGED <<submission, known, queues, owner, stop, ran>>

(* Fault: the owner waiting for the operation is not told. *)
PriorityNotifyNobody ==
  /\ ppc = "notify"
  /\ ppc' = "check"
  /\ UNCHANGED <<submission, known, queues, owner, pjob, stop, ran>>

PriorityNotify ==
  /\ ppc = "notify"
  /\ asleep' = FALSE
  /\ ppc' = "check"
  /\ UNCHANGED <<submission, known, queues, call, todo, arg, job, pjob, stop, ran>>

------------------------------------------------------------------------------
OwnerStep ==
  \/ BeginNext \/ Submit \/ WaitTick
  \/ PopRefresh \/ Pop \/ WaitPriorityOperations \/ DrainPriorityOperations
  \/ Run \/ Notify \/ RequestStop \/ Join \/ Close

PriorityStep ==
  \/ PriorityCheck \/ PriorityBlock \/ PriorityWaitDevice
  \/ PriorityRun \/ PriorityClear \/ PriorityNotify

Next ==
  \/ Request \/ Shutdown \/ OwnerStep \/ PriorityStep
  \/ GpuFinish \/ SpuriousWakeup

Spec == Init /\ [][Next]_vars

(* The host runs both threads, the owner gets a mutex that is free again   *)
(* and again (the priority thread takes it at every spurious wake-up), and *)
(* the device finishes what it is given.  The owner need not call anything *)
(* and nothing is assumed of spurious wake-ups.                            *)
Fairness == SF_vars(OwnerStep) /\ WF_vars(PriorityStep) /\ WF_vars(GpuFinish)

FairSpec == Spec /\ Fairness

------------------------------------------------------------------------------
(* Properties *)

(* The operation the priority thread has taken and not run. *)
Busy == IF ppc \in {"device", "run"} THEN {pjob} ELSE {}

(* Every operation deferred is in one place exactly. *)
Seated ==
  LET places == <<Range(pending), Range(priority), Range(ran), {job} \ {NoOp}, Busy>>
  IN  /\ UNION Range(places) = DOMAIN ops
      /\ \A a, b \in DOMAIN places : a # b => places[a] \cap places[b] = {}
      /\ IsInjective(pending) /\ IsInjective(priority) /\ IsInjective(ran)

(* Every variable keeps its type, and every operation deferred is queued   *)
(* once, taken by one thread, or was run once: none is lost and none can   *)
(* run twice.                                                              *)
TypeOK ==
  /\ current \in Nat /\ known \in Nat /\ counter \in Nat
  /\ known <= counter /\ counter < current
  /\ inflight \subseteq [tick : (counter + 1)..(current - 1), buffer : DOMAIN ticks]
  /\ recording \in DOMAIN ticks \cup {NoBuffer}
  /\ ticks \in Seq(0..current)
  /\ hint \in 1..(Len(ticks) + 1)
  /\ ops \in Seq(1..current)
  /\ opState \in {"Open", "Draining", "Closed"}
  /\ stop \in BOOLEAN /\ asleep \in BOOLEAN
  /\ arg \in 0..current
  /\ ppc \in {"check", "blocking", "asleep", "device", "run", "clear", "notify", "gone"}
  /\ Seated

(* Work of the owner recorded at tick or before that the device may still  *)
(* have to do.                                                             *)
Unfinished(tick) ==
  {s \in inflight : s.tick <= tick} # {} \/ (recording # NoBuffer /\ current <= tick)

(* The priority operations that have not run yet. *)
PriorityLeft == Range(priority) \cup Busy

RanNow == {ran'[i] : i \in (Len(ran) + 1)..Len(ran')}

(* A callback runs only when the device has finished everything recorded   *)
(* up to the tick it was deferred at (buffers are not freed and downloads  *)
(* not read while the device works on them), and one from the pending      *)
(* queue only after every priority operation of its tick or before.        *)
RunsInTurn ==
  [][\A op \in RanNow :
       /\ ~Unfinished(ops'[op])
       /\ op # pjob /\ op \in DOMAIN ops
            => \A p \in PriorityLeft : ops[p] > ops[op]]_vars

(* The command buffer being recorded is never one the device may still     *)
(* execute, and no buffer is submitted a second time before it is done.    *)
BufferNotInFlight ==
  /\ \A s \in inflight : s.buffer # recording
  /\ \A r, s \in inflight : r.buffer = s.buffer => r = s

(* When UnmapMemory or DownloadBufferMemory has drained the device, every  *)
(* operation deferred before the drain has run, on either thread; and when *)
(* Shutdown stops the priority thread, every operation there is has run,   *)
(* those deferred while it drained included.                               *)
NothingLeftBehind ==
  [][/\ (call = "unmap" /\ ~Idle /\ todo' = <<>>)
          => \A op \in DOMAIN ops : ops[op] <= arg => op \in Range(ran')
     /\ stop' => Range(ran') = DOMAIN ops']_vars

(* Every call but Shutdown returns: nobody sleeps on a queue that is empty *)
(* and the priority thread does not sleep on one that is not.              *)
CallsReturn == ~Idle /\ call # "shutdown" ~> Idle

(* "The owning thread will finish shutdown": once it has begun, it ends.   *)
ShutdownFinishes == opState = "Draining" ~> opState = "Closed"
==============================================================================
