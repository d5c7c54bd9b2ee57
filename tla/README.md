# A verification project for LinKyty

LinKyty is a Linux-native runtime for PS5 programs (C++20). Guest code runs
natively; the emulator supplies the kernel, the system libraries and the GPU.
Two parts are both decisive for its correctness and hard to test: the **guest
kernel's synchronisation layer**, which every guest thread runs through, and
the places where **guest, GPU, device and present threads meet**: command
buffers in flight, dirty pages, the flip queue. A mistake in either shows as a
hang or a corrupted picture once in a million interleavings. This project
models these two parts.

Contents: [1 the system](#1-the-system) - [2 modules and code](#2-modules-and-code) -
[3 runs](#3-runs) - [4 fairness](#4-fairness) - [5 proofs](#5-proofs) -
[6 what was found](#6-what-was-found) - [7 not modelled](#7-not-modelled) -
[8 plan](#8-plan).

Paths below are relative to `src/src/`. In each directory of this project
`tlc -config X.cfg M` checks a run and `tlapm M.tla` a module of proofs.

## 1 The system

| component | state | operations | interacts with | hard because |
|---|---|---|---|---|
| guest mutex (`kernel/pthread.cpp`) | futex word, owner, recursion count | lock, timed lock, trylock, unlock | Linux futex, condition variables | lock-free word, owner stored apart from it, deadlines racing hand-overs |
| condition variable (`kernel/pthread.cpp`) | queue of waiters under `cond->m`, a sequence number and a host condition variable per thread | wait, timed waits, signal, signalto, broadcast | guest mutex | the guest mutex is released inside the wait; signal against deadline |
| reader-writer lock (`kernel/pthread.cpp`) | writer and depth, reader table (inline slots and overflow), waiting writers | read, write, timed, try, unlock | host mutex and condition variable | writer preference, nested readers, giving up |
| kernel semaphore (`kernel/semaphore.cpp`) | count, status, ordered queue of waiters with their needs | wait, poll, signal, cancel, delete | shared condition variable | grants made on behalf of sleepers, cancellation, deletion with waiters inside |
| event flag (`kernel/eventFlag.cpp`) | bits, status, number of waiters | wait, poll, set, clear, cancel, delete | shared condition variable | loops that release the mutex for 10 us while others come in |
| event queue (`kernel/eventQueue.cpp`) | handle table, ordered events with pending triggers and deadlines, closed flag | add, trigger, delete, wait, poll, close, destroy | GPU interrupts, video output, AMPR, timers | calls that pinned a queue which is then deleted; triggers against full arrays |
| POSIX semaphore (`kernel/semaphore.cpp`) | table of raw pointers, count, waiters | init, wait, post, destroy | signal dispatch | lifetime of the pointer |
| sync on address (`kernel/syncOnAddress.cpp`) | futex | wait 32/64, wake | signal dispatch | 64-bit values on a 32-bit futex |
| threads, keys, once (`kernel/pthread.cpp`) | thread pool, detach and join state, keys and destructors | create, join, detach, exit, once | everything | races of join, detach and exit |
| guest signals (`libs/libKernel.cpp`) | pending mask per thread | raise, dispatch | every wait | a handler may run between any two instructions |
| memory manager (`kernel/memory.cpp`) | mappings, direct memory blocks | map, unmap, protect, query | GPU memory tracking | range arithmetic over a long history |
| flip queue (`graphics/presentation/videoOut.cpp`) and frame pool (`window/swapchain.cpp`) | requests, unprepared CPU flips, cancelled ones, the frame in work; free frames | submit, prepare, complete, cancel, present, recycle | GPU thread, priority thread, present thread | three kinds of producers, two bounded pools, a port closed in the middle |
| video output ports and events (`videoOut.cpp`) | buffers, attributes, event registrations | register, vblank wait, add event | event queue, flip queue | registrations that outlive a port |
| command scheduler and timeline semaphore (`graphics/host_gpu/renderer/`) | ticks, pool of command buffers, pending and priority operations | record, submit, defer, wait, finish, shut down | device, everything that ends GPU work | operations tied to ticks, a helper thread that may be anywhere |
| memory tracker, page watchers and cache coherence (`graphics/host_gpu/`) | dirty bits, watchers, page protection, one buffer's and one image's state | fault, mark, upload, download, collect, refresh | memory manager, device | page faults from any thread, protection that lags the bits |
| GPU interrupts (`renderer/renderContext.cpp`) | registrations of event queues | add, delete, trigger | event queue | stale registrations |
| GPU command processor (`graphics/guest_gpu/`) | rings, PM4 state | decode, wait, write labels | caches, scheduler | order of queues |
| loader, file system, shader recompiler, sixty libraries | | | | mostly sequential, or host I/O |

**How they interact.** A guest call enters a library function on the guest's
own host thread and runs to its end there; there is no scheduler in between,
so interleaving is whatever the host does. Components keep their state under a
`Common::Mutex` (or in one atomic word) and sleep on a `Common::CondVar`, a
`std::condition_variable` or a futex. `Common::CondVar::Wait` sleeps at most
10 ms at a time (`common/threads.cpp:209-228`), since `Initialize` of
`pthread.cpp:853` installs the callback that delivers guest signals.

The GPU side has four threads of its own. The *GPU thread* works off the
guest's command buffers one by one, records and submits Vulkan work through
the scheduler, and prepares every flip; the *priority thread* runs the
operations that must follow the device at once, completions of end-of-pipe
flips among them; the *present thread* shows prepared frames; the *device*
executes submissions in order. Guest threads meet them in three ways: through
the flip queue's mutex, through page faults (a guest access to a protected page
enters the tracker on the guest's own thread and may hand a command to the GPU
thread and wait for it), and through event queues, which interrupts trigger.

**What makes each component correct**

- mutex: one holder; owner and count agree with the locks the guest got; no
  sleeper while the mutex is free and nobody is about to wake it.
- condition variable: release-and-wait is one step for the guest; a signal is
  never spent on a thread that then reports a timeout; the recursion depth
  comes back.
- reader-writer lock: exclusion; the reader table is exact; writers get in.
- semaphore: tokens are conserved; the count is never above its maximum, and
  below 0 only by what the guest signalled; order of service; no wait for a count that
  is there; deletion leaves nobody inside.
- event flag: a cancellation or deletion reaches exactly who was waiting, and
  ends; nobody sleeps past its bits.
- event queue: no trigger lost or delivered twice; delete callbacks once;
  deletion ends every call.
- command scheduler: a command buffer is not recorded again while the device
  may read it; callbacks run after the device and in turn; who waits for
  everything before it finds everything before it done.
- memory tracker: whatever the guest writes reaches the device's copy before
  it is used, whatever the device wrote comes back before the guest reads or
  overwrites it, and page protection never promises more than the bits do.
- flip queue: every flip leaves exactly once, its frame goes back to the pool,
  nothing of a closed port is shown, and nobody waits for a slot for ever.

The hazards of the code, each with the line where it bites and the properties
that would catch it, are listed under `hazards` in `PROJECT.json`.

## 2 Modules and code

| module | models | one action is |
|---|---|---|
| `AbstractMutex` | the promise of a guest mutex | a lock or unlock as the guest sees it |
| `FutexMutex` | `NativeMutexLock*`, `NativeMutexUnlock`, the mutex API | one atomic access to the shared word, or the local work up to the next |
| `AbstractCond` | the promise of a condition variable with its mutex | a guest-visible step |
| `CondVar` | waits, signal, signalto, broadcast; uses `AbstractMutex` for the guest mutex | a stretch of code under `cond->m` |
| `Rwlock` | `RwlockLockCooperative`, reader table, unlock | one pass through the host mutex |
| `AbstractSema` | the promise of a counting semaphore | a call, an answer or a return as the guest sees it |
| `KernelSema` | `KernelSemaPrivate` | an operation under `m_mutex`; a wait is cut where it sleeps |
| `EventQueue` | `KernelEqueuePrivate`, pinning, deletion, destructor | pinning, or an operation under `m_mutex` |
| `EventFlag` | `KernelEventFlagPrivate` | what is done between taking and releasing `m_mutex` |
| `CommandScheduler` | `CommandScheduler`, `CommandPool`, `MasterSemaphore`, the priority thread, unmap and shutdown as its callers | one step of a call that another actor can come in after; a call is the list of its steps |
| `MemoryTracker` | `MemoryTracker`, `RegionManager`, `PageManager`, the fault handler, and what decides coherence in `BufferCache` and `TextureCache` | the work under one region's lock, one protection, one copy |
| `FlipQueue` | `FlipQueue`, opening and closing ports, `FramePool`, the threads around them | a section under `m_mutex` |
| `*Proofs` | | theorems about the module of that name (`GraphicsProofs`: `CommandScheduler` and `FlipQueue`); lemmas on its queues stand at the head |
| `MC*` | | the small instances: names for threads, priorities, kinds of event |

The variables carry the names of the fields where TLA+ allows, and each
module's head says what a step is; `map` in `PROJECT.json` gives the lines of
every definition. Variables marked *history* are not in the code: they record
what the guest was told (locks it holds, triggers accepted, who was waiting
when a cancellation struck), so that properties can compare the code's
bookkeeping with it. Definitions marked *Fault* are in no specification: each
is a plausible bug in the definition that follows it, and shows that the
property which guards against it can fail.

External parts, modelled by their use: the Linux futex (`FUTEX_WAIT` enqueues
only while the word has the expected value, `FUTEX_WAKE` 1 releases any one
sleeper), host mutexes (steps under one do not overlap) and host condition
variables (a notification releases any one sleeper or all; a sleeper may
return by itself), `shared_ptr` (an object is destroyed when the last user has
left).

The device of `CommandScheduler` and `FlipQueue` finishes submissions in order;
in `MemoryTracker` it reads and writes the buffer's copy. Threads stop and
condition variables behave as `std::jthread` and `std::condition_variable` do.
Page protection is the host's: an access it forbids enters the fault handler.

Composition: `CondVar` is built over `AbstractMutex`, and `FutexMutex` is
proved to implement `AbstractMutex`, so that what is checked of waits holds of
the mutex of the code. `CondVar` in turn implements `AbstractCond`, and
`KernelSema` implements `AbstractSema`.
`CommandScheduler` includes its callers' protocol of ending work (unmap drains
the device, then the pending queue), `MemoryTracker` composes five classes with
the fault path through them, and `FlipQueue` the queue, the ports, the pool and
all four kinds of thread, because the hazards lie between them.

## 3 Runs

Every passing run explores its whole state space.

| run | instance | checks |
|---|---|---|
| `mutex` | 3 threads, one with deadlines, recursive, depth 2 | `TypeOK`, `OwnerAgrees`, `ImplementsAbstractMutex`, `NoWaiterLeftBehind` (if no call is timed) |
| `mutex_stranded` | the same, not recursive | *violation* of `NoStrandedSleeper`, see 6 |
| `sema` | 3 threads of 2 priorities, FIFO and priority order, maximum 2, ints to 3, signals of -1, 1 and 3 (a lower count, an ordinary one, a sum that wraps), one timed, cancel, a racing delete | `TypeOK`, `NoGrantableWaiter`, `TokensConserved`, `NoOvertaking`, `ImplementsAbstractSema`, `EveryoneLeaves` |
| `sema_wrong_wake` | 3 threads | *violation* of `GrantedIsAwake`, see 6 |
| `rwlock` | 3 threads, 2 inline slots, 2 nested reads, timed readers and writers | `TypeOK`, `Exclusive`, `BookkeepingExact`; `NoWaiterLeftBehind` and `WritersGetIn` if no writer is timed |
| `cond` | 3 threads, depth 2, timed and untimed waits | `TypeOK`, `WaitersExact`, `ImplementsAbstractCond`, `NobodyKeptIn` |
| `equeue` | 2 waiters, 1 caller, all four kinds of event, 2 present at once, 2 pending triggers, arrays of 2 | `TypeOK`, `TriggersAccounted`, `CallbackOnce`, `NoStrandedSleeper`, `DeleteEmpties` |
| `event_flag` | 3 threads, 2 bits, single and multi-thread flags | `TypeOK`, `NoStrandedSleeper`, `NobodyInFreed`, `StruckReturn`, `AllGetThrough` |
| `scheduler` | 3 submissions, 3 deferred operations, pool grows by 1 | `TypeOK`, `BufferNotInFlight`, `RunsInTurn`, `NothingLeftBehind`, `CallsReturn` |
| `scheduler_shutdown` | 2 submissions, 1 operation | *violation* of `ShutdownFinishes`, see 6 |
| `memory` | 3 pages in 2 regions; 2 guests and the buffer, or 1 guest and an image | `TypeOK`, `NoWriteLost`, `NoStaleImage` |
| `flip_queue` | queue of 2, 2 frames; 2 guests on a port opened again, 3 flips of one guest, 2 ports | `FlipTypeOK`, `FlipsExact`, `FlipCallsReturn` |

What the less obvious properties say:

- `BookkeepingExact` ties the reader table, the writer and the count of waiting
  writers to what the threads hold and wait for on every exit of the wait;
  `TriggersAccounted` ties accepted triggers to delivered, pending and dropped
  ones; `TokensConserved` does so for a semaphore's count.
- `TypeOK` of `KernelSema` holds for every int the guest may hand to `Signal`,
  which refuses no negative count and adds ints that may overflow
  (`semaphore.cpp:149-153`): `m_count` is never above its maximum, and it is
  below 0 only if a `Signal` since the last `Cancel` had a negative count or a
  sum that no int can hold (`lowered`). `NoGrantableWaiter`,
  `TokensConserved` and `NoOvertaking` hold for these counts too.
- `DeleteEmpties`: once a queue is deleted, every call ends and it is destroyed.
- `RunsInTurn`: a callback runs after the device has passed its tick, and one
  of the pending queue after every priority callback of a tick not later than
  its own. `NothingLeftBehind`: when an unmap or a download goes on, whatever
  was deferred before its drain has run, on either thread, and so has everything
  when a shutdown stops the priority thread.
- `TypeOK` of `MemoryTracker` also holds the agreement of bits, watchers and
  protection that every access relies on; `NoWriteLost` says that a page the
  guest wrote since the copy is marked, or the copy is still to come, and that
  nobody reads memory older than what the device wrote; `NoStaleImage` says the
  same of an image, outside the pages named in 6.
- `FlipTypeOK` adds the checks the queue makes of itself, and that
  every frame is free or in use once and every unfinished request has one
  completion under way. `FlipsExact`: nothing of a closed port is shown or left
  in a list, `gcQueueNum` is the number of the port's end-of-pipe flips, and
  `flipPendingNum` is exact if only one port was ever opened, and at least the
  port's own flips otherwise: that it may be too high is a limitation of the
  code (see 6), and the property admits it.
- `FlipCallsReturn` is about behaviours in which the program does not
  end by one of its own `EXIT`s, the GPU does not wait for a flip queued behind
  the wait itself, and the present thread is not starved of frames (see 6).

**Bounds and why they are enough.** Three threads are the fewest that show a
holder, a sleeper and a newcomer that barges in, which is what every lost
wake-up here needs. Depth 2 tells a recursive lock from a single one, and
reaches the limit `MaxCount`. Two inline slots and three readers use the
overflow vector and move its entries. A semaphore with a maximum of 2 lets a
waiter need more than there is while a smaller one could pass; a signal of -1
takes a token away or leads below 0, one of 3 lifts the count from there or
makes a sum past the largest int. Signed overflow is undefined; `Signal` is
modelled by what the compilers' addition does, which wraps, and `Fits` tests the
same sum that is stored. An array of 2 under events with 2
triggers fills up in its middle. Three submissions on a pool that grows by one
make the search for a free buffer wrap, find one in flight, and find one free
again; three operations are one running, one queued and one to come.
Three pages in two regions give an image two shared edges with a page of its
own between them, and a range that needs two region locks. A queue and a pool
of 2 fill up with one flip more. Runs of the two larger modules check several
small instances (`Instances`), chosen in the initial state, rather than one
that has everything at once.
Bounds that are not the code's are named: `MaxReads` (nested read locks),
`MaxQueued` (pending triggers), `MaxPresent` (events in the queue), `MaxCount`
of the mutex (for `UINT32_MAX`), `IntMax` of the semaphore (for
`INT32_MAX`), `MaxTick`, `MaxOps`, and the counts in
`Instances`; they are guards of the actions that would pass them. Deadlock
checking is off only where nothing may remain to do: the object has been
deleted, the renderer shut down, the flips used up or the program ended.

**Assumptions about the guest.** It unlocks a condition's mutex only if it
holds it, deletes a semaphore, flag or queue once, and starts no call on a flag
or semaphore it has begun to delete (event queues have handles, so there any
call may race a deletion). A call that the code refuses for bad
arguments changes nothing and has no action; `Signal` of a semaphore refuses
only a sum above the maximum, so that its argument is any int of the width.

## 4 Fairness

Guest threads are host threads, which the host runs: a thread that can go on
inside a call does (weak fairness on its steps), time passes, and a sleep with
a deadline ends once that has passed. In the runs about waiting for a holder
the guest also unlocks in the end what it locked. No fairness is given to the
start of a call or to spurious wake-ups: an untimed sleeper on a futex or on a
`std::condition_variable` is woken by a notification or not at all. Beyond
this:

- strong fairness on taking `cond->m` in `CondVar` and on the last read unlock
  in `Rwlock`: a host mutex that is free again and again is got by a thread
  that keeps asking, as Linux's mutexes in effect give;
- weak fairness on the end of a sleep in `EventFlag` and for the granted
  waiters of `KernelSema`: `Common::CondVar::Wait` returns after 10 ms, and
  both depend on it (see 6). `EventQueue` does not depend on it, so it is not
  assumed there;
- in `CommandScheduler`, weak fairness on the priority thread and the device,
  and strong fairness on the owner, whose sections of `m_operation_mutex` the
  priority thread may close again and again;
- in `FlipQueue`, weak fairness on every thread and the device, and strong
  fairness on preparing a CPU flip: the GPU thread takes submissions in order,
  so one that can be prepared now and then is. No guest is made to submit or
  close, and the present thread's idle rounds help nobody.

`MemoryTracker` states no fairness: its properties are safety.

`AllGetThrough` is conditional: draining calls end unless waits keep being
entered for ever. Without that condition TLC finds two threads that take turns
in re-entering a wait so that `m_waiting_threads` is never 0 when the
cancellation looks.

## 5 Proofs

Every theorem holds for all values of the constants that meet the module's
named assumption: any set of threads (finite where the code counts them), any
limits, masks, priorities and array sizes.

| module | theorem | property |
|---|---|---|
| `FutexMutexProofs` | `TypeCorrect` | `TypeOK` |
| | `MutexIsExclusive` | `MutualExclusion` |
| | `OwnerIsRight` | `OwnerAgrees` |
| | `NoWakeupLost` | `NoStrandedSleeper`, assuming no caller uses a deadline |
| | `MutexRefines` | `ImplementsAbstractMutex` |
| `CondVarProofs` | `TypeCorrect` | `TypeOK` |
| | `QueueIsExact` | `WaitersExact` |
| | `ChosenThreadsWake` | `NoWakeupLost`: no chosen thread sleeps, no sleeper is out of the queue |
| | `CondRefines` | `ImplementsAbstractCond` |
| `RwlockProofs` | `TypeCorrect` | `TypeOK` |
| | `WritersExclude` | `Exclusive` |
| | `TableIsExact` | `BookkeepingExact` |
| | `NoWriterForgotten` | `WritersKept`: no writer sleeps on a free lock |
| | `NobodySleepsInVain` | `NoStrandedSleeper`, assuming no writer uses a deadline |
| `KernelSemaProofs` | `TypeCorrect` | `TypeOK` |
| | `NobodyWaitsInVain` | `NoGrantableWaiter` |
| | `TokensAreConserved` | `TokensConserved` |
| | `FreedIsUnused` | `FreedUnused`: nobody is inside a semaphore that is freed |
| | `NobodyIsOvertaken` | `NoOvertaking`, an action property |
| | `SemaRefines` | `ImplementsAbstractSema` |
| `EventQueueProofs` | `TypeCorrect` | `TypeOK` |
| | `TriggersAreAccounted` | `TriggersAccounted` |
| | `CallbacksRunOnce` | `CallbackOnce` |
| | `NobodyStranded` | `NoStrandedSleeper` |
| | `LoopEnds` | the delivery loop has a result for every array size |
| `EventFlagProofs` | `TypeCorrect` | `TypeOK` |
| | `SingleWaiterHolds` | `SingleWaiter` |
| | `NoSleeperStranded` | `NoStrandedSleeper` |
| | `FreedIsEmpty` | `NobodyInFreed` |
| | `StruckReturns` | `StruckReturn`, an action property |
| `GraphicsProofs` | `TypeCorrect` | `TypeOK` of `CommandScheduler` |
| | `BuffersAreReusedInTime` | `BufferNotInFlight` |
| | `CallbacksRunInTurn` | `RunsInTurn` |
| | `NothingIsLeftBehind` | `NothingLeftBehind` |
| | `FlipTypeCorrect` | `FlipTypeOK` |
| | `FlipsAreExact` | `FlipsExact` |
| `MemoryTrackerProofs` | `TypeCorrect` | `TypeOK`, with the agreement of bits, watchers and protection |
| | `NoWriteIsLost` | `NoWriteLost` |
| | `ImagesAreCurrent` | `NoStaleImage` |

**Mutex.** Exclusion is not inductive by itself, because between the
compare-and-swap and the store of the owner a thread holds the mutex and
nothing but its program counter says so. `IInv` is `TypeOK` with `WordInv`
(the word is UNLOCKED exactly when no thread has won it, and at most one has)
and `OwnerInv` (the owner is in guest code, `count` is its depth and the
guest's own tally, and there is no owner exactly when the count is 0, which
covers the two windows). For lost wake-ups `SleepInv` is enough by itself:
while a thread sleeps, the word is CONTENDED or a *caretaker* exists, a thread
whose next steps mark the word or wake someone; each action keeps the word,
or the caretaker, or makes the mover one. A deadline breaks just this - the
caretaker may leave - which is why `NoWakeupLost` needs its hypothesis and why
the run `mutex_stranded` has a counterexample. In the refinement `holder` is
the thread that has won the word and `depth` the count while owned; the
compare-and-swap that wins and the exchange that gives up are the abstract
steps, everything else stutters.

**Condition variable.** The queue is a sequence that a signal may take any
member from, so `IInv` says that it has no repetition and holds exactly the
waiting threads nobody has chosen. The refinement needs more, `RInv`: which
threads the abstract specification already counts as joined (`JoinInv`, from
the moment the thread is queued and the mutex given up) and with which
recursion depth each comes back (`DepthInv`). On `RInv` rests `ChosenInv` (who
has been chosen is at the loop, on the way to it, or past it): a sleep begins
only under `cond->m`, with the sequence number looked at under the same lock.

**Reader-writer lock.** `TableInv` (no thread has two entries, in the inline
slots, the overflow vector or one in each, and the number in an entry is the
locks the thread holds), `CountInv` (`reader_count` is their sum), `WriterInv`
(writer and depth, and no reader but the writer itself) and `WaitInv` (the
registered writers are those inside the wait). Replacing an inline entry by the last one is where all four meet.

Nobody is told when a lock is taken, only when one is given up, so that whoever
sleeps must be kept out by something whose end is announced. `WritersKept` (a
writer asleep is kept out by a holder) holds always, since the last holder
tells everybody; it needs `WaitInv`, because the last reader does so only if a
writer is registered. `ReadersKept` (a reader asleep is kept out by the writer
that has the lock, or by one that waits) does not survive a timed writer that
gives up (section 6), which is the reason for the hypothesis of
`NobodySleepsInVain`. Both rest on `CallerInv`: who waits to write holds
nothing.

**Semaphore.** Tokens are counted by a sum over the granted waiters still
inside; the proof adds and removes one thread at a time from that set. `IInv`
has `QueueInv` (the queue, and the history of arrivals, hold each thread inside
exactly once),
`CountInv` (the count is an int of at most the maximum, below 0 only when
`lowered`, and with the grants makes up the guest's tally), `DeleteInv` (the destructor passes only an empty queue) and
`NoGrantableWaiter` itself, which is inductive next to them. The order of
service needs `OrderInv` besides: who stands before another in the queue came
earlier, in a FIFO semaphore, and else has the better priority, or the same and
came earlier. `AddWaiter` puts a newcomer where this stays true, and taking
waiters out keeps it; a signal walks the queue from its head, so that those it passes
over are those whose need did not fit. `SignalCounts` is any set of ints, and
the sum may wrap: `AbstractSema` adds by the same int arithmetic, so the
refinement and the tally (`ledger`, which counts the sum as stored) hold
whatever the guest signals.

In the refinement a waiter that is not ready is the one whose call is pending,
whatever its `result` says in advance, and `m_count` is the bag of tokens.
Sleeping, notifying and polling stutter; the walk of a Signal hands the tokens
over in one abstract step, which is the reason why the code may leave the
waking to a condition variable all waiters share. `WaitInv` is needed besides
`IInv`: only threads in the queue have a need and a deadline.

**Event queue.** `IInv` is `TypeInv`, `CallInv` and `EventInv` with the three
properties. `EventInv` says that nothing is left of an event that has gone and that only
queued ones count triggers. One step hands a whole array of events over;
what the delivery loop leaves and what it gives is defined by functions on the
positions of the queue, and facts about them need induction. The library's
induction theorems take an operator and cannot be instantiated here, so the
lemma `Least` states it for sets - a set of numbers that is not empty has a
least member - and each induction is the argument that no position is the first
to fail. `LoopEnds` shows in the same way that the function the loop is defined
by exists, so that the action is not disabled by its own definition.

**Event flag.** What a struck thread returns depends on `m_status` still
being what it was when the thread was struck. `StruckInv` says so (whoever is
struck is awake and the status is the one it will return), `DrainInv` why it
lasts (at most one call drains, it is the one the status names, and after the
deletion nobody spins), and `TypeOK` ties `m_waiting_threads` to the set of
threads inside, so that a drain that sees 0 leaves nobody behind.
`SingleWaiter` and `NoStrandedSleeper` are inductive next to these; `FreedInv`
and `WaitInv` complete the rest. `FreedIsEmpty` rests on the assumption the
module states: the guest deletes a flag while nothing but waits and
cancellations are in progress.

**Command scheduler.** A buffer is reused when the tick stored for it has been
reached. `DeviceInv` is about this alone: `TickInv` orders what is known of the
device, its counter, the submissions in flight and the current tick; `PoolInv`
says the stored ticks are of the past; `FlightInv` that a buffer in flight
carries the tick stored for it, which the counter has not reached. A search
that finds a free buffer has therefore found one that is in no submission.

The callbacks need the control of the owner as well. Its call is the list of
the steps it has still to take, and `ControlInv` says that each is the one the
table `After` puts behind the step before it, so that an action that takes one
step knows which comes next. On it rest `SeatInv` (each operation deferred has
exactly one seat: it is pending, in the priority queue, held by the owner, in
the priority thread's hands, or has run; both queues are in the order of the
ticks), `OwnerInv` (the operation the owner runs is older than all that is left
for the priority thread), `UnmapInv` and `ShutInv` (how far the device and the
queues are at each step of the two calls that must leave nothing behind) and
`PriorityInv` (the priority thread runs what the device has passed, and stops
only for `Shutdown`). `RunsInTurn` and `NothingLeftBehind` follow. Neither is
inductive with less: what a call may find at its end depends on what it has
established at each step before, while a callback defers new operations.

**Memory tracker.** What `TypeOK` says of bits, watchers and protection holds
where nobody is at work, and every path through the tracker leaves it for a
while: a region's bits change first, the watchers are counted page by page
afterwards, and the protection follows the watchers under another lock. The
inductive invariant `IInv` says by how much each may lag. `WatchInv`: the
watchers of a page are its bits, but for the calls still to be made, and
`CallInv` says whose and which these are. `ProtectInv`: while a region's
protection is changed it is on its way to what the watchers say; `StrictInv`:
if a guest changes it, it is meanwhile never more open than that, because
guests only end watches. `GuestControl` and `GpuControl` tell what each thread
holds and works on at each label, `QueueInv` the same of the requests of guests
to the GPU thread, and `LockInv` and `MLockInv` tie the labels to the region
locks and to the image's lock. The data rest on these: `CopyInv` (what the
guest can write, or has written, is dirty or about to be copied), `UnreadInv`
and `GpuInv` (what memory lacks is dirty, recorded and out of the guest's
reach), and `ImageInv` with `NoStaleImage`. None of this is inductive in
smaller parts: a page is safe to copy because it is protected, which it is
because its watchers have been counted, which they have because the lock of
its region was held.

**Flip queue.** Both properties follow from one inductive invariant,
`FlipIInv`, for any number of threads, ports, buffers, frames and flips.
`ListInv` puts each request in one list, and `StateInv` says what its list and
its state tell of it: a flip prepared by the GPU thread has no frame before it
is recorded, one that is ready has a frame and its place in the queue, and none was
reserved at a later opening than its port's present one. `CarryInv` finds the one
completion of each flip still to be shown: in a guest's hands, queued for the
GPU thread, with that thread, or on the device. A request is cancelled under
that completion, so `GpuInv` has to hold at every label of the GPU thread for
requests of the queue and cancelled ones alike, and `FrameInv` counts the
frames of both: this is why a frame attached to a flip that has just been
cancelled comes back. `PresenterInv` says that the request the present thread
copied stays the first while `m_processing` is set and its port as it is while
its lock is held. `ClosedPortsEmpty` needs both, and `PortInv` (the call that
has closed a port has still its `Cancel` to do). `BudgetInv` and `StatusInv`
count: removing a port's requests takes from the queue what was counted for it,
whatever else is queued.

`Cancel` removes the requests of a port from the middle of two lists. `Keep`
is the subsequence of the requests that stay, defined through the increasing
enumeration of their positions; that such an enumeration exists is proved as
for the event queue above, from the least bound under which a set had none. The
proofs share a module with the scheduler's because the two meet in the priority
thread, which completes end-of-pipe flips, and rest on the same facts about
queues.

**Only model-checked:** liveness, for every module. `ENABLED` and liveness
under fairness are outside the prover's reach.

## 6 What was found

Disagreements with the repository's own words, each with a run:

- `mutex_stranded`: the README calls the mutex a three-state machine in which
  a sleeper implies CONTENDED. A timed waiter that is woken, loses the word to
  a newcomer and then meets its deadline leaves (`pthread.cpp:1081`) without
  marking the word, and another sleeper stays asleep on a free mutex.
- `sema_wrong_wake`: the README says the 10 ms poll only bounds the delivery
  of guest signals. `KernelSema` signals a condition variable that all waiters
  share, having granted one of them (`semaphore.cpp:158`); another may take
  the notification, and the granted thread finds out at its next poll.
- `scheduler_shutdown`: a comment says the owning thread finishes the shutdown
  after the callback. `commandScheduler.cpp:131` requests the stop and notifies
  without `m_operation_mutex`: between the priority thread's test and its sleep
  the notification is lost, and `join` waits for ever.

Known limitations, visible in the models, on which the repository says
nothing:

- a timed writer of a reader-writer lock that gives up (`pthread.cpp:2251`)
  notifies nobody: readers asleep only because of it stay asleep, so
  `NoWaiterLeftBehind` assumes that no writer is timed, and no property
  catches this;
- a waiter of an event queue whose array is full leaves the rest without
  telling the next sleeper (`eventQueue.cpp:135`), which finds it at its next
  poll; `NoStrandedSleeper` there excludes exactly this;
- a level event fills the whole array with copies of itself
  (`eventQueue.cpp:109-133`), hiding the events after it;
- a wait entered while an event flag is being cancelled sleeps with nobody to
  wake it but the poll, and `Cancel`, `Set` and `Clear` wait for it;
- `Signal` of a semaphore accepts any int (`semaphore.cpp:149`): a negative
  count takes tokens away, also below 0, and a sum that overflows is undefined
  and makes the count negative where it wraps;
- a second deletion of a semaphore spins for ever (`semaphore.cpp:74`);
- when the watch of a page that an image shares with other data has been given
  up, later guest writes to the image's own bytes there leave no trace, and
  `TrackImage` watches the page again without marking the image
  (`textureCache.cpp:458`); `NoStaleImage` leaves out just these pages;
- the GPU thread may protect a page again while the kernel reads a file into it
  on a guest's behalf: the read then fails where a guest access would fault and
  go on;
- with every frame held by queued flips, the present thread may ask the pool
  for a blank frame and wait for ever, as only it could give one back
  (`swapchain.cpp:91`; `PresenterStarved`);
- the GPU thread's `WaitFlipDone` (`videoOut.cpp:1093`) on a CPU flip whose
  preparation is queued behind it never ends (`GpuWaitsForItself`);
- `flipPendingNum` (`videoOut.cpp:888`) counts the requests of all ports, so it
  is too high when two ports have flips queued; no property catches this;
- a flip on a port closed or a queue filled at the wrong moment ends the
  program by an `EXIT` of the code's own (`exit` in the model);
- an interrupt that finds its event gone takes the registration away, also one
  made anew in between (`renderContext.cpp:100`); read, not modelled.

## 7 Not modelled

- Lifetimes: destroying a mutex, condition variable or reader-writer lock in
  use, a call on a semaphore already freed, and the lazy creation of static
  objects. Creation and attributes.
- Guest signal handlers that run in the middle of an emulated call.
- The memory model below sequential consistency: the atomics concerned are
  `seq_cst`, `acquire` and `release` on one word.
- Of the scheduler: deferring from other threads once it drains, which no caller
  does, and the semaphores a flip adds to a submission.
- Of the caches: more than one buffer and one image, joining of buffers,
  overlaps, downloads of images, unmapping, the GPU thread's own copies to guest
  memory, and everything Vulkan. The device writes whole pages. Small reads that
  `ObtainBuffer` serves from the stream buffer do not touch the tracker.
- Of the video output: the swapchain, vblank waits, event registrations, time
  stamps, the rounds of the present thread while the guest is paused. Buffers
  stay registered while a port is open.
- The components of section 1 without a module: POSIX semaphores (their table
  keeps raw pointers), sync on address (64-bit values on a 32-bit futex),
  threads, keys and once, signals, memory manager, file system, interrupts and
  the command processor, each with its reason in `components` of
  `PROJECT.json`. Loader, shader recompiler and most libraries transform data
  and are better tested; vendored code is out of scope. By lines these are the
  greater part of the repository; the modules cover the parts whose state is
  shared between threads.

## 8 Plan

Done: the guest kernel's mutex, condition variable, reader-writer lock,
semaphore, event queue and event flag, the command scheduler, the memory
tracker and the flip queue, all with the proofs of their safety properties.

Next, in this order:

1. Abstract specifications (below) for the event flag and the cached page, with
   refinement proofs.
2. `GpuInterrupts`: the registrations of `renderContext.cpp` with two events of
   an `EventQueue`; property: a registered event that exists is triggered by
   every later interrupt. The video output's event registrations beside it.
3. `GuestThreads`: create, join, detach, exit, key destructors, `pthread_once`;
   the lifetime of the mutex, condition variable and static objects.
4. `PosixSem` and `SyncOnAddress`, the first as a small abstract semaphore
   with its pointer table, the second over the futex part of `FutexMutex`.
5. The memory manager on a few pages, unmapping composed with `MemoryTracker`;
   the save-data slots.

Abstract specifications worth stating: an event flag whose cancellation strikes
in one step, a flip queue as a sequence of requests, a cached page as one that
is always equal to the guest's.
